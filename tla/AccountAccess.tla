--------------------------- MODULE AccountAccess ---------------------------
(***************************************************************************)
(* What the withdrawal and reactivation sagas promise about one account,   *)
(* without jobs, leases, fences or workers: when it may be signed in to,   *)
(* under which address, and when its stored files are gone.                *)
(***************************************************************************)
CONSTANTS Real, Marker, Paths

VARIABLES
  phase,   \* where the account is in its life
  email,   \* the address of its Auth user
  assets   \* its stored objects and the uploads that may still add to them

vars == <<phase, email, assets>>

Phases == {"active", "cleaning", "gone", "restoring", "cancelling"}

Init == phase = "active" /\ email \in {Real, Marker} /\ assets = {}

Step(from, to) == phase \in from /\ phase' = to

\* A member withdraws: whatever is stored waits for the cleanup.
Withdraw == Step({"active"}, "cleaning") /\ UNCHANGED <<email, assets>>

\* The address of a withdrawn account is given up, never taken back.
Scrub == phase = "cleaning" /\ email' = Marker /\ UNCHANGED <<phase, assets>>

\* The cleanup ends when nobody can sign in and nothing is stored any more.
Cleaned ==
  /\ Step({"cleaning"}, "gone") /\ email = Marker /\ assets = {}
  /\ UNCHANGED <<email, assets>>

\* An administrator restores the account, or changes their mind.
Reopen == Step({"gone"}, "restoring") /\ UNCHANGED <<email, assets>>
Cancel == Step({"restoring"}, "cancelling") /\ UNCHANGED <<email, assets>>
Restore == phase = "restoring" /\ email' = Real /\ UNCHANGED <<phase, assets>>
Undo == phase = "cancelling" /\ email' = Marker /\ UNCHANGED <<phase, assets>>
Restored == Step({"restoring"}, "active") /\ email = Real /\ UNCHANGED <<email, assets>>
Cancelled == Step({"cancelling"}, "gone") /\ email = Marker /\ UNCHANGED <<email, assets>>

\* An account that was reactivated before its address was restored.
Repair == phase = "active" /\ email' = Real /\ UNCHANGED <<phase, assets>>

\* Files come and go while the account is active; an upload begun then may
\* land until the cleanup has ended.
Store ==
  /\ phase \in {"active", "cleaning"}
  /\ assets' \in SUBSET Paths
  /\ phase = "cleaning" => assets' \subseteq assets
  /\ UNCHANGED <<phase, email>>

Next == Withdraw \/ Scrub \/ Cleaned \/ Reopen \/ Cancel \/ Restore \/ Undo \/ Restored
        \/ Cancelled \/ Repair \/ Store

Spec == Init /\ [][Next]_vars
=============================================================================
