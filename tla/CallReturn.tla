----------------------------- MODULE CallReturn ------------------------------
(***************************************************************************)
(* What CALL and RET promise the running program: a callee returns to the  *)
(* instruction after the call and to the caller's slots, last call first,  *)
(* and nothing else enters or leaves a frame.  The interpreter has no such *)
(* stack: it keeps the bases on one and the return addresses in slots the  *)
(* program could overwrite.  Module Calls shows that it implements this    *)
(* all the same.                                                           *)
(***************************************************************************)
EXTENDS Naturals, Sequences, SequencesExt

VARIABLES at,      \* the instruction executed next
          frame,   \* where the running function's slots start
          calls    \* for each active call, where it returns to and its frame

crVars == <<at, frame, calls>>

CRInit == at = 0 /\ frame = 0 /\ calls = <<>>

Step == at' \in Nat /\ UNCHANGED <<frame, calls>>

Call ==
  /\ at' \in Nat /\ frame' \in Nat /\ frame' >= frame
  /\ calls' = Append(calls, [at |-> at + 1, frame |-> frame])

Return ==
  /\ calls # <<>>
  /\ at' = Last(calls).at /\ frame' = Last(calls).frame
  /\ calls' = Front(calls)

CRNext == Step \/ Call \/ Return

CallReturnSpec == CRInit /\ [][CRNext]_crVars

=============================================================================
