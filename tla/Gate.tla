-------------------------------- MODULE Gate --------------------------------
(***************************************************************************)
(* What the pre-run phase promises, told without tarballs, pictures and    *)
(* other invocations: every invocation comes to a gate of its own.  One    *)
(* that owes a judgement is not exempt; it is judged once; accused, it     *)
(* waits for the user's answer; it passes without an accusation or with    *)
(* the user's consent, and one that was refused has ended.  PreRun is      *)
(* shown to implement this.                                                *)
(***************************************************************************)
CONSTANT Inv

VARIABLES
  gate,     \* per invocation
  owed,     \* whether its command line names an image, beyond doubt
  accused,  \* whether it was judged, and found malicious
  granted   \* whether the user has consented

gateVars == <<gate, owed, accused, granted>>

Init ==
  /\ gate = [i \in Inv |-> "outside"]
  /\ owed = [i \in Inv |-> FALSE]
  /\ accused = [i \in Inv |-> FALSE]
  /\ granted = [i \in Inv |-> FALSE]

\* Nothing to judge: no image was found on the command line.
Exempt(i) ==
  /\ gate[i] = "outside"
  /\ gate' = [gate EXCEPT ![i] = "exempt"]
  /\ UNCHANGED <<owed, accused, granted>>

Enter(i, due) ==
  /\ gate[i] = "outside"
  /\ gate' = [gate EXCEPT ![i] = "closed"]
  /\ owed' = [owed EXCEPT ![i] = due]
  /\ UNCHANGED <<accused, granted>>

Judge(i, bad) ==
  /\ gate[i] = "closed"
  /\ gate' = [gate EXCEPT ![i] = IF bad THEN "asking" ELSE "passed"]
  /\ accused' = [accused EXCEPT ![i] = bad]
  /\ UNCHANGED <<owed, granted>>

Reply(i, yes) ==
  /\ gate[i] = "asking"
  /\ gate' = [gate EXCEPT ![i] = IF yes THEN "passed" ELSE "refused"]
  /\ granted' = [granted EXCEPT ![i] = yes]
  /\ UNCHANGED <<owed, accused>>

Open(i) ==
  /\ gate[i] \in {"exempt", "passed"}
  /\ gate' = [gate EXCEPT ![i] = "open"]
  /\ UNCHANGED <<owed, accused, granted>>

Refuse(i) ==
  /\ gate[i] \notin {"open", "refused"}
  /\ gate' = [gate EXCEPT ![i] = "refused"]
  /\ UNCHANGED <<owed, accused, granted>>

Next == \E i \in Inv : \/ Exempt(i) \/ Open(i) \/ Refuse(i)
                       \/ \E b \in BOOLEAN : Enter(i, b) \/ Judge(i, b) \/ Reply(i, b)

Spec == Init /\ [][Next]_gateVars
=============================================================================
