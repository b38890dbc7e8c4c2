------------------------------ MODULE Verdicts ------------------------------
(***************************************************************************)
(* The answers of the inference API (inference/main.py), and what          *)
(* tryRemotePredict and tryRemoteGnnPredict make of them.                  *)
(*                                                                         *)
(* A probability is a number of units of which a certainty has Whole; Tiny *)
(* is a decimal below the smallest normal float, which softmax can give    *)
(* and the JSON of the answer spells out, and for which stof throws.       *)
(*                                                                         *)
(* Abstracted: the text of an answer is the two lists the client looks     *)
(* for, preds and the first row of probs; a missing key is an empty list.  *)
(***************************************************************************)
EXTENDS Integers, Sequences, FiniteSetsExt

CONSTANTS
  Classes,        \* classes of the CNN; kMalwareClasses has 26
  Benign,         \* the number of the benign one: 6
  Whole,          \* units of a certainty
  CnnThreshold,   \* SENTINAL_CONFIDENCE_THRESHOLD, 0.70 by default
  GnnThreshold    \* SENTINAL_GNN_CONFIDENCE_THRESHOLD, 0.60 by default

ASSUME VerdictsAssumption ==
  /\ Classes \in Nat \ {0} /\ Benign \in 0 .. Classes - 1
  /\ Whole \in Nat \ {0}
  /\ CnnThreshold \in Int /\ GnnThreshold \in Int

Tiny == -1
Units(decimal) == IF decimal = Tiny THEN 0 ELSE decimal

-----------------------------------------------------------------------------
\* softmax over the logits of n classes.
Softmax(n) ==
  {probs \in [1 .. n -> {Tiny} \cup 0 .. Whole] :
     MapThenSumSet(LAMBDA k : Units(probs[k]), 1 .. n) = Whole}

\* _postprocess, for one picture or graph: the prediction is a class no other is
\* more probable than.
Postprocess(n) ==
  {answer \in [status : {200}, preds : {<<class>> : class \in 0 .. n - 1},
               probs : Softmax(n)] :
     \A k \in 1 .. n :
       Units(answer.probs[k]) <= Units(answer.probs[answer.preds[1] + 1])}

\* _get_model's refusal, and an exception in the handler; and a request that got no
\* response at all.  What is checked with 422 this client does not send.
Refusal(status) == [status |-> status, preds |-> <<>>, probs |-> <<>>]
Refusals == {Refusal(status) : status \in {404, 500}}
NoAnswer == Refusal(0)

\* predict_cnn and predict_gat.
CnnAnswers == Postprocess(Classes) \cup Refusals \cup {NoAnswer}
GnnAnswers == Postprocess(2) \cup Refusals \cup {NoAnswer}

-----------------------------------------------------------------------------
\* parseFirstIntAfterKey finds an integer and parseFirstFloatListAfterKey does
\* not throw.
Readable(answer) ==
  /\ answer.status = 200 /\ answer.preds # <<>>
  /\ \A k \in DOMAIN answer.probs : answer.probs[k] # Tiny

Confidence(answer) ==
  LET k == answer.preds[1] + 1
  IN  IF k \in DOMAIN answer.probs THEN answer.probs[k] ELSE 0

\* tryRemotePredict's answer: two of its three branches are clean.
\* (Mutant: a confidence at the threshold is low.)
CnnOutcomeStrict(answer) ==
  IF ~Readable(answer) THEN "failed"
  ELSE IF answer.preds[1] = Benign \/ Confidence(answer) <= CnnThreshold THEN "clean"
  ELSE "malicious"

CnnOutcome(answer) ==
  IF ~Readable(answer) THEN "failed"
  ELSE IF answer.preds[1] = Benign \/ Confidence(answer) < CnnThreshold THEN "clean"
  ELSE "malicious"

\* tryRemoteGnnPredict's: class 0 is the malicious one, and its probability counts
\* only if there are at least two.
GnnOutcome(answer) ==
  LET malProb == IF Len(answer.probs) >= 2 THEN answer.probs[1] ELSE 0
  IN  IF ~Readable(answer) THEN "failed"
      ELSE IF answer.preds[1] = 0 /\ malProb >= GnnThreshold THEN "malicious"
      ELSE "clean"

-----------------------------------------------------------------------------
\* What the API says of an image, whether the client can read it or not.
Accused(answer) ==
  /\ answer.status = 200 /\ answer.preds[1] # Benign
  /\ Units(answer.probs[answer.preds[1] + 1]) >= CnnThreshold
=============================================================================
