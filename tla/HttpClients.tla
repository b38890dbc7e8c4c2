---------------------------- MODULE HttpClients -----------------------------
(***************************************************************************)
(* utils/http.cpp as the threads of the program use it: the loop's own     *)
(* thread (flush_logs, the final check, the exit log) and the detached     *)
(* threads of run_gnn.  Each of them makes an HttpClient for one request   *)
(* and destroys it, over and over, while others are in the middle of       *)
(* theirs; the constructors and destructors start and stop libcurl for     *)
(* the whole process.                                                      *)
(*                                                                         *)
(* Abstracted: a body is the number of its chunks, as writeCallback gets   *)
(* them; methods, URLs, options and the status of a response.              *)
(* External: curl_global_init and curl_global_cleanup count their calls    *)
(* under a lock of libcurl's (as since 7.84), so that they are one step.   *)
(***************************************************************************)
EXTENDS Integers, FiniteSets

CONSTANTS
  Thread,     \* the threads that make requests
  MaxChunks   \* bound on the chunks of a body

ASSUME HttpAssumption == IsFiniteSet(Thread) /\ MaxChunks \in Nat

VARIABLES
  initialized,   \* libcurl's count of curl_global_init
  up,            \* whether libcurl's global state is there
  pc,            \* per thread: where it is
  held,          \* per thread: the easy handle and the header list it owns
  body,          \* per thread: the body the server is sending
  response,      \* per thread: what writeCallback has got of it
  result         \* per thread: what request returned, or "thrown"

curlVars == <<initialized, up>>
vars == <<curlVars, pc, held, body, response, result>>

-----------------------------------------------------------------------------
Thrown == -1

Init ==
  /\ initialized = 0 /\ up = FALSE
  /\ pc = [t \in Thread |-> "outside"]
  /\ held = [t \in Thread |-> {}]
  /\ body = [t \in Thread |-> 0]
  /\ response = [t \in Thread |-> 0]
  /\ result = [t \in Thread |-> Thrown]

Goto(t, label) == pc' = [pc EXCEPT ![t] = label]

\* The first call starts libcurl; the last one stops it.
\* (Mutants: every one does; a destructor that does not.)
GlobalInit == initialized' = initialized + 1 /\ up' = TRUE

GlobalCleanupEach == initialized' = initialized - 1 /\ up' = FALSE

GlobalCleanupMissing == UNCHANGED curlVars

GlobalCleanup == initialized' = initialized - 1 /\ up' = (initialized > 1)

Construct(t) ==
  /\ pc[t] = "outside"
  /\ GlobalInit
  /\ Goto(t, "client")
  /\ UNCHANGED <<held, body, response, result>>

\* get, post, put, del: request makes a handle, or throws.
EasyInit(t) ==
  /\ pc[t] = "client"
  /\ held' = [held EXCEPT ![t] = {"handle"}]
  /\ Goto(t, "setup")
  /\ UNCHANGED <<curlVars, body, response, result>>

EasyInitFails(t) ==
  /\ pc[t] = "client"
  /\ Goto(t, "over")
  /\ UNCHANGED <<curlVars, held, body, response, result>>

\* The header list, if there are headers, and the options.
Setup(t, headers, chunks) ==
  /\ pc[t] = "setup"
  /\ held' = [held EXCEPT ![t] = @ \cup (IF headers THEN {"headers"} ELSE {})]
  /\ body' = [body EXCEPT ![t] = chunks]
  /\ Goto(t, "perform")
  /\ UNCHANGED <<curlVars, response, result>>

\* writeCallback.
Receive(t) ==
  /\ pc[t] = "perform" /\ response[t] < body[t]
  /\ response' = [response EXCEPT ![t] = @ + 1]
  /\ UNCHANGED <<curlVars, pc, held, body, result>>

\* curl_easy_perform: OK is the whole body; an error, the timeout of 60
\* seconds among them, may come at any time before.
Performed(t) ==
  /\ pc[t] = "perform" /\ response[t] = body[t]
  /\ Goto(t, "performed")
  /\ UNCHANGED <<curlVars, held, body, response, result>>

\* (Mutant: without CURLOPT_TIMEOUT a silent server is waited for.)
PerformFailsNever(t) == FALSE /\ UNCHANGED vars

PerformFails(t) ==
  /\ pc[t] = "perform"
  /\ Goto(t, "failed")
  /\ UNCHANGED <<curlVars, held, body, response, result>>

\* What follows: the list and the handle are freed, then request throws if
\* there was an error, and returns the response otherwise.
\* (Mutants: the throw comes first; the error is not looked at.)
FinishLeaks(t) ==
  /\ pc[t] \in {"performed", "failed"}
  /\ held' = [held EXCEPT ![t] = IF pc[t] = "failed" THEN @ ELSE {}]
  /\ result' = [result EXCEPT ![t] = IF pc[t] = "failed" THEN Thrown ELSE response[t]]
  /\ Goto(t, "over")
  /\ UNCHANGED <<curlVars, body, response>>

FinishUnchecked(t) ==
  /\ pc[t] \in {"performed", "failed"}
  /\ held' = [held EXCEPT ![t] = {}]
  /\ result' = [result EXCEPT ![t] = response[t]]
  /\ Goto(t, "over")
  /\ UNCHANGED <<curlVars, body, response>>

Finish(t) ==
  /\ pc[t] \in {"performed", "failed"}
  /\ held' = [held EXCEPT ![t] = {}]
  /\ result' = [result EXCEPT ![t] = IF pc[t] = "failed" THEN Thrown ELSE response[t]]
  /\ Goto(t, "over")
  /\ UNCHANGED <<curlVars, body, response>>

\* The destructor, also on the way of an exception; the response goes with it.
Destroy(t) ==
  /\ pc[t] = "over"
  /\ GlobalCleanup
  /\ body' = [body EXCEPT ![t] = 0]
  /\ response' = [response EXCEPT ![t] = 0]
  /\ result' = [result EXCEPT ![t] = Thrown]
  /\ Goto(t, "outside")
  /\ UNCHANGED held

\* What a thread does once it has a client, and what the server does.
Proceed(t) ==
  \/ EasyInit(t) \/ EasyInitFails(t)
  \/ \E headers \in BOOLEAN, chunks \in 0 .. MaxChunks : Setup(t, headers, chunks)
  \/ Performed(t) \/ PerformFails(t) \/ Finish(t) \/ Destroy(t)

Step(t) == Construct(t) \/ Proceed(t) \/ Receive(t)

Next == \E t \in Thread : Step(t)

Spec == Init /\ [][Next]_vars

\* A thread that can go on does: the timeout ends every transfer.  Nothing is
\* assumed of the server, nor that a thread makes another client.
FairSpec == Spec /\ \A t \in Thread : WF_vars(Proceed(t))

-----------------------------------------------------------------------------
TypeOK ==
  /\ initialized \in 0 .. Cardinality(Thread) /\ up \in BOOLEAN
  /\ pc \in [Thread -> {"outside", "client", "setup", "perform", "performed", "failed", "over"}]
  /\ held \in [Thread -> SUBSET {"handle", "headers"}]
  /\ body \in [Thread -> 0 .. MaxChunks]
  /\ response \in [Thread -> 0 .. MaxChunks]
  /\ result \in [Thread -> {Thrown} \cup 0 .. MaxChunks]

(* libcurl is up while any thread has a client, whichever threads come and  *)
(* go meanwhile, and is stopped by the last one, however its request ended: *)
(* the counts of all constructors and destructors balance.                  *)
UpWhileUsed == up <=> \E t \in Thread : pc[t] # "outside"

(* On no path out of request, by a return or by one of its two throws, is   *)
(* an easy handle or a header list left behind.                             *)
NothingLeaks == \A t \in Thread : pc[t] \in {"outside", "over"} => held[t] = {}

(* A response is returned whole or not at all: a transfer that breaks off   *)
(* or times out halfway never looks like an answer to the callers, which    *)
(* search it for the verdict.                                               *)
WholeOrNothing ==
  \A t \in Thread : pc[t] = "over" => result[t] \in {Thrown, body[t]}

(* Every client is destroyed in the end, whatever the server does: no push  *)
(* and no check waits forever.                                              *)
EveryCallEnds == \A t \in Thread : pc[t] # "outside" ~> pc[t] = "outside"
=============================================================================
