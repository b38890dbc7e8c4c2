------------------------------- MODULE PreRun -------------------------------
(***************************************************************************)
(* The pre-run phase: main (cli.cpp) from the command line to the fork of  *)
(* the container, for several invocations that share a working directory   *)
(* and /tmp.                                                               *)
(*                                                                         *)
(* An invocation finds the image argument, has the runtime pull it if it   *)
(* is missing and save it as a tarball, encodes every file of the tarball  *)
(* twice (LinearEncoder, SpaceFillingEncoder) as linear_<i>.ppm and        *)
(* hilbert_<i>.ppm in ./out/images, and has the inference API classify the *)
(* first picture it finds there.  The directory is never emptied, a file   *)
(* without bytes gets no picture, and two images whose names differ in '/' *)
(* and ':' only have one tarball path.                                     *)
(*                                                                         *)
(* A picture is written block by block, each writer at an offset of its    *)
(* own, into a file that opening it has truncated; no encoder looks at the *)
(* state of its stream.                                                    *)
(*                                                                         *)
(* Abstracted: a block of a picture is named after the bytes the picture   *)
(* is made from; the pre-run log push changes nothing the phase looks at.  *)
(***************************************************************************)
EXTENDS ImageArg, Tarball, Verdicts

CONSTANTS
  Inv,         \* invocations of the program
  Lines,       \* the command lines each of them may be given
  Image,       \* the images the registry has
  Contents,    \* image -> what the runtime saves of it
  TarPath,     \* image argument, which any word may be -> the tarball's path
  ScanLimit,   \* the pictures of a kind tryRemotePredict looks for: 102
  Blocks,      \* the writes a stream makes of a picture: ofstream's buffer is smaller
  MaxFailures  \* bound on the pictures that fail to be opened or written

ASSUME PreRunAssumption ==
  /\ NoImage \notin DOMAIN TarPath
  /\ \A i \in Inv : \A line \in Lines[i] :
       /\ line \in Seq(DOMAIN TarPath) /\ line # <<>>
       /\ \A k \in DOMAIN line : Parts[line[k]] \in Seq(DOMAIN TarPath)
  /\ \A image \in Image : Contents[image] \in Seq([name : STRING, regular : BOOLEAN,
                                                   bytes : STRING])
  /\ ScanLimit \in Nat /\ Blocks \in Nat \ {0} /\ MaxFailures \in Nat

VARIABLES
  out,         \* whether ./out exists: mkdir makes ./out/images only
  local,       \* images the runtime has
  tar,         \* path -> the image saved there, or NoImage
  ppm,         \* <<kind, index>> -> the blocks of the picture in ./out/images
  pc,          \* per invocation: the next step
  sub, image,  \* per invocation: the subcommand, and what findImageArg found
  work,        \* per invocation: the build_image call in progress
  picture,     \* per invocation: the picture that was classified
  verdict,
  answer,      \* history: what the API said of it
  spoilt,      \* history: <<invocation, picture>> that could not be opened or written
  target,      \* history: the image the runtime will start, and whether
  agreed,      \*   both parsers agree on the flags and the words
  overlapped,  \* history: whether another invocation was active meanwhile
  consent      \* history: whether the user answered the prompt with y

fileVars    == <<ppm, spoilt>>
sharedVars  == <<out, local, tar, fileVars>>
argVars     == <<sub, image, target, agreed>>
resultVars  == <<picture, verdict, answer, consent>>
vars == <<sharedVars, argVars, resultVars, pc, work, overlapped>>

-----------------------------------------------------------------------------
Kinds == {"linear", "hilbert"}
NoPicture == <<>>
Gap == NoBytes   \* a block that was never written reads as zeros
PictureOf(bytes) == [k \in 1 .. Blocks |-> bytes]

Files == [m \in Image |-> ListFiles(Contents[m])]
FileBytes(m, n) == Extract(Contents[m], Files[m][n])

Indexes == UNION {DOMAIN Files[m] : m \in Image}
Bytes == UNION {{Contents[m][k].bytes : k \in DOMAIN Contents[m]} : m \in Image}

Idle == [kind |-> "linear", owner |-> NoImage, next |-> 1, block |-> 1, bytes |-> NoBytes]

Init ==
  /\ out \in BOOLEAN
  /\ local = {}
  /\ tar = [path \in {TarPath[m] : m \in DOMAIN TarPath} |-> NoImage]
  /\ ppm = <<>> /\ spoilt = {}
  /\ pc = [i \in Inv |-> "idle"]
  /\ sub = [i \in Inv |-> ""]
  /\ image = [i \in Inv |-> NoImage]
  /\ work = [i \in Inv |-> Idle]
  /\ picture = [i \in Inv |-> NoPicture]
  /\ verdict = [i \in Inv |-> ""]
  /\ answer = [i \in Inv |-> NoAnswer]
  /\ target = [i \in Inv |-> NoImage]
  /\ agreed = [i \in Inv |-> TRUE]
  /\ overlapped = [i \in Inv |-> FALSE]
  /\ consent = [i \in Inv |-> FALSE]

Ended == {"running", "forwarded", "aborted", "stopped", "unsupported"}
Active == {i \in Inv : pc[i] \notin {"idle"} \cup Ended}

Goto(i, label) == pc' = [pc EXCEPT ![i] = label]

-----------------------------------------------------------------------------
\* get_runtime found neither podman nor docker on the path of this invocation.
NoRuntime(i) ==
  /\ pc[i] = "idle"
  /\ Goto(i, "unsupported")
  /\ UNCHANGED <<sharedVars, argVars, resultVars, work, overlapped>>

\* main up to findImageArg: only run and pull with an image are analysed.
ImageOf(line) ==
  IF Subcommand(line) \in {"run", "pull"} THEN FindImageArg(line) ELSE NoImage

Launch(i, line) ==
  /\ pc[i] = "idle"
  /\ sub' = [sub EXCEPT ![i] = Subcommand(line)]
  /\ image' = [image EXCEPT ![i] = ImageOf(line)]
  /\ target' = [target EXCEPT ![i] = RuntimeImage(ShellLine(line))]
  /\ agreed' = [agreed EXCEPT ![i] = Agreed(line)]
  /\ Goto(i, IF ImageOf(line) # NoImage THEN "inspect" ELSE "forward")
  /\ overlapped' = [j \in Inv |-> overlapped[j] \/ (Active # {} /\ j \in Active \cup {i})]
  /\ UNCHANGED <<sharedVars, resultVars, work>>

\* image inspect, and pull if it is missing; the outcome is not looked at.
EnsureLocal(i) ==
  /\ pc[i] = "inspect"
  /\ \/ UNCHANGED local
     \/ image[i] \in Image /\ local' = local \cup {image[i]}
  /\ Goto(i, "unlink")
  /\ UNCHANGED <<out, tar, fileVars, argVars, resultVars, work, overlapped>>

\* saveImageAsTarball: unlink, then the runtime's save.
Unlink(i) ==
  /\ pc[i] = "unlink"
  /\ tar' = [tar EXCEPT ![TarPath[image[i]]] = NoImage]
  /\ Goto(i, "save")
  /\ UNCHANGED <<out, local, fileVars, argVars, resultVars, work, overlapped>>

\* The save may fail, and podman's does if the file has come back meanwhile.
Save(i) ==
  /\ pc[i] = "save"
  /\ \/ image[i] \in local /\ tar' = [tar EXCEPT ![TarPath[image[i]]] = image[i]]
     \/ UNCHANGED tar
  /\ Goto(i, "list")
  /\ UNCHANGED <<out, local, fileVars, argVars, resultVars, work, overlapped>>

-----------------------------------------------------------------------------
\* build_image, once per encoder.  list_files: a tarball that cannot be read has
\* no files.
List(i) ==
  /\ pc[i] = "list"
  /\ work' = [work EXCEPT ![i].owner = tar[TarPath[image[i]]], ![i].next = 1]
  /\ Goto(i, "encode")
  /\ UNCHANGED <<sharedVars, argVars, resultVars, overlapped>>

FilesLeft(i) == work[i].owner # NoImage /\ work[i].next <= Len(Files[work[i].owner])

\* extract() looks for the listed name in the tarball that is there by now.
Extracted(i) ==
  LET there == tar[TarPath[image[i]]]
  IN  IF there = NoImage THEN NoBytes
      ELSE Extract(Contents[there], Files[work[i].owner][work[i].next])

Slot(i) == <<work[i].kind, work[i].next>>

\* The loops go on with the next file.
NextFile(i) == work' = [work EXCEPT ![i].next = @ + 1, ![i].block = 1, ![i].bytes = NoBytes]

Truncated(slot) == [s \in DOMAIN ppm \cup {slot} |-> IF s = slot THEN <<>> ELSE ppm[s]]

\* (Mutant: its picture is opened all the same.)
SkipFileOpened(i) ==
  /\ pc[i] = "encode" /\ FilesLeft(i) /\ Extracted(i) = NoBytes
  /\ ppm' = IF out THEN Truncated(Slot(i)) ELSE ppm
  /\ NextFile(i)
  /\ UNCHANGED <<out, local, tar, spoilt, pc, argVars, resultVars, overlapped>>

SkipFile(i) ==
  /\ pc[i] = "encode" /\ FilesLeft(i) /\ Extracted(i) = NoBytes
  /\ NextFile(i)
  /\ UNCHANGED <<sharedVars, pc, argVars, resultVars, overlapped>>

\* The picture's file is opened, which truncates it; there is no file without ./out.
OpenPicture(i) ==
  /\ pc[i] = "encode" /\ FilesLeft(i) /\ Extracted(i) # NoBytes
  /\ out
  /\ ppm' = Truncated(Slot(i))
  /\ work' = [work EXCEPT ![i].bytes = Extracted(i)]
  /\ Goto(i, "write")
  /\ UNCHANGED <<out, local, tar, spoilt, argVars, resultVars, overlapped>>

\* Nobody asks whether it could be opened: what is written goes nowhere.
MayFail == Cardinality(spoilt) < MaxFailures
Spoil(i) == spoilt' = spoilt \cup {<<i, Slot(i)>>}

OpenFails(i) ==
  /\ pc[i] = "encode" /\ FilesLeft(i) /\ Extracted(i) # NoBytes
  /\ ~out \/ MayFail
  /\ Spoil(i)
  /\ NextFile(i)
  /\ UNCHANGED <<out, local, tar, ppm, pc, argVars, resultVars, overlapped>>

\* A block at its place in the file, whatever others have written or truncated.
Written(old, at, bytes) ==
  [k \in 1 .. (IF at > Len(old) THEN at ELSE Len(old)) |->
     IF k = at THEN bytes ELSE IF k <= Len(old) THEN old[k] ELSE Gap]

WriteBlock(i) ==
  /\ pc[i] = "write"
  /\ ppm' = [ppm EXCEPT ![Slot(i)] = Written(@, work[i].block, work[i].bytes)]
  /\ IF work[i].block < Blocks
     THEN work' = [work EXCEPT ![i].block = @ + 1] /\ UNCHANGED pc
     ELSE NextFile(i) /\ Goto(i, "encode")
  /\ UNCHANGED <<out, local, tar, spoilt, argVars, resultVars, overlapped>>

\* A stream that has failed once writes nothing more.
WriteFails(i) ==
  /\ pc[i] = "write"
  /\ MayFail
  /\ Spoil(i)
  /\ NextFile(i)
  /\ Goto(i, "encode")
  /\ UNCHANGED <<out, local, tar, ppm, argVars, resultVars, overlapped>>

\* The second encoder follows the first.
NextEncoder(i) ==
  /\ pc[i] = "encode" /\ ~FilesLeft(i)
  /\ IF work[i].kind = "linear"
     THEN work' = [work EXCEPT ![i].kind = "hilbert"] /\ Goto(i, "list")
     ELSE work' = [work EXCEPT ![i] = Idle] /\ Goto(i, "predict")
  /\ UNCHANGED <<sharedVars, argVars, resultVars, overlapped>>

-----------------------------------------------------------------------------
Slots(kind) == {n \in Indexes : n <= ScanLimit /\ <<kind, n>> \in DOMAIN ppm}

\* The first Hilbert picture there is, else the first linear one.
\* (Mutant: the last one.)
LastPicture ==
  IF Slots("hilbert") # {} THEN ppm[<<"hilbert", Max(Slots("hilbert"))>>]
  ELSE IF Slots("linear") # {} THEN ppm[<<"linear", Max(Slots("linear"))>>]
  ELSE NoPicture

FirstPicture ==
  IF Slots("hilbert") # {} THEN ppm[<<"hilbert", Min(Slots("hilbert"))>>]
  ELSE IF Slots("linear") # {} THEN ppm[<<"linear", Min(Slots("linear"))>>]
  ELSE NoPicture

\* What the server can decode: a header, and as many pixels as that says.
Decodable == {p \in [1 .. Blocks -> Bytes \cup {Gap}] : p[1] # Gap}

\* What may become of tryRemotePredict's request: none is made without a picture or
\* with an empty one.
\* (Mutant: the server fills up what is missing of a picture.)
RepliesLenient == IF FirstPicture = NoPicture THEN {NoAnswer} ELSE CnnAnswers

Replies == IF FirstPicture = NoPicture THEN {NoAnswer}
           ELSE IF FirstPicture \in Decodable THEN CnnAnswers
           ELSE Refusals \cup {NoAnswer}

\* Without a usable answer the verdict is "clean".
Predict(i, reply) ==
  /\ pc[i] = "predict"
  /\ answer' = [answer EXCEPT ![i] = reply]
  /\ picture' = [picture EXCEPT ![i] = IF Readable(reply) THEN FirstPicture ELSE @]
  /\ verdict' = [verdict EXCEPT ![i] = IF CnnOutcome(reply) = "failed" THEN "clean"
                                       ELSE CnnOutcome(reply)]
  /\ Goto(i, IF CnnOutcome(reply) = "malicious" THEN "prompt" ELSE "proceed")
  /\ UNCHANGED <<sharedVars, argVars, work, overlapped, consent>>

\* "proceed anyway? [y/N]".
\* (Mutant: any answer will do.)
PromptIgnored(i, yes) ==
  /\ pc[i] = "prompt"
  /\ consent' = [consent EXCEPT ![i] = yes]
  /\ Goto(i, "proceed")
  /\ UNCHANGED <<sharedVars, argVars, picture, verdict, answer, work, overlapped>>

Prompt(i, yes) ==
  /\ pc[i] = "prompt"
  /\ consent' = [consent EXCEPT ![i] = yes]
  /\ Goto(i, IF yes THEN "proceed" ELSE "aborted")
  /\ UNCHANGED <<sharedVars, argVars, picture, verdict, answer, work, overlapped>>

\* The runtime is given the command line, and may pull the image it names.
RuntimeStarts(i) == \/ UNCHANGED local
                    \/ target[i] \in Image /\ local' = local \cup {target[i]}

\* run: the container is forked and Monitor takes over.
Fork(i) ==
  /\ pc[i] = "proceed" /\ sub[i] = "run"
  /\ RuntimeStarts(i)
  /\ Goto(i, "running")
  /\ UNCHANGED <<out, tar, fileVars, argVars, resultVars, work, overlapped>>

\* Everything else is forwarded: a pull, or a run whose image was not found.
Forward(i) ==
  /\ pc[i] = "forward" \/ (pc[i] = "proceed" /\ sub[i] # "run")
  /\ RuntimeStarts(i)
  /\ Goto(i, "forwarded")
  /\ UNCHANGED <<out, tar, fileVars, argVars, resultVars, work, overlapped>>

\* An exception, which main turns into exit code 1, or an interrupt.
Stops(i) ==
  /\ i \in Active
  /\ Goto(i, "stopped")
  /\ UNCHANGED <<sharedVars, argVars, resultVars, work, overlapped>>

Step(i) ==
  \/ NoRuntime(i) \/ \E line \in Lines[i] : Launch(i, line)
  \/ EnsureLocal(i) \/ Unlink(i) \/ Save(i)
  \/ List(i) \/ SkipFile(i) \/ OpenPicture(i) \/ OpenFails(i)
  \/ WriteBlock(i) \/ WriteFails(i) \/ NextEncoder(i)
  \/ \E reply \in Replies : Predict(i, reply)
  \/ \E yes \in BOOLEAN : Prompt(i, yes)
  \/ Fork(i) \/ Forward(i) \/ Stops(i)

Next == \E i \in Inv : Step(i)

Spec == Init /\ [][Next]_vars

-----------------------------------------------------------------------------
TypeOK ==
  /\ out \in BOOLEAN
  /\ local \subseteq Image
  /\ tar \in [DOMAIN tar -> Image \cup {NoImage}]
  /\ DOMAIN ppm \subseteq Kinds \X Indexes
  /\ \A slot \in DOMAIN ppm : ppm[slot] \in Seq(Bytes \cup {Gap}) /\ Len(ppm[slot]) <= Blocks
  /\ spoilt \subseteq Inv \X (Kinds \X Indexes)
  /\ pc \in [Inv -> {"idle", "inspect", "unlink", "save", "list", "encode", "write",
                     "predict", "prompt", "proceed", "forward"} \cup Ended]
  /\ sub \in [Inv -> Subcommands \cup {""}]
  /\ image \in [Inv -> DOMAIN TarPath \cup {NoImage}]
  /\ work \in [Inv -> [kind : Kinds, owner : Image \cup {NoImage}, next : Nat,
                       block : 1 .. Blocks, bytes : Bytes \cup {NoBytes}]]
  /\ picture \in [Inv -> Decodable \cup {NoPicture}]
  /\ verdict \in [Inv -> {"", "clean", "malicious"}]
  /\ \A i \in Inv : answer[i] \in CnnAnswers
  /\ target \in [Inv -> DOMAIN TarPath \cup {NoImage}]
  /\ agreed \in [Inv -> BOOLEAN]
  /\ overlapped \in [Inv -> BOOLEAN] /\ consent \in [Inv -> BOOLEAN]

(* findImageArg finds the image the runtime will use, whatever the order of *)
(* flags, their values, the image and the container's command, and whatever *)
(* stands before the subcommand, as long as both sides mean the same words  *)
(* by subcommand, flags with a value and words.                             *)
ImageFound == \A i \in Inv : agreed[i] => image[i] = target[i]

(* An invocation that met no other, whose image could be saved and has a    *)
(* first file with bytes whose picture could be written, is judged by that  *)
(* file: leftovers of earlier images, interrupted ones included, are        *)
(* overwritten before they are found.                                       *)
OwnPicture ==
  \A i \in Inv :
    /\ pc[i] \in {"prompt", "proceed"} /\ picture[i] # NoPicture
    /\ ~overlapped[i]
    /\ <<i, <<"hilbert", 1>>>> \notin spoilt
    /\ tar[TarPath[image[i]]] = image[i]
    /\ Files[image[i]] # <<>> /\ FileBytes(image[i], 1) # NoBytes /\ ScanLimit > 0
    => picture[i] = PictureOf(FileBytes(image[i], 1))

(* On a line that both sides read alike, what the runtime is made to run,   *)
(* or to pull after the pull that the analysis itself may need, is the very *)
(* image that was judged; and after "malicious" it is so only if the user   *)
(* has answered the prompt with y.  (README has it BLOCKED instead, see     *)
(* MaliciousBlocked.)                                                       *)
RunsOnlyJudged ==
  \A i \in Inv :
    pc[i] \in {"running", "forwarded"} /\ agreed[i] /\ target[i] # NoImage =>
      /\ image[i] = target[i]
      /\ verdict[i] = "clean" \/ (verdict[i] = "malicious" /\ consent[i])

(* An image the API has accused, in an answer the client can read, waits    *)
(* for the user, was refused, or goes on with consent, and the user is      *)
(* asked about no other: from the server's argmax and softmax through the   *)
(* client's search in the answer's text.  What becomes of the answers that  *)
(* cannot be read shows in MaliciousBlocked.                                *)
AccusedNeedConsent ==
  \A i \in Inv :
    /\ Readable(answer[i]) /\ Accused(answer[i]) =>
         pc[i] \in {"prompt", "aborted", "stopped"} \/ consent[i]
    /\ pc[i] = "prompt" \/ consent[i] => Accused(answer[i])

(* A block that a picture lacks, at its end or in the middle, is one that   *)
(* some invocation has yet to write, or would have if it had not been       *)
(* interrupted, or could not.  Two that write one picture truncate what the *)
(* other has written and may leave a mix of their blocks, but whatever the  *)
(* order, they do not leave a picture that lacks one.                       *)
Lacks(slot) == {k \in 1 .. Blocks : k > Len(ppm[slot]) \/ ppm[slot][k] = Gap}

LackHasWriter ==
  \A slot \in DOMAIN ppm : \A k \in Lacks(slot) :
    \E i \in Inv :
      \/ <<i, slot>> \in spoilt
      \/ work[i].bytes # NoBytes /\ Slot(i) = slot /\ work[i].block <= k

(* The phase implements the gate that Gate describes, whatever happens to   *)
(* pictures and tarballs and whatever other invocations do: one judgement,  *)
(* one answer of the user if it is an accusation, and no exemption for a    *)
(* line that names an image and is read alike by both sides.                *)
GateAt(label) ==
  CASE label = "idle" -> "outside"
    [] label = "forward" -> "exempt"
    [] label = "prompt" -> "asking"
    [] label = "proceed" -> "passed"
    [] label \in {"running", "forwarded"} -> "open"
    [] label \in {"aborted", "stopped", "unsupported"} -> "refused"
    [] OTHER -> "closed"

Abstract == INSTANCE Gate WITH
  gate    <- [i \in Inv |-> GateAt(pc[i])],
  owed    <- [i \in Inv |-> agreed[i] /\ target[i] # NoImage],
  accused <- [i \in Inv |-> Readable(answer[i]) /\ Accused(answer[i])],
  granted <- consent

GateSpec == Abstract!Spec

(* README: "Container image layers are extracted, encoded ... and           *)
(* classified": a picture that was classified is one of the image's own,    *)
(* at least when no other invocation was active.                            *)
VerdictOfImage ==
  \A i \in Inv :
    picture[i] # NoPicture /\ ~overlapped[i] =>
      \E n \in DOMAIN Files[image[i]] : picture[i] = PictureOf(FileBytes(image[i], n))

(* README: "Every `run` or `pull` command triggers" the pipeline: an image  *)
(* the runtime is made to run has been through the pre-run phase.           *)
EveryRunChecked ==
  \A i \in Inv :
    pc[i] \in {"running", "forwarded"} /\ target[i] \in Image => image[i] = target[i]

(* README: "Malicious images are blocked before they ever start": an image  *)
(* that the API accuses, at or above the threshold, is not started.         *)
MaliciousBlocked ==
  \A i \in Inv : Accused(answer[i]) => pc[i] # "running"
=============================================================================
