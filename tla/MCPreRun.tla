------------------------------ MODULE MCPreRun ------------------------------
(* Small instances of PreRun. *)
EXTENDS PreRun

CONSTANTS first, second

MCImage == {"web", "db"}
MCFlag == {"-p", "-p=80", "-t", "-H"}
MCAssigned == {"-p=80"}
MCTakesValue == {"-p", "-t"}
MCRunTakesValue == {"-p"}
MCGlobalTakesValue == {"-H"}
MCGroup == {"container"}
MCWord == MCFlag \cup MCGroup \cup {"run", "exec", "80 db", "web", "db", "80", "pull"}
MCParts == [w \in MCWord |-> IF w = "80 db" THEN <<"80", "db">> ELSE <<w>>]

\* What `save` writes: web has an entry that is no regular file and one that is not
\* listed, db a first file without bytes, and both have a "top".
MCFile(name, bytes) == [name |-> name, regular |-> TRUE, bytes |-> bytes]
MCMetadata == {"manifest.json"}
MCContents ==
  [m \in MCImage |->
     IF m = "web"
     THEN <<[name |-> "blobs", regular |-> FALSE, bytes |-> NoBytes],
            MCFile("manifest.json", "web manifest"), MCFile("top", "web layer")>>
     ELSE <<MCFile("base", NoBytes), MCFile("top", "db layer")>>]
MCTarPath == [m \in MCWord |-> "tar"]

\* For one invocation, lines that are read alike by the runtime, and one that is
\* forwarded; for the other a pull.
MCInv == {first, second}
MCOption == {<<"-p", "run">>, <<"-p=80">>}
MCRuns == {before \o <<"run">> \o options \o <<"web">> :
             before \in {<<>>, <<"container">>, <<"-H", "web">>},
             options \in {<<>>} \cup MCOption \cup {p \o q : p, q \in MCOption}}
MCLines == [i \in MCInv |->
              IF i = first
              THEN MCRuns \cup {<<"run">>, <<"run", "-t", "web">>, <<"exec", "web", "run">>}
              ELSE {<<"pull", "-p=80", "db">>}]

\* Lines that are not read alike.
MCOddLines == [i \in MCInv |-> {<<"run", "-t", "web">>, <<"run", "-p", "80 db", "web">>,
                                <<"-H", "run", "run", "web">>}]
=============================================================================
