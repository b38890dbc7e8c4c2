------------------------------ MODULE Tarball -------------------------------
(***************************************************************************)
(* list_files and extract, which LinearEncoder and SpaceFillingEncoder     *)
(* have in two identical copies: what the encoders see of an image's       *)
(* tarball.                                                                *)
(*                                                                         *)
(* A tarball is the sequence of its entries [name, regular, bytes].        *)
(* Abstracted: names are values; Metadata are those with "json",           *)
(* "manifest", "repositories" or "version" in them, whatever the case.     *)
(***************************************************************************)
EXTENDS Integers, Sequences, FiniteSetsExt

CONSTANT Metadata

NoBytes == ""

\* The names of the regular files that are not metadata, in their order.
ListFiles(tarball) ==
  LET listed[k \in 0 .. Len(tarball)] ==
        IF k = 0 THEN <<>>
        ELSE IF tarball[k].regular /\ tarball[k].name \notin Metadata
             THEN Append(listed[k - 1], tarball[k].name)
        ELSE listed[k - 1]
  IN  listed[Len(tarball)]

\* The bytes of the first entry with that name, regular or not.
Extract(tarball, name) ==
  LET at == {k \in DOMAIN tarball : tarball[k].name = name}
  IN  IF at = {} THEN NoBytes ELSE tarball[Min(at)].bytes
=============================================================================
