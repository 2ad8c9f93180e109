----------------------------- MODULE MCLibrary -----------------------------
(* A small library for Library's own run: a song's lossy file and another
   song's in one folder, and a place in another; any song may come to be
   anywhere, as when an album's files are renamed.                          *)
EXTENDS Library, TLC
CONSTANTS xm, xf, ym, zm, mp3, flac, other

Folder == [p \in Paths |-> IF p = zm THEN "d2" ELSE "d1"]
Flac   == [p \in Paths |-> IF p = xm THEN xf ELSE p]
Song   == [a \in Audio |-> IF a = other THEN "T" ELSE "S"]

Renumbered == [p \in Paths |-> {"S", "T"}]
Album      == [p \in Paths |-> CASE p = xm -> mp3 [] p = ym -> other [] OTHER -> None]
=============================================================================
