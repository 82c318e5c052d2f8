------------------------ MODULE MCCharacterCommands ------------------------
(***************************************************************************)
(* Packages of up to five bytes in chunks of up to three: a chunk of four and    *)
(* a manifest of four are too long.  Names at, below and beyond the limit of      *)
(* their length; manifests in which one state may differ from the others, with    *)
(* lists that are empty, mixed, or longer than the four files that are kept.     *)
(***************************************************************************)
EXTENDS CharacterCommands

CONSTANTS longest, tooLong, hidden, nested

MCPaths == {Manifest, longest, tooLong, hidden, nested}
MCFiles == {Manifest, longest}

Plain == {"alnum", "dot"}
MCShape ==
  [name \in MCPaths |->
     CASE name = Manifest -> [len |-> 13, first |-> "alnum", all |-> Plain]
       [] name = longest -> [len |-> 63, first |-> "alnum", all |-> Plain]
       [] name = tooLong -> [len |-> 64, first |-> "alnum", all |-> Plain]
       [] name = hidden -> [len |-> 5, first |-> "dot", all |-> Plain]
       [] name = nested -> [len |-> 7, first |-> "alnum", all |-> Plain \cup {"slash"}]]

\* 10010110 and 11111111.
MCBytes == {150, 255}

\* As RFC 4648 wants it, and with every stray bit set.
MCFills == {0, 255}

\* A length that is no multiple of four; padding first, in the middle, and before
\* the last block; a character that is not of the alphabet.
MCGarbled ==
  {<<37, 40, 1>>, <<Pad, 40, 1, 2>>, <<37, Pad, 1, 2>>, <<37, 32, Pad, 2>>,
   <<37, 32, Pad, Pad, 37, 32, Pad, Pad>>, <<37, Other, 1, 2>>, <<37, 40, 1, Other>>}

Entries == MCPaths \cup {NotAString}
Values ==
  {NoValue} \cup {OneFile(f) : f \in MCPaths}
  \cup {FileList([i \in 1 .. n |-> f]) : n \in {0, 1, 5}, f \in Entries}
  \cup {FileList(<<e, f>>) : e, f \in Entries}
  \cup {FileList(<<longest, longest, longest, Manifest, f>>) : f \in Entries}

MCManifests ==
  {NotAnObject}
  \cup {[s \in kCharacterStates |-> IF s = t THEN value ELSE OneFile(f)] :
          t \in {"sleep", "idle", "heart"}, value \in Values, f \in MCFiles}
=============================================================================
