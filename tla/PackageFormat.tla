---------------------------- MODULE PackageFormat --------------------------
(***************************************************************************)
(* What a character package is written in, and who checks it: the base64 of   *)
(* its chunks, the names of its files, and its manifest, which                *)
(* src/app/src/core/BuddyProtocol.cpp validates before it activates the         *)
(* package, and src/app/src/storage/buddy_character_runtime.c parses anew       *)
(* before it shows a file.  A definition marked FAULT is a plausible bug of the  *)
(* one that follows it.                                                       *)
(***************************************************************************)
EXTENDS CharacterFiles, Integers, Sequences

CONSTANTS Paths,          \* the names that commands and manifests may hold
          Shape,          \* the shape of each name
          kCharacterPathLength, BUDDY_CHARACTER_FILE_LEN,
          kCharacterManifestLength, BUDDY_CHARACTER_MANIFEST_MAX

-----------------------------------------------------------------------------
(* Base64.  A text is a sequence of the values 0 to 63, of Pad, and of Other    *)
(* for every character that is none of the 65.                                *)

Pad == 64
Other == 65
Rejected == <<-1>>

\* base64_value, negative for Pad and Other.
Base64Value(c) == IF c < 64 THEN c ELSE -1

Blocks(text) == 0 .. Len(text) \div 4 - 1

\* v0 to v3 of a block, 0 where there is padding.
Symbol(text, block, i) == text[4 * block + i + 1]
V(text, block, i) == LET c == Symbol(text, block, i) IN IF c = Pad THEN 0 ELSE Base64Value(c)

\* Padding is one or two Pad at the end of the last block; anything else that is
\* not a value is refused.
BlockIsGood(text, block) ==
  LET c(i) == Symbol(text, block, i)
      last == 4 * block + 4 = Len(text)
  IN /\ Pad \notin {c(0), c(1)}
     /\ last \/ Pad \notin {c(2), c(3)}
     /\ c(2) = Pad => c(3) = Pad
     /\ \A i \in 0 .. 3 : c(i) = Pad \/ Base64Value(c(i)) >= 0

OutCount(text, block) ==
  IF Symbol(text, block, 2) = Pad THEN 1
  ELSE IF Symbol(text, block, 3) = Pad THEN 2 ELSE 3

\* FAULT: two bits of the second symbol are lost.
OutBytesOfTwo(text, block) ==
  << (V(text, block, 0) * 4 + V(text, block, 1) \div 16) % 256,
     (V(text, block, 1) % 4) * 16 + V(text, block, 2) \div 4,
     (V(text, block, 2) % 4) * 64 + V(text, block, 3) >>

OutBytes(text, block) ==
  << (V(text, block, 0) * 4 + V(text, block, 1) \div 16) % 256,
     (V(text, block, 1) % 16) * 16 + V(text, block, 2) \div 4,
     (V(text, block, 2) % 4) * 64 + V(text, block, 3) >>

\* All blocks but the last give three bytes.
Decoded(text) ==
  LET blocks == Len(text) \div 4
      count == 3 * (blocks - 1) + OutCount(text, blocks - 1)
  IN [k \in 1 .. count |-> OutBytes(text, (k - 1) \div 3)[((k - 1) % 3) + 1]]

\* decode_base64.  That the result fits is checked with the sizes.
DecodeBase64(text) ==
  IF Len(text) = 0 THEN << >>
  ELSE IF Len(text) % 4 # 0 \/ \E block \in Blocks(text) : ~BlockIsGood(text, block)
  THEN Rejected
  ELSE Decoded(text)

\* What a desktop makes of its bytes (RFC 4648).  The last block is filled up with
\* zeros there; with another octet, what comes before the padding has stray bits,
\* which the decoder does not look at.
Octet(bytes, fill, k) == IF k \in DOMAIN bytes THEN bytes[k] ELSE fill

EncodedBlock(bytes, fill, block) ==
  LET x == Octet(bytes, fill, 3 * block + 1)
      y == Octet(bytes, fill, 3 * block + 2)
      z == Octet(bytes, fill, 3 * block + 3)
  IN << x \div 4,
        (x % 4) * 16 + y \div 16,
        IF 3 * block + 2 <= Len(bytes) THEN (y % 16) * 4 + z \div 64 ELSE Pad,
        IF 3 * block + 3 <= Len(bytes) THEN z % 64 ELSE Pad >>

Encode(bytes, fill) ==
  [i \in 1 .. 4 * ((Len(bytes) + 2) \div 3) |->
     EncodedBlock(bytes, fill, (i - 1) \div 4)[((i - 1) % 4) + 1]]

\* The form of an encoding: whole blocks, and padding only in the last two places.
\* Stray bits before the padding are no offence.
WellFormed(text) ==
  /\ Len(text) % 4 = 0
  /\ \A i \in 1 .. Len(text) :
       \/ text[i] < 64
       \/ text[i] = Pad /\ i >= Len(text) - 1 /\ text[Len(text)] = Pad

-----------------------------------------------------------------------------
(* Names.  A shape is the length, the class of the first character, and the     *)
(* classes of all.                                                            *)

CharClasses == {"alnum", "dash or underscore", "dot", "slash", "other"}
Shapes == [len : Nat, first : CharClasses, all : SUBSET CharClasses]

\* is_valid_character_path and buddy_runtime_valid_file, up to their limits.
ValidName(name, limit) ==
  /\ Shape[name].len \in 1 .. limit - 1
  /\ Shape[name].first # "dot"
  /\ Shape[name].all \subseteq {"alnum", "dash or underscore", "dot"}

IsValidCharacterPath(name) == ValidName(name, kCharacterPathLength)
RuntimeValidFile(name) == ValidName(name, BUDDY_CHARACTER_FILE_LEN)

ASSUME PathsAssumption ==
  /\ Shape \in [Paths -> Shapes]
  /\ Files = {name \in Paths : IsValidCharacterPath(name)}

\* The protocol and the display have limits of their own.  What the display keeps
\* of a name, and reads of a manifest, is at least what the protocol takes.
ASSUME LimitsAssumption ==
  /\ kCharacterPathLength \in Nat /\ BUDDY_CHARACTER_FILE_LEN \in Nat
  /\ kCharacterPathLength <= BUDDY_CHARACTER_FILE_LEN
  /\ kCharacterManifestLength \in Nat /\ BUDDY_CHARACTER_MANIFEST_MAX \in Nat
  /\ kCharacterManifestLength <= BUDDY_CHARACTER_MANIFEST_MAX + 1

-----------------------------------------------------------------------------
(* Manifests.  One that is a JSON object is a function from the states to the   *)
(* values found for them, under "states" or, if that is no object, beside it.   *)
(* A package is a function from Files to sizes, NotThere for the others.         *)

NotThere == -1
NotAString == "not a string"
NotAnObject == << >>
NoValue == [kind |-> "none", files |-> << >>]
OneFile(f) == [kind |-> "string", files |-> <<f>>]
FileList(fs) == [kind |-> "array", files |-> fs]

kCharacterStates == {"sleep", "idle", "busy", "attention", "celebrate", "dizzy", "heart"}
s_state_names == kCharacterStates

ManifestValues ==
  [kind : {"none", "string", "array"}, files : Seq(Paths \cup {NotAString})]

Elements(list) == {list[i] : i \in DOMAIN list}

Has(package, f) == f \in Paths /\ f \in DOMAIN package /\ package[f] # NotThere

\* FAULT: an empty list of files passes.
ValidateStateOrEmpty(package, value) ==
  /\ value.kind \in {"string", "array"}
  /\ \A f \in Elements(value.files) :
       f \in Paths /\ IsValidCharacterPath(f) /\ Has(package, f)

\* validate_manifest_state.
ValidateManifestState(package, value) ==
  /\ value.kind \in {"string", "array"}
  /\ value.files # << >>
  /\ \A f \in Elements(value.files) :
       f \in Paths /\ IsValidCharacterPath(f) /\ Has(package, f)

\* buddy_character_store_read_file: it needs room for a terminator.
ReadFile(package) ==
  Has(package, Manifest) /\ package[Manifest] + 1 <= kCharacterManifestLength

ValidateCharacterManifest(package, manifest) ==
  /\ package[Manifest] > 0
  /\ manifest # NotAnObject
  /\ \A s \in kCharacterStates : ValidateManifestState(package, manifest[s])

BUDDY_CHARACTER_STATE_VARIANTS == 4

\* buddy_runtime_read_manifest; its buffer is one longer than the limit.
RuntimeReadManifest(package) ==
  /\ Has(package, Manifest)
  /\ package[Manifest] > 0
  /\ package[Manifest] <= BUDDY_CHARACTER_MANIFEST_MAX

\* buddy_runtime_parse_state: all files are looked at, the first four are kept.
RuntimeParses(package, value) ==
  /\ value.kind \in {"string", "array"}
  /\ value.files # << >>
  /\ \A f \in Elements(value.files) :
       f \in Paths /\ RuntimeValidFile(f) /\ Has(package, f)

Variants(value) ==
  IF Len(value.files) <= BUDDY_CHARACTER_STATE_VARIANTS THEN value.files
  ELSE SubSeq(value.files, 1, BUDDY_CHARACTER_STATE_VARIANTS)

\* buddy_runtime_load_active.
RuntimeLoads(package, manifest) ==
  /\ RuntimeReadManifest(package)
  /\ manifest # NotAnObject
  /\ \A s \in s_state_names : RuntimeParses(package, manifest[s])

\* buddy_character_runtime_get_lvgl_path: only the idle state takes turns.
LvglPath(manifest, s, turn) ==
  LET files == Variants(manifest[s])
  IN IF s = "idle" /\ Len(files) > 1 THEN files[(turn % Len(files)) + 1] ELSE files[1]
=============================================================================
