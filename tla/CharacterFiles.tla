--------------------------- MODULE CharacterFiles --------------------------
(* The file names that the transfer and the store of a package talk about.  *)

CONSTANTS Files,          \* the names that is_valid_character_path accepts
          Manifest,       \* "manifest.json"
          NoFile          \* no name: the empty file_path, a closed descriptor

ASSUME FilesAssumption == Manifest \in Files /\ NoFile \notin Files
=============================================================================
