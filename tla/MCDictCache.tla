---------------------------- MODULE MCDictCache ----------------------------
(* A small instance of DictCache for TLC. *)
EXTENDS DictCache, TLC

MCProbed == << "hunspell", "myspell" >>
LoaderSymmetry == Permutations(Loaders)
=============================================================================
