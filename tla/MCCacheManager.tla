--------------------------- MODULE MCCacheManager ---------------------------
(***************************************************************************)
(* CacheManager for TLC: block ids are numbers, tokens are strings.        *)
(***************************************************************************)
EXTENDS CacheManager

(* One-token blocks: prompts that extend, share and miss each other.         *)
LookupPrompts == {<<"a", "b">>, <<"a", "b", "c">>, <<"a", "d">>, <<"e">>}

(* The same, and one beyond the GPU tier.                                    *)
AlignedPrompts == LookupPrompts \cup {<<"a", "b", "c", "f">>}

(* Two-token blocks: prompts that part inside a block, and one too short.    *)
SubBlockPrompts == {<<"a">>, <<"a", "b", "c", "d">>, <<"a", "b", "c", "e">>, <<"a", "f">>}
=============================================================================
