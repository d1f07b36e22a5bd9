----------------------------- MODULE BlockAuthor -----------------------------
(***************************************************************************)
(* The block author pallet, src/runtime/src/block_author.rs: the key that  *)
(* claims the reward of the block being built.                             *)
(***************************************************************************)

VARIABLE
    author  \* Author: Option<Public> as the set of no or one key

\* The origins of a call: unsigned (an inherent), signed, sudo.
Origin == {"none", "signed", "root"}

BlockAuthorInit == author = {}

\* Mutant: the author of the last block stays.
KeepAuthor == author' = author

BlockAuthorOnInitialize == author' = {}

\* The inherent, when it succeeds; a call that fails changes nothing.
set_author(origin, key) ==
    /\ origin = "none"
    /\ author = {}
    /\ author' = {key}

-----------------------------------------------------------------------------
\* Inherent data: what a proposer says under each label, here author__ alone.
provide_inherent_data(key) == [author__ |-> key]

\* Mutant: no call is made of the data.
create_no_inherent(data) == {}

\* The keys of the set_author calls that a block starts with: one if the data
\* holds the label, none if not.
create_inherent(data) == {data[label] : label \in DOMAIN data \cap {"author__"}}

=============================================================================
