----------------------------- MODULE WriteOnly -----------------------------
(***************************************************************************)
(* describeWriteOnly (config/write_only.go): the generator rewrites the    *)
(* descriptions of a schema in place, in whatever order Go iterates its    *)
(* map.  A name is the sequence of its words; a description is a sequence  *)
(* of sentences, a sentence a sequence of clauses parted by em dashes, and *)
(* of a clause only its text's identity and the attributes it names count. *)
(* Attributes of nested blocks have siblings of their own and nothing in   *)
(* common with these, so one block stands for all.                         *)
(***************************************************************************)
EXTENDS Naturals, SequencesExt

CONSTANTS
    Names,        \* attribute names, sequences of words
    Descriptions  \* descriptions the upstream schema may give an attribute

Suffix == <<"wo">>
VersionSuffix == <<"wo", "version">>

VARIABLES
    attributes,  \* the names of the block
    upstream,    \* their descriptions in the upstream schema
    description, \* their descriptions now
    todo         \* the attributes the loop has not visited

vars == <<attributes, upstream, description, todo>>

CutSuffix(name, suffix) == SubSeq(name, 1, Len(name) - Len(suffix))

HasBase(name, suffix) ==
    /\ IsSuffix(suffix, name)
    /\ CutSuffix(name, suffix) # <<>>
    /\ CutSuffix(name, suffix) \in attributes

(* The attribute is the write-only form of a sibling.                      *)
WriteOnlyBase(name) == HasBase(name, Suffix)

(* The attribute counts the versions of a sibling's write-only form.       *)
WriteOnlyVersionBase(name) ==
    /\ HasBase(name, VersionSuffix)
    /\ CutSuffix(name, VersionSuffix) \o Suffix \in attributes

WriteOnlyDescription(base) == << <<[text |-> "write-only", names |-> {base}]>> >>

WriteOnlyVersionDescription(base) ==
    << <<[text |-> "counter", names |-> {base \o Suffix}]>> >>

-----------------------------------------------------------------------------
Naming(sentence, name) == \E i \in DOMAIN sentence : name \in sentence[i].names

(* Mutated form: a sentence goes with all its clauses.                     *)
KeptWhole(sentence, name) ==
    IF Naming(sentence, name) THEN <<>> ELSE <<sentence>>

(* Mutated form: the clause that is kept is not looked at.                 *)
KeptBlindly(sentence, name) ==
    IF ~Naming(sentence, name) THEN <<sentence>>
    ELSE IF Len(sentence) > 1 THEN << <<sentence[1]>> >>
    ELSE <<>>

(* What is kept of a sentence: all of it, the clause before the first em   *)
(* dash, or nothing.                                                       *)
Kept(sentence, name) ==
    IF ~Naming(sentence, name) THEN <<sentence>>
    ELSE IF Len(sentence) > 1 /\ name \notin sentence[1].names THEN << <<sentence[1]>> >>
    ELSE <<>>

WithoutSentencesNaming(text, name) ==
    FlattenSeq([i \in DOMAIN text |-> Kept(text[i], name)])

-----------------------------------------------------------------------------
Init ==
    /\ attributes \in SUBSET Names
    /\ upstream \in [attributes -> Descriptions]
    /\ description = upstream
    /\ todo = attributes

Visit(name) == name \in todo /\ todo' = todo \ {name} /\ UNCHANGED <<attributes, upstream>>

DescribeVersion(name) ==
    /\ Visit(name)
    /\ WriteOnlyVersionBase(name)
    /\ description' = [description EXCEPT
           ![name] = WriteOnlyVersionDescription(CutSuffix(name, VersionSuffix))]

(* Mutated form: the write-only attribute takes over its sibling's text.   *)
DescribeAsBase(name) ==
    /\ Visit(name)
    /\ ~WriteOnlyVersionBase(name) /\ WriteOnlyBase(name)
    /\ LET base == CutSuffix(name, Suffix) IN
       description' = [description EXCEPT
           ![name] = WriteOnlyDescription(base) \o description[base],
           ![base] = WithoutSentencesNaming(@, name)]

(* The attribute and the sibling it stands in for are rewritten together.  *)
DescribeWriteOnly(name) ==
    /\ Visit(name)
    /\ ~WriteOnlyVersionBase(name) /\ WriteOnlyBase(name)
    /\ LET base == CutSuffix(name, Suffix) IN
       description' = [description EXCEPT
           ![name] = WriteOnlyDescription(base),
           ![base] = WithoutSentencesNaming(@, name)]

Skip(name) ==
    /\ Visit(name)
    /\ ~WriteOnlyVersionBase(name) /\ ~WriteOnlyBase(name)
    /\ UNCHANGED description

Next == \E name \in Names : DescribeVersion(name) \/ DescribeWriteOnly(name) \/ Skip(name)

Spec == Init /\ [][Next]_vars

-----------------------------------------------------------------------------
Rewritten(name) == WriteOnlyVersionBase(name) \/ WriteOnlyBase(name)

(* The result is a function of the upstream schema: no order of the map's  *)
(* iteration changes it, even where an attribute is both a write-only form *)
(* and the base of another, so generating twice gives the same API.        *)
OrderIndependent ==
    todo = {} =>
        \A name \in attributes :
            description[name] =
                CASE WriteOnlyVersionBase(name) ->
                        WriteOnlyVersionDescription(CutSuffix(name, VersionSuffix))
                  [] ~WriteOnlyVersionBase(name) /\ WriteOnlyBase(name) ->
                        WriteOnlyDescription(CutSuffix(name, Suffix))
                  [] ~Rewritten(name) /\ name \o Suffix \in attributes ->
                        WithoutSentencesNaming(upstream[name], name \o Suffix)
                  [] OTHER -> upstream[name]

(* An attribute that keeps its own description loses nothing but advice:   *)
(* every sentence that does not name its write-only form is still there,   *)
(* and of one that does, the clause before the first em dash.              *)
RestIsKept ==
    \A name \in attributes : ~Rewritten(name) =>
        \A i \in DOMAIN upstream[name] :
            LET sentence == upstream[name][i]
                form == name \o Suffix
            IN  \/ sentence \in ToSet(description[name])
                \/ /\ Naming(sentence, form)
                   /\ \/ <<sentence[1]>> \in ToSet(description[name])
                      \/ Len(sentence) = 1
                      \/ form \in sentence[1].names

(* In the end no attribute sends its reader to its own write-only form.    *)
AdviceIsGone ==
    todo = {} =>
        \A name \in attributes : name \o Suffix \in attributes =>
            \A i \in DOMAIN description[name] : ~Naming(description[name][i], name \o Suffix)

=============================================================================
