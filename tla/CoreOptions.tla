----------------------------- MODULE CoreOptions -----------------------------
(***************************************************************************)
(* libretro_set_core_options (libretro/libretro_core_options.h): how the   *)
(* core hands its options to a frontend.  A frontend of the version 1      *)
(* interface gets the table itself, with its translation if there is one;  *)
(* another one gets variables, each a text of a description and the        *)
(* values, built in memory that any of the allocations may fail to         *)
(* deliver.                                                                *)
(*                                                                         *)
(* A string is a name with a length; a text is the sequence of the strings *)
(* put together, without the separators.                                   *)
(***************************************************************************)
EXTENDS Integers, Sequences, FiniteSets, SequencesExt

CONSTANTS
  OptionDefs,    \* the table: records of description, values and default value
  Length,        \* the length of every string
  NoString       \* a null pointer

ASSUME OptionsAssumption ==
  /\ OptionDefs \in Seq([desc : DOMAIN Length \cup {NoString}, values : Seq(DOMAIN Length),
                         default_value : DOMAIN Length])
  /\ Length \in [DOMAIN Length -> Nat]
  /\ NoString \notin DOMAIN Length

VARIABLES
  at,            \* where the call is; "returned" when none is running
  next,          \* the option whose text comes next
  texts,         \* values_buf: the text of every option, or NoString
  sizes,         \* the sizes of the texts' buffers
  heap,          \* what is allocated
  handed         \* what the frontend was given last in this call

optionVars == <<at, next, texts, sizes, heap, handed>>

Option(desc, values, default) ==
  [desc |-> desc, values |-> values, default_value |-> default]

\* The core's table.
option_defs_us ==
  << Option("AV Pack", <<"standard", "rf", "scart", "hdtv", "vga", "svideo">>, "standard"),
     Option("Machine Type",
            <<"auto", "v1_0_retail", "v1_x_retail", "v1_4_retail", "v1_6_retail",
              "v1_0_debug", "v1_0_chihiro">>, "auto") >>

Options == 1 .. Len(OptionDefs)

\* The languages of libretro.h are numbered from English, 0, up to LAST, which a
\* later libretro.h may give to another one.
RETRO_LANGUAGE_ENGLISH == 0
RETRO_LANGUAGE_LAST    == 19

\* The tables by language: there is no translation yet.
option_defs_intl ==
  [language \in 0 .. RETRO_LANGUAGE_LAST - 1 |->
     IF language = RETRO_LANGUAGE_ENGLISH THEN OptionDefs ELSE NoString]

\* What an index finds: behind the array lies something else.
Stray == <<"stray">>
Intl(language) ==
  IF language \in DOMAIN option_defs_intl THEN option_defs_intl[language] ELSE Stray

Nothing == [kind |-> "nothing"]

\* Memory the call allocates.
VariablesArray == <<"variables">>
ValuesArray    == <<"values_buf">>
Buffer(i)      == <<"text", i>>

-----------------------------------------------------------------------------
Strings(text) == {text[i] : i \in DOMAIN text}

\* What strcpy and the calls of strcat write: "; " after the description, "|"
\* between the values, and the terminating zero.
Characters(text) ==
  LET sum[i \in 0 .. Len(text)] == IF i = 0 THEN 0 ELSE sum[i - 1] + Length[text[i]]
  IN  sum[Len(text)] + 2 + (Len(text) - 2) + 1

\* The index of the default value; the first if it is not a value.
DefaultIndex(option) ==
  LET matching == {i \in DOMAIN option.values : option.values[i] = option.default_value}
  IN  IF matching = {} THEN 1
      ELSE CHOOSE i \in matching : \A j \in matching : j <= i

\* The default value first, then the others.
Text(option) ==
  <<option.desc, option.values[DefaultIndex(option)]>>
    \o RemoveAt(option.values, DefaultIndex(option))

\* A text is not a null pointer.
ASSUME TextAssumption ==
  \A i \in Options : OptionDefs[i].values # <<>> => Text(OptionDefs[i]) # NoString

\* Mistake: the separators are forgotten.
BufferLength_NoBars(option) ==
  LET sum[i \in 0 .. Len(option.values)] ==
        IF i = 0 THEN 3 ELSE sum[i - 1] + Length[option.values[i]]
  IN  sum[Len(option.values)] + Length[option.desc]

\* buf_len: 3, the values, a bar before each but the first, the description.
BufferLength(option) ==
  LET sum[i \in 0 .. Len(option.values)] ==
        IF i = 0 THEN 3 ELSE sum[i - 1] + Length[option.values[i]]
  IN  sum[Len(option.values)] + (Len(option.values) - 1) + Length[option.desc]

-----------------------------------------------------------------------------
OptionsInit ==
  /\ at = "returned"
  /\ next = 1
  /\ texts = [i \in Options |-> NoString]
  /\ sizes = [i \in Options |-> 0]
  /\ heap = {}
  /\ handed = Nothing

\* The call.
libretro_set_core_options ==
  /\ at = "returned"
  /\ at' = "version"
  /\ UNCHANGED <<next, texts, sizes, heap, handed>>

\* The frontend answers the version of its interface, or does not.
Version(answered, version) ==
  /\ at = "version"
  /\ at' = IF answered /\ version >= 1 THEN "language" ELSE "arrays"
  /\ UNCHANGED <<next, texts, sizes, heap, handed>>

Table(local) == [kind |-> "table", us |-> OptionDefs, local |-> local]

\* Then the language of its user, or not, and gets the table.
Language(answered, language) ==
  /\ at = "language"
  /\ handed' = Table(IF answered /\ language < RETRO_LANGUAGE_LAST
                        /\ language # RETRO_LANGUAGE_ENGLISH
                     THEN Intl(language) ELSE NoString)
  /\ at' = "returned"
  /\ UNCHANGED <<next, texts, sizes, heap>>

\* Both arrays are allocated before either is looked at.
AllocateArrays(variables, values_buf) ==
  /\ at = "arrays"
  /\ heap' = heap \cup (IF variables THEN {VariablesArray} ELSE {})
                  \cup (IF values_buf THEN {ValuesArray} ELSE {})
  /\ at' = IF variables /\ values_buf THEN "build" ELSE "error"
  /\ UNCHANGED <<next, texts, sizes, handed>>

\* Mistake: a failed allocation leaves the option out.
BuildText_Skips(allocated) ==
  /\ at = "build"
  /\ next \in Options
  /\ LET option == OptionDefs[next]
     IN  IF option.desc = NoString \/ option.values = <<>> \/ ~ allocated
         THEN UNCHANGED <<texts, sizes, heap>>
         ELSE /\ texts' = [texts EXCEPT ![next] = Text(option)]
              /\ sizes' = [sizes EXCEPT ![next] = BufferLength(option)]
              /\ heap' = heap \cup {Buffer(next)}
  /\ next' = next + 1
  /\ UNCHANGED <<at, handed>>

\* One round of the loop over the options.
BuildText(allocated) ==
  /\ at = "build"
  /\ next \in Options
  /\ LET option == OptionDefs[next]
     IN  IF option.desc = NoString \/ option.values = <<>>
         THEN next' = next + 1 /\ UNCHANGED <<at, texts, sizes, heap>>
         ELSE IF ~ allocated
         THEN at' = "error" /\ UNCHANGED <<next, texts, sizes, heap>>
         ELSE /\ texts' = [texts EXCEPT ![next] = Text(option)]
              /\ sizes' = [sizes EXCEPT ![next] = BufferLength(option)]
              /\ heap' = heap \cup {Buffer(next)}
              /\ next' = next + 1
              /\ UNCHANGED at
  /\ UNCHANGED handed

SetVariables ==
  /\ at = "build"
  /\ next \notin Options
  /\ handed' = [kind |-> "variables", texts |-> texts]
  /\ at' = "error"
  /\ UNCHANGED <<next, texts, sizes, heap>>

\* Mistake: the texts are given back only if there is an array of variables.
CleanUp_Nested ==
  /\ at = "error"
  /\ heap' = IF VariablesArray \in heap THEN {} ELSE heap
  /\ texts' = [i \in Options |-> NoString]
  /\ sizes' = [i \in Options |-> 0]
  /\ next' = 1
  /\ handed' = Nothing
  /\ at' = "returned"

\* The label error, which the successful call reaches too: the texts and the
\* arrays that were allocated.
CleanUp ==
  /\ at = "error"
  /\ heap' = heap \ ({VariablesArray}
                     \cup (IF ValuesArray \in heap
                           THEN {ValuesArray} \cup
                                {Buffer(i) : i \in {j \in Options : texts[j] # NoString}}
                           ELSE {}))
  /\ texts' = [i \in Options |-> NoString]
  /\ sizes' = [i \in Options |-> 0]
  /\ next' = 1
  /\ handed' = Nothing
  /\ at' = "returned"

OptionsNext ==
  \/ \E answered \in BOOLEAN, version \in 0 .. 2 : Version(answered, version)
  \/ \E answered \in BOOLEAN, language \in 0 .. RETRO_LANGUAGE_LAST : Language(answered, language)
  \/ \E variables, values_buf \in BOOLEAN : AllocateArrays(variables, values_buf)
  \/ \E allocated \in BOOLEAN : BuildText(allocated)
  \/ SetVariables
  \/ CleanUp

OptionsSpec ==
  OptionsInit /\ [][libretro_set_core_options \/ OptionsNext]_optionVars

-----------------------------------------------------------------------------
(* Properties.                                                             *)

\* Whatever allocation fails, the call gives everything back.
NothingKept == at = "returned" => heap = {}

\* A text fits into its buffer.
TextFits == \A i \in Options : texts[i] # NoString => Characters(texts[i]) <= sizes[i]

\* A frontend that gets the table gets no translation but one of the array; one
\* that gets variables gets all of them: each option that has values with its
\* description, its default value first and every value once.
OptionsComplete ==
  /\ handed.kind = "table" => handed.local \in {NoString, OptionDefs}
  /\ handed.kind = "variables" =>
       \A i \in Options :
         LET option == OptionDefs[i]
             text   == handed.texts[i]
         IN  option.desc # NoString /\ option.values # <<>> =>
               /\ text # NoString
               /\ text[1] = option.desc
               /\ option.default_value \in Strings(option.values) => text[2] = option.default_value
               /\ Len(text) = Len(option.values) + 1
               /\ Strings(Tail(text)) = Strings(option.values)

=============================================================================
