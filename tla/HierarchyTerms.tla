--------------------------- MODULE HierarchyTerms ---------------------------
(***************************************************************************)
(* How a name is given a thermal bucket, in the two places that do it.      *)
(*                                                                          *)
(* scripts/inspect_gemmini_hierarchy.py sorts the RTL's modules into        *)
(* buckets by keyword and writes them to configs/gemmini/hierarchy_map.yaml *)
(* (CategoryFor, WriteMap).  scripts/extract_vcd_activity.py has default    *)
(* keywords of its own, adds the map's modules to them, and gives a signal  *)
(* the first bucket with a keyword occurring in its path (Terms, Classify). *)
(*                                                                          *)
(* Words are lower-cased names.  That one word occurs in another is the     *)
(* relation Occurs: no keyword contains a dot, so a keyword occurs in a     *)
(* dotted path exactly when it occurs in one of its components.             *)
(***************************************************************************)
EXTENDS Naturals, Sequences, FiniteSetsExt

CONSTANT Occurs   \* pairs <<part, word>>: part is a substring of word

\* What is part of a part is part of the whole.
ASSUME OccursAssumption ==
    \A p \in Occurs, q \in Occurs : p[2] = q[1] => <<p[1], q[2]>> \in Occurs

Holds(word, parts) == \E p \in parts : <<p, word>> \in Occurs

-----------------------------------------------------------------------------
(* The inspector.                                                           *)

InspectorOrder ==
    <<"pe_array", "scratchpad", "accumulator", "load_store_dma", "controller", "tl_soc_glue">>

InspectorRules ==
    [pe_array       |-> {"mesh", "tile", "pe", "mac", "systolic"},
     scratchpad     |-> {"scratchpad", "spad", "sp_bank", "spadmem"},
     accumulator    |-> {"accumulator", "acc_", "accbank"},
     load_store_dma |-> {"dma", "streamreader", "streamwriter", "loadcontroller", "storecontroller"},
     controller     |-> {"controller", "cmd", "reservationstation", "scheduler", "fsm", "unroller", "rob"},
     tl_soc_glue    |-> {"tl", "tilelink", "rocc", "frontend", "memport", "ptw"}]

\* The first rule with a keyword in the module's name; Gemmini's own modules and
\* everything else have a bucket each.
CategoryFor(module) ==
    LET matching == {i \in DOMAIN InspectorOrder : Holds(module, InspectorRules[InspectorOrder[i]])}
    IN CASE matching # {} -> InspectorOrder[Min(matching)]
         [] matching = {} /\ Holds(module, {"gemmini"}) -> "gemmini_other"
         [] OTHER -> "non_gemmini_context"

Alphabetical == <<"accumulator", "controller", "gemmini_other", "load_store_dma",
                  "non_gemmini_context", "pe_array", "scratchpad", "tl_soc_glue">>

\* The hierarchy map: the modules of every bucket that got one, the buckets in
\* alphabetical order.
WriteMap(modules) ==
    LET used == {CategoryFor(m) : m \in modules}
    IN [order   |-> Alphabetical,
        modules |-> [c \in used |-> {m \in modules : CategoryFor(m) = c}]]

\* What the extractor works with when there is no map file (or no YAML library).
NoMap == [order |-> <<>>, modules |-> [c \in {} |-> {}]]
-----------------------------------------------------------------------------
(* The extractor.                                                           *)

DefaultOrder == <<"pe_array", "scratchpad", "accumulator", "load_store_dma", "controller",
                  "tl_soc_glue", "non_gemmini_context">>

DefaultTerms ==
    [pe_array            |-> {"gemmini", "mesh", "pe", "tile"},
     scratchpad          |-> {"scratchpad", "spad", "sp_bank"},
     accumulator         |-> {"accumulator", "acc_", "accumulator_mem"},
     load_store_dma      |-> {"load_controller", "store_controller", "streamreader", "streamwriter", "dma"},
     controller          |-> {"controller", "reservationstation", "cmd", "rob"},
     tl_soc_glue         |-> {"tl", "axi", "cache", "bus"},
     non_gemmini_context |-> {"rocket", "system", "debug", "jtag", "uart"}]

Defaults == DOMAIN DefaultTerms

\* Fault: a bucket the map lists takes the map's modules for its keywords.
TermsOverwritten(map, c) ==
    IF c \in DOMAIN map.modules THEN map.modules[c] ELSE DefaultTerms[c]

\* load_category_terms: the map's modules join the default keywords.
Terms(map, c) ==
    (IF c \in Defaults THEN DefaultTerms[c] ELSE {}) \cup
    (IF c \in DOMAIN map.modules THEN map.modules[c] ELSE {})

\* The buckets that exist before any signal is classified: every one of them
\* gets a row even if no signal hits it.
Buckets(map) == Defaults \cup DOMAIN map.modules

Hits(path, map, c) == \E i \in DOMAIN path : Holds(path[i], Terms(map, c))

\* classify: the dictionary is tried in insertion order, the default buckets
\* first, then those only the map has, in the map's order.
Classify(path, map) ==
    LET early == {i \in DOMAIN DefaultOrder : Hits(path, map, DefaultOrder[i])}
        late  == {i \in DOMAIN map.order : /\ map.order[i] \in DOMAIN map.modules \ Defaults
                                           /\ Hits(path, map, map.order[i])}
    IN CASE early # {} -> DefaultOrder[Min(early)]
         [] early = {} /\ late # {} -> map.order[Min(late)]
         [] OTHER -> "other"
=============================================================================
