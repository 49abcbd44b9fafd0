------------------------------ MODULE Registry ------------------------------
(***************************************************************************)
(* The table of providers (src/src/loader/registry.c).  A provider is      *)
(* checked as a whole, initialised, and then entered with all its          *)
(* components and its expression engine, or left out as a whole.  A label  *)
(* is the path of a shared library or the name of a built-in table.        *)
(***************************************************************************)
EXTENDS Naturals, Sequences, FiniteSets, SequencesExt

CONSTANTS
  Library,      \* label -> what dlopen and the entry function give
  FirstSlots,   \* capacities the three tables start with: providers, components, exprs
  Null          \* a component without a name

ASSUME SlotsAssumption ==
  \A t \in {"providers", "components", "exprs"} : FirstSlots[t] \in Nat \ {0}

VARIABLES
  table,    \* label and definition of each provider, in load order
  comps,    \* component names with the index of their provider
  exprs,    \* expression languages with the index of their provider
  slots,    \* capacity of the three tables
  handles,  \* labels with an open library
  events    \* what providers were told: initialised, shut down

regVars == <<table, comps, exprs, slots, handles, events>>

RegInit ==
  /\ table = << >> /\ comps = << >> /\ exprs = << >>
  /\ slots = [t \in {"providers", "components", "exprs"} |-> 0]
  /\ handles = {} /\ events = << >>

Names(entries) == {entries[i].name : i \in DOMAIN entries}
Labels == {table[i].label : i \in DOMAIN table}

\* Everything that is checked before the provider runs any code.
Acceptable(def) ==
  /\ def.abi /\ def.described
  /\ \A i \in DOMAIN def.comps : /\ def.comps[i] # Null
                                 /\ def.comps[i] \notin Names(comps)
                                 /\ \A j \in 1..(i - 1) : def.comps[j] # def.comps[i]
  /\ \A e \in def.engine : e.lang # "" /\ e.complete /\ e.lang \notin Names(exprs)

\* Doubling until the entries fit.
Grow(have, need, first) ==
  LET sizes == {(IF have = 0 THEN first ELSE have) * 2^k : k \in 0..4}
  IN IF need <= have THEN have
     ELSE CHOOSE c \in sizes : c >= need /\ \A d \in sizes : d >= need => c <= d

Needs(def) == [providers |-> Len(table) + 1,
               components |-> Len(comps) + Len(def.comps),
               exprs |-> Len(exprs) + Cardinality(def.engine)]

\* The order in which register_validated grows the tables.
Place == [providers |-> 1, components |-> 2, exprs |-> 3, label |-> 4, none |-> 4]

\* The allocations after the initialisation that can fail: a table that is
\* full, and the copy of the label.
FailingAllocations(def) == {t \in DOMAIN slots : Needs(def)[t] > slots[t]} \union {"label"}

\* What was grown before a failing allocation stays.
GrownUntil(def, failed) ==
  [t \in DOMAIN slots |->
     IF Place[t] < Place[failed] THEN Grow(slots[t], Needs(def)[t], FirstSlots[t])
                                 ELSE slots[t]]

Entered(def, names) == [i \in DOMAIN names |-> [name |-> names[i], owner |-> Len(table) + 1]]

Told(def, what) == IF what \in def.hooks THEN <<[what |-> what, def |-> def.name]>> ELSE << >>

Commit(label, def) ==
  /\ table' = Append(table, [label |-> label, def |-> def])
  /\ comps' = comps \o Entered(def, def.comps)
  /\ exprs' = exprs \o Entered(def, [i \in 1..Cardinality(def.engine) |->
                                        (CHOOSE e \in def.engine : TRUE).lang])
  /\ slots' = GrownUntil(def, "none")
  /\ events' = events \o Told(def, "init")

\* As BackOut would be if it only closed the library.
BackOut_NoShutdown(def, failed) ==
  /\ slots' = GrownUntil(def, failed)
  /\ events' = events \o Told(def, "init")
  /\ UNCHANGED <<table, comps, exprs>>

\* The provider has been initialised and cannot be entered: it is shut down.
BackOut(def, failed) ==
  /\ slots' = GrownUntil(def, failed)
  /\ events' = events \o Told(def, "init") \o Told(def, "shutdown")
  /\ UNCHANGED <<table, comps, exprs>>

\* register_validated; `opened` is the label again when a library was opened
\* for it.  Whatever fails closes the library.
RegisterValidated(label, def, opened) ==
  \/ /\ ~Acceptable(def)
     /\ UNCHANGED regVars
  \/ /\ Acceptable(def) /\ "init" \in def.hooks   \* provider_init reports an error
     /\ UNCHANGED regVars
  \/ /\ Acceptable(def)
     /\ \E failed \in FailingAllocations(def) : BackOut(def, failed)
     /\ UNCHANGED handles
  \/ /\ Acceptable(def)
     /\ Commit(label, def)
     /\ handles' = handles \union opened

\* betl_registry_load
LoadLibrary(label) ==
  IF label \in Labels \/ ~Library[label].opens
    THEN UNCHANGED regVars
    ELSE RegisterValidated(label, Library[label].def, {label})

\* betl_registry_register
RegisterBuiltin(label, def) ==
  IF label \in Labels THEN UNCHANGED regVars ELSE RegisterValidated(label, def, {})

\* betl_registry_destroy: the last one loaded goes first.
DestroyRegistry ==
  /\ events' = FoldLeft(LAMBDA told, p : told \o Told(p.def, "shutdown"),
                        events, Reverse(table))
  /\ handles' = {}
  /\ table' = << >> /\ comps' = << >> /\ exprs' = << >>
  /\ slots' = [t \in DOMAIN slots |-> 0]
=============================================================================
