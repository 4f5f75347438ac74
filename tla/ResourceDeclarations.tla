----------------------- MODULE ResourceDeclarations ------------------------
(***************************************************************************)
(* What components declare before anything is built (ResourceDeclarations):  *)
(* layouts of bindings, sets of them and the descriptors to write, each into *)
(* the slot of its binding and set; and Engine::build_descriptor_set_layouts *)
(* and build_descriptor_sets, which turn the declarations into sets written  *)
(* with the resources the handles lead to.  A call whose assertion fails     *)
(* changes nothing and is left out.                                          *)
(***************************************************************************)
EXTENDS Storage

CONSTANTS
  Bindings,      (* binding numbers                                            *)
  MaxLayouts,    (* bounds: layouts, declarations of sets, sets of each,       *)
  MaxSets,       (* descriptors                                                *)
  MaxSetCount,
  MaxDescriptors

ASSUME DeclarationsAssumption ==
  MaxLayouts \in Nat /\ MaxSets \in Nat /\ MaxSetCount \in Nat /\ MaxDescriptors \in Nat

VARIABLES
  layouts,       (* layout -> its bindings, in the order of the declaration    *)
  sets,          (* declaration of sets -> layout, set_count and descriptors   *)
  declared,      (* the descriptors that were added (history)                  *)
  built,         (* "no", "layouts", "sets" or "threw"                         *)
  writes,        (* the descriptors updateDescriptorSets wrote                 *)
  overrun        (* a descriptor was stored beyond the slots of its sets       *)

declarationVars == <<layouts, sets, declared, built, writes, overrun>>

DeclarationsInit ==
  /\ layouts = <<>>
  /\ sets = <<>>
  /\ declared = {}
  /\ built = "no"
  /\ writes = {}
  /\ overrun = FALSE

Declaring == built = "no" /\ ~overrun

AddDescriptorSetLayout ==
  /\ Declaring
  /\ Len(layouts) < MaxLayouts
  /\ layouts' = Append(layouts, <<>>)
  /\ UNCHANGED <<sets, declared, built, writes, overrun>>

AddBinding(layout, binding) ==
  /\ Declaring
  /\ binding \notin ToSet(layouts[layout])
  /\ layouts' = [layouts EXCEPT ![layout] = Append(@, binding)]
  /\ UNCHANGED <<sets, declared, built, writes, overrun>>

(* As many slots as the layout has bindings by now, for each set.            *)
NoDescriptor == [binding |-> 0, resources |-> <<>>]

AddDescriptorSets(layout, set_count) ==
  /\ Declaring
  /\ Len(sets) < MaxSets
  /\ layouts[layout] # <<>>
  /\ sets' = Append(sets,
               [layout |-> layout, set_count |-> set_count,
                descriptors |-> [n \in 1 .. Len(layouts[layout]) * set_count |-> NoDescriptor]])
  /\ UNCHANGED <<layouts, declared, built, writes, overrun>>

(* Bindings and sets count from 0, like their slots.                         *)
BindingIndex(layout, binding) ==
  CHOOSE i \in 0 .. Len(layouts[layout]) - 1 : layouts[layout][i + 1] = binding

(* Mutant: the slots of a set follow each other.                             *)
SlotBySet(entry, set, binding) == set * entry.set_count + BindingIndex(entry.layout, binding)

Slot(entry, set, binding) == BindingIndex(entry.layout, binding) * entry.set_count + set

AddDescriptor(s, set, binding, resources) ==
  LET entry == sets[s]
      slot == Slot(entry, set, binding) + 1
  IN /\ Declaring
     /\ Cardinality(declared) < MaxDescriptors
     /\ set < entry.set_count
     /\ binding \in ToSet(layouts[entry.layout])
     /\ IF slot > Len(entry.descriptors)
        THEN /\ overrun' = TRUE
             /\ UNCHANGED <<sets, declared>>
        ELSE /\ entry.descriptors[slot] = NoDescriptor
             /\ sets' = [sets EXCEPT ![s].descriptors[slot] =
                           [binding |-> binding, set |-> set, resources |-> resources]]
             /\ declared' = declared \union
                  {[sets |-> s, set |-> set, binding |-> binding, resources |-> resources]}
             /\ UNCHANGED overrun
     /\ UNCHANGED <<layouts, built, writes>>

-----------------------------------------------------------------------------
(* The bindings are sorted where they are, after the slots were chosen.      *)
BuildDescriptorSetLayouts ==
  /\ Declaring
  /\ layouts # <<>>
  /\ layouts' = [l \in DOMAIN layouts |-> SetToSortSeq(ToSet(layouts[l]), <)]
  /\ built' = "layouts"
  /\ UNCHANGED <<sets, declared, writes, overrun>>

Contents(resources) == [n \in DOMAIN resources |-> At(resources[n].kind, resources[n].id).value]

Added(entry) == {n \in DOMAIN entry.descriptors : entry.descriptors[n] # NoDescriptor}

(* Mutant: the binding is looked up where the slot says it was declared.     *)
WrittenBySlot(s, n) ==
  [sets |-> s, set |-> sets[s].descriptors[n].set,
   binding |-> layouts[sets[s].layout][(n - 1) \div sets[s].set_count + 1],
   contents |-> Contents(sets[s].descriptors[n].resources)]

Written(s, n) ==
  [sets |-> s, set |-> sets[s].descriptors[n].set,
   binding |-> sets[s].descriptors[n].binding,
   contents |-> Contents(sets[s].descriptors[n].resources)]

AllResolve ==
  \A s \in DOMAIN sets : \A n \in Added(sets[s]) :
    \A r \in ToSet(sets[s].descriptors[n].resources) : Get(r) = "found"

BuildDescriptorSets ==
  /\ built = "layouts"
  /\ AllResolve
  /\ writes' = UNION {{Written(s, n) : n \in Added(sets[s])} : s \in DOMAIN sets}
  /\ built' = "sets"
  /\ UNCHANGED <<layouts, sets, declared, overrun>>

(* A handle that does not lead to a resource throws; the sets have been      *)
(* allocated, and nothing is written to any of them.                         *)
BuildDescriptorSetsThrows ==
  /\ built = "layouts"
  /\ ~AllResolve
  /\ built' = "threw"
  /\ UNCHANGED <<layouts, sets, declared, writes, overrun>>

Declares ==
  \/ AddDescriptorSetLayout
  \/ \E l \in DOMAIN layouts :
       \/ \E b \in Bindings : AddBinding(l, b)
       \/ \E n \in 1 .. MaxSetCount : AddDescriptorSets(l, n)
  \/ \E s \in DOMAIN sets, set \in 0 .. MaxSetCount - 1, b \in Bindings :
       \E h \in LiveHandles : AddDescriptor(s, set, b, <<h>>)
  \/ BuildDescriptorSetLayouts
  \/ BuildDescriptorSets \/ BuildDescriptorSetsThrows

-----------------------------------------------------------------------------
(* What is written is what was declared: each descriptor into its own        *)
(* binding and set, with the resource its handle was returned for - though   *)
(* the slots were chosen before the bindings were sorted and the resources   *)
(* are looked up long after the handles were declared.                       *)
WritesAsDeclared ==
  built = "sets" =>
    writes = {[sets |-> d.sets, set |-> d.set, binding |-> d.binding,
               contents |-> [n \in DOMAIN d.resources |-> given[d.resources[n]]]] : d \in declared}

(* A descriptor is stored in a slot of its sets, unless the layout got       *)
(* another binding after the sets were declared (resource_declarations       *)
(* .cpp:70: nothing asserts the index).                                      *)
SlotsSuffice ==
  overrun =>
    \E s \in DOMAIN sets :
      Len(sets[s].descriptors) < Len(layouts[sets[s].layout]) * sets[s].set_count
=============================================================================
