------------------------------ MODULE ContentKey ------------------------------
(***************************************************************************)
(* contentkey: the key under which the result of a node is memoized, and   *)
(* the predicate that skips one. Files are listed, looked at and hashed    *)
(* one after the other while somebody may edit them.                       *)
(*                                                                         *)
(* A Go package is the file that bears its name, and its tests.            *)
(***************************************************************************)
EXTENDS FiniteSets, Naturals

CONSTANTS
  Node,       \* one execution of a node of a plan
  File,
  Content,
  Absent,     \* no such file
  Imports,    \* what each content imports
  Tests,      \* test files of each package
  Foreign,    \* files of other modules
  Quoted,     \* names git ls-files quotes, as it does outside ASCII
  Base,       \* the tree at the base reference
  LastEdit    \* bound on the edits

ASSUME KeyAssumption ==
  /\ Absent \notin Content /\ LastEdit \in Nat
  /\ Foreign \subseteq File /\ Quoted \subseteq File
  /\ Base \in [File -> Content \cup {Absent}]
  /\ Imports \in [Content \cup {Absent} -> SUBSET File]
  /\ Tests \in [File -> SUBSET File]

VARIABLES
  nodes,      \* [kind, salt, spec, globs, based] of each node
  tree,       \* content of each file in the working tree
  tracked,    \* files in the index
  npc,        \* next step of each node
  listed,     \* files it has yet to look at or to hash
  parts,      \* what its key is made of
  steady,     \* nodes since whose first step nothing was edited
  cache,      \* stored results, by key
  reuse,      \* result each node was given instead of running
  edits

keyVars == <<nodes, tree, tracked, npc, listed, parts, steady, cache, reuse, edits>>

KeyInit(settings, files, index) ==
  /\ nodes \in settings
  /\ tree = files /\ tracked = index
  /\ npc = [n \in Node |-> IF nodes[n].kind = "skip" THEN "diff" ELSE "list"]
  /\ listed = [n \in Node |-> {}]
  /\ parts = [n \in Node |-> {}]
  /\ steady = {}
  /\ cache = {}
  /\ reuse = [n \in Node |-> Absent]
  /\ edits = 0

(* goModuleSources: the package, its tests, and what it imports directly   *)
(* or not, as long as it is of the same module.                            *)
GoDeps(spec) ==
  LET reach[i \in 0..Cardinality(File)] ==
        IF i = 0 THEN {spec}
        ELSE reach[i - 1] \cup UNION {Imports[tree[f]] : f \in reach[i - 1]}
  IN (reach[Cardinality(File)] \cup Tests[spec]) \ Foreign

Wanted(n) == nodes[n].globs \cup (IF nodes[n].kind = "gopkg" THEN GoDeps(nodes[n].spec) ELSE {})

(* What a result depends on, as far as a key can tell. *)
Inputs(n) ==
  [f \in {g \in (Wanted(n) \cap tracked) \ Quoted : tree[g] # Absent} |-> tree[f]]

(* git ls-files knows the tracked ones only. Whatever fails, here or later, *)
(* fails the node.                                                          *)
TrackedFiles(n) ==
  /\ npc[n] = "list"
  /\ \/ /\ npc' = [npc EXCEPT ![n] = "stat"]
        /\ listed' = [listed EXCEPT ![n] = Wanted(n) \cap tracked]
     \/ npc' = [npc EXCEPT ![n] = "failed"] /\ UNCHANGED listed
  /\ steady' = steady \cup {n}
  /\ UNCHANGED <<nodes, tree, tracked, parts, cache, reuse, edits>>

(* A name that is not found is dropped as deleted, and a quoted name is    *)
(* not found.                                                              *)
OnDisk(n) ==
  /\ npc[n] = "stat"
  /\ npc' = [npc EXCEPT ![n] = "hash"]
  /\ listed' = [listed EXCEPT ![n] = {f \in @ \ Quoted : tree[f] # Absent}]
  /\ UNCHANGED <<nodes, tree, tracked, parts, steady, cache, reuse, edits>>

(* Broken variant: the key has the hashes and not the names. *)
HashAlone(f) == <<"file", tree[f]>>

Part(f) == <<f, tree[f]>>

(* hash-object fails on a file that has gone meanwhile. *)
HashObjects(n) ==
  /\ npc[n] = "hash"
  /\ \/ listed[n] = {} /\ npc' = [npc EXCEPT ![n] = "lookup"] /\ UNCHANGED <<listed, parts>>
     \/ \E f \in listed[n] :
          /\ tree[f] # Absent
          /\ listed' = [listed EXCEPT ![n] = @ \ {f}]
          /\ parts' = [parts EXCEPT ![n] = @ \cup {Part(f)}]
          /\ UNCHANGED npc
     \/ npc' = [npc EXCEPT ![n] = "failed"] /\ UNCHANGED <<listed, parts>>
  /\ UNCHANGED <<nodes, tree, tracked, steady, cache, reuse, edits>>

(* The salt of a Go package carries its spec. *)
Salt(n) == <<nodes[n].salt, IF nodes[n].kind = "gopkg" THEN nodes[n].spec ELSE Absent>>

Key(n) == <<Salt(n), parts[n]>>

Given(n, result) == reuse' = [reuse EXCEPT ![n] =
  [salt |-> result.salt, from |-> result.inputs, now |-> Inputs(n),
   sure |-> result.sure /\ n \in steady]]

(* Memoize: a stored result stands in for the node. *)
Lookup(n) ==
  /\ npc[n] = "lookup"
  /\ LET found == {e \in cache : e.key = Key(n)} IN
     \/ /\ \E e \in found : Given(n, e)
        /\ npc' = [npc EXCEPT ![n] = "replayed"]
     \/ found = {} /\ npc' = [npc EXCEPT ![n] = "work"] /\ UNCHANGED reuse
  /\ UNCHANGED <<nodes, tree, tracked, listed, parts, steady, cache, edits>>

(* changedVsBase: a file counts as far as the index or the base has it. *)
Unchanged(n) ==
  /\ nodes[n].based
  /\ \A f \in nodes[n].globs : Base[f] = IF f \in tracked THEN tree[f] ELSE Absent

(* SkipIf(Unchanged): a failure does not skip. *)
Diff(n) ==
  /\ npc[n] = "diff"
  /\ \/ /\ Unchanged(n)
        /\ npc' = [npc EXCEPT ![n] = "skipped"]
        /\ reuse' = [reuse EXCEPT ![n] =
             [salt |-> Salt(n), now |-> Inputs(n), sure |-> TRUE,
              from |-> [f \in {g \in nodes[n].globs \ Quoted : nodes[n].based /\ Base[g] # Absent}
                          |-> Base[f]]]]
     \/ npc' = [npc EXCEPT ![n] = "work"] /\ UNCHANGED reuse
  /\ UNCHANGED <<nodes, tree, tracked, listed, parts, steady, cache, edits>>

(* The node runs on the tree as it is by now; only a result is stored. *)
Work(n) ==
  /\ npc[n] = "work"
  /\ \/ npc' = [npc EXCEPT ![n] = "failed"] /\ UNCHANGED cache
     \/ /\ npc' = [npc EXCEPT ![n] = "ran"]
        /\ cache' = IF nodes[n].kind = "skip" THEN cache
                    ELSE {e \in cache : e.key # Key(n)} \cup
                         {[key |-> Key(n), salt |-> Salt(n), inputs |-> Inputs(n),
                           sure |-> n \in steady]}
  /\ UNCHANGED <<nodes, tree, tracked, listed, parts, steady, reuse, edits>>

(* Somebody writes or removes a file, or stages one. *)
Edit ==
  /\ edits < LastEdit /\ edits' = edits + 1
  /\ steady' = {}
  /\ \/ \E f \in File, c \in Content \cup {Absent} :
          c # tree[f] /\ tree' = [tree EXCEPT ![f] = c] /\ UNCHANGED tracked
     \/ \E f \in File \ tracked : tracked' = tracked \cup {f} /\ UNCHANGED tree
  /\ UNCHANGED <<nodes, npc, listed, parts, cache, reuse>>

KeyNext ==
  \/ Edit
  \/ \E n \in Node :
       TrackedFiles(n) \/ OnDisk(n) \/ HashObjects(n) \/ Lookup(n) \/ Diff(n) \/ Work(n)

KeySpec(settings, files, index) == KeyInit(settings, files, index) /\ [][KeyNext]_keyVars

-------------------------------------------------------------------------------
KeyTypeOK ==
  /\ tree \in [File -> Content \cup {Absent}]
  /\ tracked \subseteq File
  /\ \A n \in Node : listed[n] \subseteq File
  /\ steady \subseteq Node
  /\ edits \in 0..LastEdit

(* A node that does not run has an earlier outcome for what it would have  *)
(* run on: a result stored under the same salt, and for the same package,  *)
(* for files of the same names and contents, or a base it equals. That     *)
(* holds of the files a key can tell, tracked and with names git leaves as *)
(* they are, and as long as nobody edits while a key is being made or the  *)
(* node that stored the result was running.                                *)
ReuseMeansSameInputs ==
  \A n \in Node : reuse[n] # Absent /\ reuse[n].sure =>
    reuse[n].salt = Salt(n) /\ reuse[n].from = reuse[n].now
===============================================================================
