--------------------------- MODULE FileSystemProofs ---------------------------
(***************************************************************************)
(* The tree, the frames and the descriptors stay sound for any file names, *)
(* any number of frames, descriptions and calls.                           *)
(*                                                                         *)
(* FsOK is kept by every operator of RamFs, whatever it is called with:    *)
(* the tree is one (each vnode but the root is in one directory, once),    *)
(* and each frame is a page of one file or free.  What open gives out      *)
(* names a vnode because the path walk only follows the tree; that needs   *)
(* an induction along the path, and writev one along its buffers, for      *)
(* which the least counterexample serves.                                  *)
(*                                                                         *)
(* The second half shows that the calls implement byte files.  A byte of a *)
(* file is a byte of a frame that no other page has, so storing data       *)
(* changes the bytes of its positions and no others; buffers stored one    *)
(* after the other store their concatenation, and buffers read one after   *)
(* the other read on from one another until the file ends.  Each call is   *)
(* then one step of ByteFile.                                              *)
(***************************************************************************)
EXTENDS FileSystem, ListProofs, FunctionTheorems

(* The texts between slashes, those that start_kernel passes among them.   *)
Texts == STRING \cup {"", "dev", "null", "zero", "tty", "proc", "version", "sbin", "bin",
                      "tmp", "etc"}
Callbacks == {"ramfs", "null", "zero", "tty", "stdout", "version"}
Vmos == UNION {[P -> Frames] : P \in SUBSET Int}
Nodes == [type : {"Directory", "Regular", "CharDevice"}, ops : Callbacks, name : Seq(Texts),
          children : Seq(Nat), vmo : Vmos, size : 0..MaxSize]

(* The parts of a file system.                                             *)
FsTypes(F) ==
    /\ F = [nodes |-> F.nodes, mem |-> F.mem, free |-> F.free]
    /\ F.nodes \in Seq(Nodes) /\ Len(F.nodes) > 0 /\ Len(F.nodes) <= MaxNodes
    /\ F.free \subseteq Frames

(* Entry k of directory n is child m.                                      *)
Entry(ns, n, k, m) ==
    n \in DOMAIN ns /\ k \in DOMAIN ns[n].children /\ ns[n].children[k] = m
TreeOK(ns) ==
    /\ \A n, k, m : Entry(ns, n, k, m) => m \in 2..Len(ns)
    /\ \A n, k, m, o, l : Entry(ns, n, k, m) /\ Entry(ns, o, l, m) => n = o /\ k = l
    /\ \A m \in 2..Len(ns) : \E n, k : Entry(ns, n, k, m)
    /\ \A n \in DOMAIN ns : ns[n].type = "Directory" => ns[n].size = 0 /\ ns[n].ops = "ramfs"
    /\ \A n \in DOMAIN ns : ns[n].type = "CharDevice" => ns[n].ops # "ramfs"
    /\ \A n \in DOMAIN ns : Len(ns[n].children) < Len(ns)

(* Page p of file n is in frame f.                                         *)
Holds(ns, n, p, f) ==
    n \in DOMAIN ns /\ p \in DOMAIN ns[n].vmo /\ ns[n].vmo[p] = f
FramesOK(ns, free) ==
    /\ \A n, p, m, q, f : Holds(ns, n, p, f) /\ Holds(ns, m, q, f) => n = m /\ p = q
    /\ \A n, p, f : Holds(ns, n, p, f) => f \in Frames \ free
    /\ \A f \in Frames \ free : \E n, p : Holds(ns, n, p, f)

FsOK(F) == FsTypes(F) /\ TreeOK(F.nodes) /\ FramesOK(F.nodes, F.free)

(* What no call does to a vnode: it is not removed, its kind does not      *)
(* change, and the entries of a directory stay where they are.             *)
Extends(ms, ns) ==
    /\ Len(ns) <= Len(ms)
    /\ \A n \in DOMAIN ns :
          /\ ms[n].type = ns[n].type /\ ms[n].ops = ns[n].ops
          /\ Len(ns[n].children) <= Len(ms[n].children)
          /\ \A k \in DOMAIN ns[n].children : ms[n].children[k] = ns[n].children[k]

-----------------------------------------------------------------------------
(* What a step on nodes may use of their types.                            *)
LEMMA NodeFacts ==
    ASSUME NEW ns \in Seq(Nodes), NEW n \in DOMAIN ns
    PROVE  /\ n \in 1..Len(ns) /\ Len(ns) \in Nat /\ DOMAIN ns = 1..Len(ns)
           /\ ns[n] \in Nodes
           /\ ns[n].children \in Seq(Nat) /\ Len(ns[n].children) \in Nat
           /\ DOMAIN ns[n].children = 1..Len(ns[n].children)
<1>1. n \in 1..Len(ns) /\ Len(ns) \in Nat /\ DOMAIN ns = 1..Len(ns) /\ ns[n] \in Nodes
  OBVIOUS
<1>2. ns[n].children \in Seq(Nat)
  BY <1>1 DEF Nodes
<1> QED
  BY <1>1, <1>2

(* Replacing one node by a node of the same kind with the same entries     *)
(* keeps the tree.                                                         *)
LEMMA SameTree ==
    ASSUME NEW ns \in Seq(Nodes), TreeOK(ns), NEW n \in DOMAIN ns, NEW x \in Nodes,
           x.type = ns[n].type, x.ops = ns[n].ops, x.children = ns[n].children,
           x.type = "Directory" => x.size = 0
    PROVE  /\ [ns EXCEPT ![n] = x] \in Seq(Nodes)
           /\ Len([ns EXCEPT ![n] = x]) = Len(ns)
           /\ TreeOK([ns EXCEPT ![n] = x])
           /\ Extends([ns EXCEPT ![n] = x], ns)
<1> DEFINE ms == [ns EXCEPT ![n] = x]
<1>1. ms \in Seq(Nodes) /\ Len(ms) = Len(ns) /\ DOMAIN ms = DOMAIN ns
  OBVIOUS
<1>2. \A m \in DOMAIN ns : /\ ms[m].type = ns[m].type /\ ms[m].ops = ns[m].ops
                           /\ ms[m].children = ns[m].children
                           /\ m # n => ms[m] = ns[m]
  OBVIOUS
<1>3. ms[n] = x
  OBVIOUS
<1> HIDE DEF ms
<1>4. \A m, k, c : Entry(ms, m, k, c) <=> Entry(ns, m, k, c)
  BY <1>1, <1>2 DEF Entry
<1>5. \A m \in DOMAIN ms :
         ms[m].type = "Directory" => ms[m].size = 0 /\ ms[m].ops = "ramfs"
  BY <1>1, <1>2, <1>3 DEF TreeOK
<1>6. TreeOK(ms)
  BY <1>1, <1>2, <1>4, <1>5 DEF TreeOK
<1>7. Extends(ms, ns)
  <2>1. \A m \in DOMAIN ns : Len(ns[m].children) \in Nat
    BY NodeFacts
  <2>2. Len(ns) \in Nat
    OBVIOUS
  <2> QED
    BY <1>1, <1>2, <2>1, <2>2 DEF Extends
<1> QED
  BY <1>1, <1>6, <1>7 DEF ms

(* Extension is transitive.                                                *)
LEMMA ExtendsTwice ==
    ASSUME NEW ns \in Seq(Nodes), NEW ms \in Seq(Nodes), NEW ls \in Seq(Nodes),
           Extends(ms, ns), Extends(ls, ms)
    PROVE  Extends(ls, ns)
<1>1. /\ Len(ns) \in Nat /\ Len(ms) \in Nat /\ Len(ls) \in Nat
      /\ DOMAIN ns = 1..Len(ns) /\ DOMAIN ms = 1..Len(ms)
  OBVIOUS
<1>2. Len(ns) <= Len(ls) /\ DOMAIN ns \subseteq DOMAIN ms
  BY <1>1 DEF Extends
<1>3. ASSUME NEW n \in DOMAIN ns
      PROVE  /\ ls[n].type = ns[n].type /\ ls[n].ops = ns[n].ops
             /\ Len(ns[n].children) <= Len(ls[n].children)
             /\ \A k \in DOMAIN ns[n].children : ls[n].children[k] = ns[n].children[k]
  <2>1. n \in DOMAIN ms /\ n \in DOMAIN ls
    BY <1>1, <1>2 DEF Extends
  <2>2. /\ ms[n].type = ns[n].type /\ ms[n].ops = ns[n].ops
        /\ ls[n].ops = ms[n].ops
        /\ Len(ns[n].children) <= Len(ms[n].children)
        /\ \A k \in DOMAIN ns[n].children : ms[n].children[k] = ns[n].children[k]
        /\ ls[n].type = ms[n].type /\ Len(ms[n].children) <= Len(ls[n].children)
        /\ \A k \in DOMAIN ms[n].children : ls[n].children[k] = ms[n].children[k]
    BY <2>1 DEF Extends
  <2>3. /\ Len(ns[n].children) \in Nat /\ Len(ms[n].children) \in Nat
        /\ Len(ls[n].children) \in Nat
        /\ DOMAIN ns[n].children = 1..Len(ns[n].children)
        /\ DOMAIN ms[n].children = 1..Len(ms[n].children)
    BY <2>1, NodeFacts
  <2>4. DOMAIN ns[n].children \subseteq DOMAIN ms[n].children
    BY <2>2, <2>3
  <2>5. Len(ns[n].children) <= Len(ls[n].children)
    BY <2>2, <2>3
  <2> QED
    BY <2>2, <2>4, <2>5
<1> QED
  BY <1>2, <1>3 DEF Extends

-----------------------------------------------------------------------------
(* A vnode as its constructor leaves it.                                   *)
Fresh(node) ==
    /\ node \in Nodes /\ node.children = <<>> /\ node.vmo = <<>> /\ node.size = 0
    /\ node.type = "Directory" => node.ops = "ramfs"
    /\ node.type = "CharDevice" => node.ops # "ramfs"

(* The constructors make fresh vnodes.                                     *)
LEMMA ConstructorsFresh ==
    ASSUME NEW type \in {"Directory", "Regular", "CharDevice"}, NEW name \in Seq(Texts),
           NEW ops \in Callbacks
    PROVE  /\ type # "CharDevice" => Fresh(RamFsNode(type, name))
           /\ type # "Directory" /\ ops # "ramfs" => Fresh(PseudoFsNode(type, name, ops))
<1>1. MaxSize \in Nat
  BY FileSystemAssumption
<1>2. <<>> \in Vmos
  <2>1. <<>> \in [{} -> Frames]
    OBVIOUS
  <2> QED
    BY <2>1 DEF Vmos
<1>3. <<>> \in Seq(Nat)
  OBVIOUS
<1>4. ASSUME NEW o \in Callbacks, type = "Directory" => o = "ramfs",
             type = "CharDevice" => o # "ramfs"
      PROVE  Fresh([type |-> type, ops |-> o, name |-> name, children |-> <<>>,
                    vmo |-> <<>>, size |-> 0])
  BY <1>1, <1>2, <1>3, <1>4 DEF Fresh, Nodes
<1>5. PseudoFsNode(type, name, ops)
        = [type |-> type, ops |-> ops, name |-> name, children |-> <<>>,
           vmo |-> <<>>, size |-> 0]
  BY DEF PseudoFsNode, RamFsNode
<1>6. RamFsNode(type, name)
        = [type |-> type, ops |-> "ramfs", name |-> name, children |-> <<>>,
           vmo |-> <<>>, size |-> 0]
  BY DEF RamFsNode
<1>7. type # "Directory" /\ ops # "ramfs" => Fresh(PseudoFsNode(type, name, ops))
  BY <1>4, <1>5
<1>8. type # "CharDevice" => Fresh(RamFsNode(type, name))
  <2>1. "ramfs" \in Callbacks
    BY DEF Callbacks
  <2> QED
    BY <1>4, <1>6, <2>1
<1> QED
  BY <1>7, <1>8

(* The nodes once InsertChild has linked a new one.                        *)
Linked(ns, dir, node) ==
    Append([ns EXCEPT ![dir] = [ns[dir] EXCEPT
                                   !.children = Append(ns[dir].children, Len(ns) + 1)]],
           node)

(* The new vnode is the last, and the pages and sizes of the others stay.  *)
Grown(ms, ns, node) ==
    /\ Len(ms) = Len(ns) + 1 /\ ms[Len(ns) + 1] = node
    /\ \A n \in DOMAIN ns : ms[n].vmo = ns[n].vmo /\ ms[n].size = ns[n].size

(* InsertChild, without and with room in the kernel heap.                  *)
LEMMA InsertChildIs ==
    ASSUME NEW F, FsTypes(F), NEW dir, NEW node
    PROVE  /\ Len(F.nodes) = MaxNodes => InsertChild(F, dir, node) = Ok(F, ENOMEM)
           /\ Len(F.nodes) # MaxNodes =>
                 InsertChild(F, dir, node)
                   = Ok([nodes |-> Linked(F.nodes, dir, node), mem |-> F.mem,
                         free |-> F.free], Len(F.nodes) + 1)
<1>1. F = [nodes |-> F.nodes, mem |-> F.mem, free |-> F.free]
  BY DEF FsTypes
<1>2. Append([F.nodes EXCEPT ![dir].children = Append(@, Len(F.nodes) + 1)], node)
        = Linked(F.nodes, dir, node)
  BY DEF Linked
<1>3. ASSUME NEW ns
      PROVE  [F EXCEPT !.nodes = ns] = [nodes |-> ns, mem |-> F.mem, free |-> F.free]
  BY <1>1
<1> QED
  BY <1>2, <1>3 DEF InsertChild

(* A new entry keeps the tree a tree and every frame where it is.          *)
LEMMA LinkedOK ==
    ASSUME NEW ns \in Seq(Nodes), Len(ns) > 0, NEW free, TreeOK(ns), FramesOK(ns, free),
           NEW dir \in DOMAIN ns, NEW node, Fresh(node)
    PROVE  /\ Linked(ns, dir, node) \in Seq(Nodes)
           /\ Len(Linked(ns, dir, node)) = Len(ns) + 1
           /\ TreeOK(Linked(ns, dir, node))
           /\ FramesOK(Linked(ns, dir, node), free)
           /\ Extends(Linked(ns, dir, node), ns)
           /\ Grown(Linked(ns, dir, node), ns, node)
<1> DEFINE len == Len(ns)
           x == [ns[dir] EXCEPT !.children = Append(ns[dir].children, len + 1)]
           ls == [ns EXCEPT ![dir] = x]
           ms == Append(ls, node)
<1>1. /\ len \in Nat /\ len > 0 /\ DOMAIN ns = 1..len /\ dir \in 1..len
      /\ ns[dir] \in Nodes /\ ns[dir].children \in Seq(Nat)
  BY NodeFacts
<1>2. Append(ns[dir].children, len + 1) \in Seq(Nat)
  BY <1>1
<1>3. /\ x \in Nodes /\ x.children = Append(ns[dir].children, len + 1)
      /\ x.type = ns[dir].type /\ x.ops = ns[dir].ops
      /\ x.vmo = ns[dir].vmo /\ x.size = ns[dir].size
  BY <1>1, <1>2 DEF Nodes
<1> HIDE DEF x
<1>4. ls \in Seq(Nodes) /\ Len(ls) = len /\ DOMAIN ls = 1..len
  BY <1>1, <1>3
<1>5. \A n \in 1..len : ls[n] = IF n = dir THEN x ELSE ns[n]
  BY <1>1
<1> HIDE DEF ls
<1>6. /\ ms \in Seq(Nodes) /\ Len(ms) = len + 1 /\ DOMAIN ms = 1..(len + 1)
      /\ \A n \in 1..len : ms[n] = ls[n]
      /\ ms[len + 1] = node
  BY <1>4 DEF Fresh
<1>7. ms = Linked(ns, dir, node)
  BY DEF Linked, ls, x
<1> HIDE DEF ms, len
<1>8. \A n \in DOMAIN ms : \/ n \in 1..len /\ n # dir /\ ms[n] = ns[n]
                           \/ n = dir /\ ms[n] = x
                           \/ n = len + 1 /\ ms[n] = node
  BY <1>1, <1>5, <1>6
<1>9. /\ \A n \in 1..len : n # dir => ms[n] = ns[n]
      /\ ms[dir] = x /\ dir # len + 1
  BY <1>1, <1>5, <1>6
<1>10. /\ Len(x.children) = Len(ns[dir].children) + 1
       /\ DOMAIN x.children = (DOMAIN ns[dir].children) \cup {Len(x.children)}
       /\ Len(x.children) \notin DOMAIN ns[dir].children
       /\ x.children[Len(x.children)] = len + 1
       /\ \A k \in DOMAIN ns[dir].children : x.children[k] = ns[dir].children[k]
  <2>1. /\ Len(Append(ns[dir].children, len + 1)) = Len(ns[dir].children) + 1
        /\ Len(ns[dir].children) \in Nat
        /\ DOMAIN ns[dir].children = 1..Len(ns[dir].children)
        /\ DOMAIN Append(ns[dir].children, len + 1) = 1..(Len(ns[dir].children) + 1)
    BY <1>1
  <2>2. Append(ns[dir].children, len + 1)[Len(ns[dir].children) + 1] = len + 1
    BY <1>1
  <2>3. \A k \in 1..Len(ns[dir].children) :
           Append(ns[dir].children, len + 1)[k] = ns[dir].children[k]
    BY <1>1
  <2> QED
    BY <1>3, <2>1, <2>2, <2>3
<1>11. \A n, k, m : Entry(ms, n, k, m) <=>
                      Entry(ns, n, k, m) \/ (n = dir /\ k = Len(x.children) /\ m = len + 1)
  <2> SUFFICES ASSUME NEW n, NEW k, NEW m
               PROVE  Entry(ms, n, k, m) <=>
                        Entry(ns, n, k, m) \/ (n = dir /\ k = Len(x.children) /\ m = len + 1)
    OBVIOUS
  <2>1. CASE n = dir
    BY <2>1, <1>1, <1>6, <1>9, <1>10 DEF Entry
  <2>2. CASE n = len + 1
    <3>1. n \notin DOMAIN ns /\ node.children = <<>>
      BY <2>2, <1>1 DEF Fresh
    <3> QED
      BY <2>2, <3>1, <1>6, <1>9 DEF Entry
  <2>3. CASE n # dir /\ n # len + 1
    BY <2>3, <1>1, <1>6, <1>8, <1>9 DEF Entry
  <2> QED
    BY <2>1, <2>2, <2>3
<1>12. TreeOK(ms)
  <2>1. \A n, k, m : Entry(ns, n, k, m) => m \in 2..len
    BY DEF TreeOK, len
  <2>2. \A n, k, m : Entry(ms, n, k, m) => m \in 2..Len(ms)
    BY <2>1, <1>1, <1>6, <1>11
  <2>3. \A n, k : ~Entry(ns, n, k, len + 1)
    BY <2>1, <1>1
  <2>4. \A n, k, m, o, l : Entry(ns, n, k, m) /\ Entry(ns, o, l, m) => n = o /\ k = l
    BY DEF TreeOK
  <2>5. \A n, k, m, o, l : Entry(ms, n, k, m) /\ Entry(ms, o, l, m) => n = o /\ k = l
    BY <2>3, <2>4, <1>11
  <2>6. \A m \in 2..Len(ms) : \E n, k : Entry(ms, n, k, m)
    <3>1. \A m \in 2..Len(ms) : m \in 2..len \/ m = len + 1
      BY <1>1, <1>6
    <3>2. \A m \in 2..len : \E n, k : Entry(ns, n, k, m)
      BY DEF TreeOK, len
    <3> QED
      BY <3>1, <3>2, <1>11
  <2>7. \A n \in DOMAIN ms :
           ms[n].type = "Directory" => ms[n].size = 0 /\ ms[n].ops = "ramfs"
    BY <1>1, <1>3, <1>8 DEF TreeOK, Fresh
  <2>8. \A n \in DOMAIN ms : ms[n].type = "CharDevice" => ms[n].ops # "ramfs"
    BY <1>1, <1>3, <1>8 DEF TreeOK, Fresh
  <2>9. \A n \in DOMAIN ms : Len(ms[n].children) < Len(ms)
    <3> SUFFICES ASSUME NEW n \in DOMAIN ms PROVE Len(ms[n].children) < len + 1
      BY <1>6
    <3>1. \A m \in 1..len : Len(ns[m].children) < len /\ Len(ns[m].children) \in Nat
      BY <1>1, NodeFacts DEF TreeOK, len
    <3>2. CASE n = dir
      BY <3>1, <3>2, <1>1, <1>9, <1>10
    <3>3. CASE n = len + 1
      <4>1. Len(ms[n].children) = 0
        BY <3>3, <1>6 DEF Fresh
      <4> QED
        BY <4>1, <1>1
    <3>4. CASE n # dir /\ n # len + 1
      BY <3>1, <3>4, <1>1, <1>8
    <3> QED
      BY <3>2, <3>3, <3>4
  <2> QED
    BY <2>2, <2>5, <2>6, <2>7, <2>8, <2>9 DEF TreeOK
<1>13. FramesOK(ms, free)
  <2>1. \A n, p, f : Holds(ms, n, p, f) <=> Holds(ns, n, p, f)
    <3> SUFFICES ASSUME NEW n, NEW p, NEW f
                 PROVE  Holds(ms, n, p, f) <=> Holds(ns, n, p, f)
      OBVIOUS
    <3>1. CASE n = dir
      BY <3>1, <1>1, <1>3, <1>6, <1>9 DEF Holds
    <3>2. CASE n = len + 1
      <4>1. n \notin DOMAIN ns /\ node.vmo = <<>>
        BY <3>2, <1>1 DEF Fresh
      <4> QED
        BY <3>2, <4>1, <1>6, <1>9 DEF Holds
    <3>3. CASE n # dir /\ n # len + 1
      BY <3>3, <1>1, <1>6, <1>8, <1>9 DEF Holds
    <3> QED
      BY <3>1, <3>2, <3>3
  <2> QED
    BY <2>1 DEF FramesOK
<1>14. Extends(ms, ns)
  <2>1. ASSUME NEW n \in DOMAIN ns
        PROVE  /\ ms[n].type = ns[n].type /\ ms[n].ops = ns[n].ops
               /\ Len(ns[n].children) <= Len(ms[n].children)
               /\ \A k \in DOMAIN ns[n].children : ms[n].children[k] = ns[n].children[k]
    <3>1. Len(ns[n].children) \in Nat /\ n \in 1..len
      BY <1>1, NodeFacts
    <3>2. CASE n = dir
      BY <3>1, <3>2, <1>3, <1>9, <1>10
    <3>3. CASE n # dir
      BY <3>1, <3>3, <1>9
    <3> QED
      BY <3>2, <3>3
  <2> QED
    BY <2>1, <1>1, <1>6 DEF Extends, len
<1>15. Grown(ms, ns, node)
  <2>1. ASSUME NEW n \in DOMAIN ns
        PROVE  ms[n].vmo = ns[n].vmo /\ ms[n].size = ns[n].size
    <3>1. CASE n = dir
      BY <3>1, <1>3, <1>9
    <3>2. CASE n # dir
      BY <3>2, <1>1, <1>9
    <3> QED
      BY <3>1, <3>2
  <2> QED
    BY <2>1, <1>6 DEF Grown, len
<1> QED
  BY <1>6, <1>7, <1>12, <1>13, <1>14, <1>15 DEF len

-----------------------------------------------------------------------------
(* What an operator of RamFs answers: a sound file system that has all the *)
(* old one had, and an error or a vnode.                                   *)
IsVnode(F, n) == n \in Int /\ (n < 0 \/ n \in DOMAIN F.nodes)
Answer(F, r) ==
    FsOK(r.fs) /\ Extends(r.fs.nodes, F.nodes) /\ IsVnode(r.fs, r.val)

(* The parts of an answer.                                                 *)
LEMMA OkParts ==
    ASSUME NEW F, NEW v
    PROVE  Ok(F, v).fs = F /\ Ok(F, v).val = v
BY DEF Ok

(* An operator that fails and changes nothing answers.                     *)
LEMMA AnswerSame ==
    ASSUME NEW F, FsOK(F), NEW v, IsVnode(F, v)
    PROVE  Answer(F, Ok(F, v))
<1>1. F.nodes \in Seq(Nodes)
  BY DEF FsOK, FsTypes
<1>2. Len(F.nodes) \in Nat /\ \A n \in DOMAIN F.nodes : Len(F.nodes[n].children) \in Nat
  BY <1>1, NodeFacts
<1>3. Extends(F.nodes, F.nodes)
  BY <1>2 DEF Extends
<1> QED
  BY <1>3, OkParts DEF Answer

(* The error codes are negative.                                           *)
LEMMA Errors ==
    ASSUME NEW F
    PROVE  /\ IsVnode(F, EPERM) /\ IsVnode(F, ENOENT) /\ IsVnode(F, ENOMEM)
           /\ IsVnode(F, EEXIST) /\ IsVnode(F, ENOTDIR)
BY DEF IsVnode, EPERM, ENOENT, ENOMEM, EEXIST, ENOTDIR

(* A new entry, or ENOMEM; there is room as long as MaxNodes is not        *)
(* reached.                                                                *)
LEMMA InsertChildOK ==
    ASSUME NEW F, FsOK(F), NEW dir \in DOMAIN F.nodes, NEW node, Fresh(node)
    PROVE  /\ Answer(F, InsertChild(F, dir, node))
           /\ Len(InsertChild(F, dir, node).fs.nodes) <= Len(F.nodes) + 1
           /\ Len(F.nodes) < MaxNodes => InsertChild(F, dir, node).val > 0
<1>1. /\ FsTypes(F) /\ TreeOK(F.nodes) /\ FramesOK(F.nodes, F.free)
      /\ F.nodes \in Seq(Nodes) /\ Len(F.nodes) > 0 /\ Len(F.nodes) <= MaxNodes
      /\ F.free \subseteq Frames /\ MaxNodes \in Nat
  BY RamFsAssumption DEF FsOK, FsTypes
<1>2. Len(F.nodes) \in Nat
  BY <1>1
<1>3. CASE Len(F.nodes) = MaxNodes
  <2>1. InsertChild(F, dir, node) = Ok(F, ENOMEM)
    BY <1>1, <1>3, InsertChildIs
  <2>2. Answer(F, Ok(F, ENOMEM))
    BY Errors, AnswerSame
  <2> QED
    BY <1>1, <1>2, <1>3, <2>1, <2>2, OkParts
<1>4. CASE Len(F.nodes) # MaxNodes
  <2> DEFINE ns == Linked(F.nodes, dir, node)
             G == [nodes |-> ns, mem |-> F.mem, free |-> F.free]
  <2>1. InsertChild(F, dir, node) = Ok(G, Len(F.nodes) + 1)
    BY <1>1, <1>4, InsertChildIs
  <2>2. /\ ns \in Seq(Nodes) /\ Len(ns) = Len(F.nodes) + 1
        /\ TreeOK(ns) /\ FramesOK(ns, F.free) /\ Extends(ns, F.nodes)
    BY <1>1, LinkedOK
  <2>3. G.nodes = ns /\ G.mem = F.mem /\ G.free = F.free
    OBVIOUS
  <2>4. G = [nodes |-> G.nodes, mem |-> G.mem, free |-> G.free]
    OBVIOUS
  <2> HIDE DEF G, ns
  <2>5. FsOK(G)
    <3>1. Len(ns) > 0 /\ Len(ns) <= MaxNodes
      BY <1>1, <1>2, <1>4, <2>2
    <3> QED
      BY <1>1, <2>2, <2>3, <2>4, <3>1 DEF FsOK, FsTypes
  <2>6. IsVnode(G, Len(F.nodes) + 1)
    BY <1>2, <2>2, <2>3 DEF IsVnode
  <2>7. Answer(F, Ok(G, Len(F.nodes) + 1))
    BY <2>2, <2>3, <2>5, <2>6, OkParts DEF Answer
  <2> QED
    BY <1>2, <2>1, <2>2, <2>3, <2>7, OkParts
<1> QED
  BY <1>3, <1>4

(* What InsertChild leaves alone.                                          *)
LEMMA InsertChildKeeps ==
    ASSUME NEW F, FsOK(F), NEW dir \in DOMAIN F.nodes, NEW node, Fresh(node)
    PROVE  /\ InsertChild(F, dir, node).fs.mem = F.mem
           /\ \/ InsertChild(F, dir, node).fs = F
              \/ Grown(InsertChild(F, dir, node).fs.nodes, F.nodes, node)
<1>1. /\ FsTypes(F) /\ TreeOK(F.nodes) /\ FramesOK(F.nodes, F.free)
      /\ F.nodes \in Seq(Nodes) /\ Len(F.nodes) > 0
  BY DEF FsOK, FsTypes
<1>2. CASE Len(F.nodes) = MaxNodes
  <2>1. InsertChild(F, dir, node) = Ok(F, ENOMEM)
    BY <1>1, <1>2, InsertChildIs
  <2> QED
    BY <2>1, OkParts
<1>3. CASE Len(F.nodes) # MaxNodes
  <2> DEFINE ns == Linked(F.nodes, dir, node)
             G == [nodes |-> ns, mem |-> F.mem, free |-> F.free]
  <2>1. InsertChild(F, dir, node) = Ok(G, Len(F.nodes) + 1)
    BY <1>1, <1>3, InsertChildIs
  <2>2. Grown(ns, F.nodes, node)
    BY <1>1, LinkedOK
  <2>3. G.nodes = ns /\ G.mem = F.mem
    OBVIOUS
  <2> HIDE DEF G
  <2> QED
    BY <2>1, <2>2, <2>3, OkParts
<1> QED
  BY <1>2, <1>3

(* A file system without files, as start_kernel leaves it.                 *)
NoFiles(F) == \A n : ~IsFile(F, n)

(* A file system without files of its own keeps so when a node of another  *)
(* kind is added.                                                          *)
LEMMA InsertNoFiles ==
    ASSUME NEW F, FsOK(F), NEW dir \in DOMAIN F.nodes, NEW node, Fresh(node),
           node.type # "Regular" \/ node.ops # "ramfs", NoFiles(F)
    PROVE  NoFiles(InsertChild(F, dir, node).fs)
<1> DEFINE G == InsertChild(F, dir, node).fs
<1>1. Extends(G.nodes, F.nodes) /\ G.nodes \in Seq(Nodes) /\ F.nodes \in Seq(Nodes)
  BY InsertChildOK DEF Answer, FsOK, FsTypes
<1>2. G = F \/ Grown(G.nodes, F.nodes, node)
  BY InsertChildKeeps
<1> HIDE DEF G
<1>3. ASSUME NEW n, IsFile(G, n) PROVE FALSE
  <2>1. CASE n \in DOMAIN F.nodes
    <3>1. G.nodes[n].type = F.nodes[n].type /\ G.nodes[n].ops = F.nodes[n].ops
      BY <1>1, <2>1 DEF Extends
    <3> QED
      BY <1>3, <2>1, <3>1 DEF IsFile, NoFiles
  <2>2. CASE n \notin DOMAIN F.nodes
    <3>1. n \in DOMAIN G.nodes
      BY <1>3 DEF IsFile
    <3>2. Grown(G.nodes, F.nodes, node)
      BY <1>2, <2>2, <3>1
    <3>3. n = Len(F.nodes) + 1 /\ G.nodes[n] = node
      BY <1>1, <2>2, <3>1, <3>2 DEF Grown
    <3> QED
      BY <1>3, <3>3 DEF IsFile
  <2> QED
    BY <2>1, <2>2
<1>4. NoFiles(G)
  BY <1>3 DEF NoFiles
<1> QED
  BY <1>4 DEF G

(* The first child of a name is one of the vnodes.                         *)
LEMMA FirstNamedOK ==
    ASSUME NEW F, FsOK(F), NEW dir \in DOMAIN F.nodes, NEW name, Named(F, dir, name) # {}
    PROVE  FirstNamed(F, dir, name) \in DOMAIN F.nodes
<1> DEFINE N == Named(F, dir, name)
<1>1. F.nodes \in Seq(Nodes) /\ TreeOK(F.nodes)
  BY DEF FsOK, FsTypes
<1>2. DOMAIN F.nodes[dir].children \subseteq Nat /\ DOMAIN F.nodes = 1..Len(F.nodes)
      /\ Len(F.nodes) \in Nat
  BY <1>1, NodeFacts
<1>3. N \subseteq DOMAIN F.nodes[dir].children
  BY DEF Named
<1> HIDE DEF N
<1>4. \E i \in N : \A j \in N : i <= j
  BY <1>2, <1>3, LeastElement DEF N
<1> DEFINE i == CHOOSE i \in N : \A j \in N : i <= j
<1>5. i \in N
  BY <1>4
<1>6. FirstNamed(F, dir, name) = F.nodes[dir].children[i]
  BY DEF FirstNamed, N
<1> HIDE DEF i
<1>7. Entry(F.nodes, dir, i, F.nodes[dir].children[i])
  BY <1>3, <1>5 DEF Entry
<1>8. F.nodes[dir].children[i] \in 2..Len(F.nodes)
  BY <1>1, <1>7 DEF TreeOK
<1> QED
  BY <1>2, <1>6, <1>8

(* Lookup, Create and Mkdir answer.                                        *)
LEMMA LookupOK ==
    ASSUME NEW F, FsOK(F), NEW dir \in DOMAIN F.nodes, NEW name
    PROVE  IsVnode(F, Lookup(F, dir, name))
<1>1. DOMAIN F.nodes \subseteq Int
  BY DEF FsOK, FsTypes
<1>2. Named(F, dir, name) # {} => IsVnode(F, FirstNamed(F, dir, name))
  BY <1>1, FirstNamedOK DEF IsVnode
<1>3. Lookup(F, dir, name) \in {ENOENT, ENOTDIR} \/
      (Named(F, dir, name) # {} /\ Lookup(F, dir, name) = FirstNamed(F, dir, name))
  BY DEF Lookup
<1> QED
  BY <1>2, <1>3, Errors

(* A new file is the last entry of its directory.                          *)
LEMMA CreateOK ==
    ASSUME NEW F, FsOK(F), NEW dir \in DOMAIN F.nodes, NEW name \in Seq(Texts)
    PROVE  Answer(F, Create(F, dir, name))
<1>1. Fresh(RamFsNode("Regular", name))
  BY ConstructorsFresh DEF Callbacks
<1>2. Answer(F, InsertChild(F, dir, RamFsNode("Regular", name)))
  BY <1>1, InsertChildOK
<1>3. /\ Answer(F, Ok(F, EPERM)) /\ Answer(F, Ok(F, ENOTDIR))
      /\ Answer(F, Ok(F, EEXIST))
  BY Errors, AnswerSame
<1>4. Create(F, dir, name) \in {Ok(F, EPERM), Ok(F, ENOTDIR), Ok(F, EEXIST),
                                InsertChild(F, dir, RamFsNode("Regular", name))}
  BY DEF Create
<1> QED
  BY <1>2, <1>3, <1>4

(* Mkdir by cases.                                                         *)
LEMMA MkdirIs ==
    ASSUME NEW F, NEW dir, NEW name
    PROVE  /\ F.nodes[dir].ops # "ramfs" => Mkdir(F, dir, name) = Ok(F, EPERM)
           /\ (F.nodes[dir].ops = "ramfs" /\ ~IsDirectory(F, dir)) =>
                 Mkdir(F, dir, name) = Ok(F, ENOTDIR)
           /\ (F.nodes[dir].ops = "ramfs" /\ IsDirectory(F, dir) /\ Named(F, dir, name) # {})
                 => Mkdir(F, dir, name) = Ok(F, FirstNamed(F, dir, name))
           /\ (F.nodes[dir].ops = "ramfs" /\ IsDirectory(F, dir) /\ Named(F, dir, name) = {})
                 => Mkdir(F, dir, name) = InsertChild(F, dir, RamFsNode("Directory", name))
BY DEF Mkdir

(* A new directory likewise; one that exists is answered.                  *)
LEMMA MkdirOK ==
    ASSUME NEW F, FsOK(F), NEW dir \in DOMAIN F.nodes, NEW name \in Seq(Texts)
    PROVE  /\ Answer(F, Mkdir(F, dir, name))
           /\ Len(Mkdir(F, dir, name).fs.nodes) <= Len(F.nodes) + 1
           /\ (Len(F.nodes) < MaxNodes /\ IsDirectory(F, dir) /\ F.nodes[dir].ops = "ramfs")
                 => Mkdir(F, dir, name).val > 0
<1>1. Fresh(RamFsNode("Directory", name))
  BY ConstructorsFresh DEF Callbacks
<1>2. /\ Answer(F, InsertChild(F, dir, RamFsNode("Directory", name)))
      /\ Len(InsertChild(F, dir, RamFsNode("Directory", name)).fs.nodes) <= Len(F.nodes) + 1
      /\ Len(F.nodes) < MaxNodes =>
            InsertChild(F, dir, RamFsNode("Directory", name)).val > 0
  BY <1>1, InsertChildOK
<1>3. DOMAIN F.nodes = 1..Len(F.nodes) /\ Len(F.nodes) \in Nat
  BY DEF FsOK, FsTypes
<1>4. Answer(F, Ok(F, EPERM)) /\ Answer(F, Ok(F, ENOTDIR))
  BY Errors, AnswerSame
<1>5. Named(F, dir, name) # {} => /\ Answer(F, Ok(F, FirstNamed(F, dir, name)))
                                  /\ FirstNamed(F, dir, name) > 0
  <2> SUFFICES ASSUME Named(F, dir, name) # {}
               PROVE  /\ Answer(F, Ok(F, FirstNamed(F, dir, name)))
                      /\ FirstNamed(F, dir, name) > 0
    OBVIOUS
  <2>1. FirstNamed(F, dir, name) \in DOMAIN F.nodes
    BY FirstNamedOK
  <2>2. IsVnode(F, FirstNamed(F, dir, name)) /\ FirstNamed(F, dir, name) > 0
    BY <1>3, <2>1 DEF IsVnode
  <2> QED
    BY <2>2, AnswerSame
<1>6. CASE ~(IsDirectory(F, dir) /\ F.nodes[dir].ops = "ramfs")
  <2>1. Mkdir(F, dir, name) \in {Ok(F, EPERM), Ok(F, ENOTDIR)}
    BY <1>6, MkdirIs
  <2> QED
    BY <1>3, <1>4, <1>6, <2>1, OkParts
<1>7. CASE IsDirectory(F, dir) /\ F.nodes[dir].ops = "ramfs" /\ Named(F, dir, name) # {}
  <2>1. Mkdir(F, dir, name) = Ok(F, FirstNamed(F, dir, name))
    BY <1>7, MkdirIs
  <2> QED
    BY <1>3, <1>5, <1>7, <2>1, OkParts
<1>8. CASE IsDirectory(F, dir) /\ F.nodes[dir].ops = "ramfs" /\ Named(F, dir, name) = {}
  <2>1. Mkdir(F, dir, name) = InsertChild(F, dir, RamFsNode("Directory", name))
    BY <1>8, MkdirIs
  <2> QED
    BY <1>2, <2>1
<1> QED
  BY <1>6, <1>7, <1>8

-----------------------------------------------------------------------------
(* A sound file system of at most k vnodes whose root is a directory and   *)
(* that has no files.                                                      *)
Rooted(F, k) ==
    FsOK(F) /\ Len(F.nodes) <= k /\ IsDirectory(F, Root) /\ NoFiles(F)

(* An operator that answers keeps the vnodes and the root.                 *)
LEMMA AnswerKeeps ==
    ASSUME NEW F, FsOK(F), NEW r, Answer(F, r)
    PROVE  /\ DOMAIN F.nodes \subseteq DOMAIN r.fs.nodes
           /\ \A n \in DOMAIN F.nodes : /\ IsDirectory(r.fs, n) <=> IsDirectory(F, n)
                                        /\ r.fs.nodes[n].ops = F.nodes[n].ops
           /\ Root \in DOMAIN F.nodes
<1>1. /\ F.nodes \in Seq(Nodes) /\ Len(F.nodes) > 0
      /\ r.fs.nodes \in Seq(Nodes) /\ Extends(r.fs.nodes, F.nodes)
  BY DEF Answer, FsOK, FsTypes
<1>2. /\ DOMAIN F.nodes = 1..Len(F.nodes) /\ DOMAIN r.fs.nodes = 1..Len(r.fs.nodes)
      /\ Len(F.nodes) \in Nat /\ Len(r.fs.nodes) \in Nat
  BY <1>1
<1>3. DOMAIN F.nodes \subseteq DOMAIN r.fs.nodes /\ Root \in DOMAIN F.nodes
  BY <1>1, <1>2 DEF Extends, Root
<1> QED
  BY <1>1, <1>3 DEF Extends, IsDirectory

(* The directories that start_kernel makes in the root, while there is     *)
(* room.                                                                   *)
LEMMA BootDirOK ==
    ASSUME NEW F, NEW k \in 1..(BootNodes - 1), Rooted(F, k), NEW name \in Texts
    PROVE  /\ Rooted(BootDir(F, name).fs, k + 1)
           /\ BootDir(F, name).val \in DOMAIN BootDir(F, name).fs.nodes
<1> DEFINE r == Mkdir(F, Root, <<name>>)
<1>1. /\ FsOK(F) /\ Len(F.nodes) <= k /\ IsDirectory(F, Root) /\ F.nodes \in Seq(Nodes)
      /\ Len(F.nodes) > 0
  BY DEF Rooted, FsOK, FsTypes
<1>2. Len(F.nodes) < MaxNodes
  BY <1>1, FileSystemAssumption, RamFsAssumption DEF BootNodes
<1>3. Root \in DOMAIN F.nodes
  BY <1>1 DEF Root
<1>4. F.nodes[Root].ops = "ramfs"
  BY <1>1, <1>3 DEF FsOK, TreeOK, IsDirectory
<1>5. <<name>> \in Seq(Texts)
  OBVIOUS
<1>6. Answer(F, r) /\ Len(r.fs.nodes) <= Len(F.nodes) + 1 /\ r.val > 0
  BY <1>1, <1>2, <1>3, <1>4, <1>5, MkdirOK
<1>7. IsDirectory(r.fs, Root)
  BY <1>1, <1>3, <1>6, AnswerKeeps
<1>8. FsOK(r.fs) /\ r.val \in DOMAIN r.fs.nodes /\ r.fs.nodes \in Seq(Nodes)
  BY <1>6 DEF Answer, IsVnode, FsOK, FsTypes
<1>9. Len(r.fs.nodes) <= k + 1
  BY <1>1, <1>6, <1>8
<1>10. r = BootDir(F, name)
  BY DEF BootDir
<1>11. NoFiles(r.fs)
  <2> DEFINE node == RamFsNode("Directory", <<name>>)
  <2>1. Fresh(node)
    BY <1>5, ConstructorsFresh DEF Callbacks
  <2>2. node.type = "Directory"
    BY DEF RamFsNode
  <2>3. NoFiles(F)
    BY DEF Rooted
  <2> HIDE DEF node
  <2>4. NoFiles(InsertChild(F, Root, node).fs)
    BY <1>1, <1>3, <2>1, <2>2, <2>3, InsertNoFiles
  <2>5. r.fs = F \/ r.fs = InsertChild(F, Root, node).fs
    BY <1>1, <1>4, MkdirIs, OkParts DEF node
  <2> QED
    BY <2>3, <2>4, <2>5
<1> QED
  BY <1>7, <1>8, <1>9, <1>10, <1>11 DEF Rooted

(* The pseudo nodes.                                                       *)
LEMMA BootNodeOK ==
    ASSUME NEW F, NEW k \in 1..(BootNodes - 1), Rooted(F, k), NEW dir \in DOMAIN F.nodes,
           NEW type \in {"CharDevice", "Regular"}, NEW name \in (Texts \cap Callbacks) \ {"ramfs"}
    PROVE  /\ Rooted(BootNode(F, dir, type, name), k + 1)
           /\ dir \in DOMAIN BootNode(F, dir, type, name).nodes
<1> DEFINE node == PseudoFsNode(type, <<name>>, name)
           r == InsertChild(F, dir, node)
<1>1. /\ FsOK(F) /\ Len(F.nodes) <= k /\ IsDirectory(F, Root) /\ F.nodes \in Seq(Nodes)
  BY DEF Rooted, FsOK, FsTypes
<1>2. <<name>> \in Seq(Texts) /\ type # "Directory"
  OBVIOUS
<1>3. Fresh(node)
  BY <1>2, ConstructorsFresh
<1> HIDE DEF node
<1>4. Answer(F, r) /\ Len(r.fs.nodes) <= Len(F.nodes) + 1
  BY <1>1, <1>3, InsertChildOK
<1>5. IsDirectory(r.fs, Root) /\ dir \in DOMAIN r.fs.nodes
  BY <1>1, <1>4, AnswerKeeps
<1>6. FsOK(r.fs) /\ r.fs.nodes \in Seq(Nodes)
  BY <1>4 DEF Answer, FsOK, FsTypes
<1>7. Len(r.fs.nodes) <= k + 1
  BY <1>1, <1>4, <1>6
<1>8. r.fs = BootNode(F, dir, type, name)
  BY DEF BootNode, node
<1>9. NoFiles(r.fs)
  <2>1. node.ops = name /\ name # "ramfs"
    BY DEF node, PseudoFsNode, RamFsNode
  <2>2. NoFiles(F)
    BY DEF Rooted
  <2> QED
    BY <1>1, <1>3, <2>1, <2>2, InsertNoFiles
<1> QED
  BY <1>5, <1>6, <1>7, <1>8, <1>9 DEF Rooted

(* The tree of the root alone.                                             *)
LEMMA EmptyFsOK == Rooted(EmptyFs, 1)
<1> DEFINE root == RamFsNode("Directory", <<"", "">>)
           ns == <<root>>
<1>1. "" \in Texts /\ <<"", "">> \in Seq(Texts)
  BY DEF Texts
<1>2. "ramfs" \in Callbacks
  BY DEF Callbacks
<1>3. Fresh(root)
  BY <1>1, <1>2, ConstructorsFresh
<1>4. root.type = "Directory"
  BY DEF RamFsNode
<1> HIDE DEF root
<1>5. /\ ns \in Seq(Nodes) /\ Len(ns) = 1 /\ ns[1] = root /\ DOMAIN ns = {1}
  BY <1>3 DEF Fresh
<1> HIDE DEF ns
<1>6. EmptyFs.nodes = ns /\ EmptyFs.free = Frames
  BY DEF EmptyFs, ns, root
<1>7. TreeOK(ns)
  <2>1. \A n, k, m : ~Entry(ns, n, k, m)
    BY <1>3, <1>5 DEF Entry, Fresh
  <2>2. 2..Len(ns) = {}
    BY <1>5
  <2>3. \A n \in DOMAIN ns :
           ns[n].type = "Directory" => ns[n].size = 0 /\ ns[n].ops = "ramfs"
    BY <1>3, <1>5 DEF Fresh
  <2>4. \A n \in DOMAIN ns : Len(ns[n].children) < Len(ns)
    <3>1. Len(root.children) = 0
      BY <1>3 DEF Fresh
    <3> QED
      BY <1>5, <3>1
  <2> QED
    BY <1>4, <1>5, <2>1, <2>2, <2>3, <2>4 DEF TreeOK
<1>8. FramesOK(ns, Frames)
  <2>1. \A n, p, f : ~Holds(ns, n, p, f)
    BY <1>3, <1>5 DEF Holds, Fresh
  <2> QED
    BY <2>1 DEF FramesOK
<1>9. 1 <= MaxNodes
  BY FileSystemAssumption, RamFsAssumption DEF BootNodes
<1>10. EmptyFs.nodes \in Seq(Nodes) /\ Len(EmptyFs.nodes) = 1
  BY <1>5, <1>6, Zenon
<1>11. FsTypes(EmptyFs)
  <2>1. EmptyFs = [nodes |-> EmptyFs.nodes, mem |-> EmptyFs.mem, free |-> EmptyFs.free]
    BY DEF EmptyFs
  <2>2. Len(EmptyFs.nodes) > 0 /\ Len(EmptyFs.nodes) <= MaxNodes
    BY <1>9, <1>10
  <2>3. EmptyFs.free \subseteq Frames
    BY <1>6
  <2> QED
    BY <1>10, <2>1, <2>2, <2>3 DEF FsTypes
<1>12. IsDirectory(EmptyFs, Root)
  BY <1>4, <1>5, <1>6 DEF IsDirectory, Root
<1>13. FsOK(EmptyFs)
  BY <1>6, <1>7, <1>8, <1>11 DEF FsOK
<1>14. NoFiles(EmptyFs)
  BY <1>4, <1>5, <1>6 DEF NoFiles, IsFile
<1> QED
  BY <1>12, <1>13, <1>14, <1>10 DEF Rooted

(* The file system that the first program finds is sound and has no files. *)
LEMMA BootOK == FsOK(Boot) /\ NoFiles(Boot)
<1>1. /\ {"null", "zero", "tty", "version"} \subseteq (Texts \cap Callbacks) \ {"ramfs"}
      /\ {"dev", "proc", "sbin", "bin", "tmp", "etc"} \subseteq Texts
  BY DEF Texts, Callbacks
<1>2. 1..10 \subseteq 1..(BootNodes - 1)
  BY DEF BootNodes
<1>3. Rooted(BootDevices, 5)
  <2> DEFINE dev == BootDir(EmptyFs, "dev")
             null == BootNode(dev.fs, dev.val, "CharDevice", "null")
             zero == BootNode(null, dev.val, "CharDevice", "zero")
  <2>1. Rooted(dev.fs, 2) /\ dev.val \in DOMAIN dev.fs.nodes
    BY <1>1, <1>2, EmptyFsOK, BootDirOK
  <2> HIDE DEF dev
  <2>2. Rooted(null, 3) /\ dev.val \in DOMAIN null.nodes
    BY <1>1, <1>2, <2>1, BootNodeOK
  <2> HIDE DEF null
  <2>3. Rooted(zero, 4) /\ dev.val \in DOMAIN zero.nodes
    BY <1>1, <1>2, <2>2, BootNodeOK
  <2> HIDE DEF zero
  <2>4. Rooted(BootNode(zero, dev.val, "CharDevice", "tty"), 5)
    BY <1>1, <1>2, <2>3, BootNodeOK
  <2> QED
    BY <2>4 DEF BootDevices, dev, null, zero
<1>4. Rooted(BootProc, 7)
  <2> DEFINE proc == BootDir(BootDevices, "proc")
  <2>1. Rooted(proc.fs, 6) /\ proc.val \in DOMAIN proc.fs.nodes
    BY <1>1, <1>2, <1>3, BootDirOK
  <2> HIDE DEF proc
  <2>2. Rooted(BootNode(proc.fs, proc.val, "Regular", "version"), 7)
    BY <1>1, <1>2, <2>1, BootNodeOK
  <2> QED
    BY <2>2 DEF BootProc, proc
<1> DEFINE sbin == BootDir(BootProc, "sbin").fs
           bin == BootDir(sbin, "bin").fs
           tmp == BootDir(bin, "tmp").fs
<1>5. Rooted(sbin, 8)
  BY <1>1, <1>2, <1>4, BootDirOK
<1> HIDE DEF sbin
<1>6. Rooted(bin, 9)
  BY <1>1, <1>2, <1>5, BootDirOK
<1> HIDE DEF bin
<1>7. Rooted(tmp, 10)
  BY <1>1, <1>2, <1>6, BootDirOK
<1> HIDE DEF tmp
<1>8. Rooted(BootDir(tmp, "etc").fs, 11)
  BY <1>1, <1>2, <1>7, BootDirOK
<1>9. Boot = BootDir(tmp, "etc").fs
  BY DEF Boot, sbin, bin, tmp
<1> QED
  BY <1>8, <1>9 DEF Rooted

-----------------------------------------------------------------------------
(* The path walk is what its recursion says, component by component.       *)
LEMMA WalkIs ==
    ASSUME NEW F, NEW path, Len(path) \in Nat
    PROVE  Walk(F, path) = [i \in 0..Len(path) |->
               IF i = 0 THEN Root ELSE WalkStep(F, Walk(F, path)[i - 1], path[i])]
<1> DEFINE Rec(g, n) ==
      g = [i \in 0..n |-> IF i = 0 THEN Root ELSE WalkStep(F, g[i - 1], path[i])]
           B == {n \in Nat : ~ \E g : Rec(g, n)}
<1>1. Rec([i \in 0..0 |-> Root], 0)
  OBVIOUS
<1>2. ASSUME NEW n \in Nat, NEW g, Rec(g, n)
      PROVE  \E h : Rec(h, n + 1)
  <2> DEFINE h == [i \in 0..(n + 1) |->
                      IF i = n + 1 THEN WalkStep(F, g[n], path[n + 1]) ELSE g[i]]
  <2>1. \A i \in 0..n : h[i] = g[i]
    OBVIOUS
  <2>2. ASSUME NEW i \in 0..(n + 1)
        PROVE  h[i] = IF i = 0 THEN Root ELSE WalkStep(F, h[i - 1], path[i])
    <3>1. CASE i = n + 1
      <4>1. i - 1 = n /\ n \in 0..n /\ i # 0
        BY <3>1
      <4>2. h[i - 1] = g[n]
        BY <2>1, <4>1
      <4> HIDE DEF h
      <4>3. h[i] = WalkStep(F, g[n], path[n + 1])
        BY <3>1 DEF h
      <4> QED
        BY <3>1, <4>1, <4>2, <4>3
    <3>2. CASE i = 0
      BY <1>2, <3>2
    <3>3. CASE i # 0 /\ i # n + 1
      <4>1. i \in 0..n /\ i - 1 \in 0..n
        BY <3>3
      <4>2. h[i] = g[i] /\ h[i - 1] = g[i - 1]
        BY <2>1, <4>1
      <4>3. g[i] = WalkStep(F, g[i - 1], path[i])
        BY <1>2, <3>3, <4>1
      <4> QED
        BY <3>3, <4>2, <4>3
    <3> QED
      BY <3>1, <3>2, <3>3
  <2>3. Rec(h, n + 1)
    <3>1. h = [i \in 0..(n + 1) |-> h[i]]
      OBVIOUS
    <3> HIDE DEF h
    <3> QED
      BY <2>2, <3>1
  <2> QED
    BY <2>3
<1> HIDE DEF Rec
<1>3. B = {}
  <2> SUFFICES ASSUME B # {} PROVE FALSE
    OBVIOUS
  <2>1. PICK n \in B : \A m \in B : n <= m
    BY LeastElement
  <2>2. n \in Nat /\ n # 0
    BY <1>1
  <2>3. n - 1 \in Nat /\ n - 1 \notin B
    BY <2>1, <2>2
  <2>4. PICK g : Rec(g, n - 1)
    BY <2>3
  <2>5. \E h : Rec(h, (n - 1) + 1)
    BY <1>2, <2>3, <2>4
  <2>6. (n - 1) + 1 = n
    BY <2>2
  <2> QED
    BY <2>5, <2>6
<1>4. \E g : Rec(g, Len(path))
  BY <1>3
<1>5. Walk(F, path) = CHOOSE g : Rec(g, Len(path))
  BY DEF Walk, Rec
<1>6. Rec(Walk(F, path), Len(path))
  BY <1>4, <1>5
<1> QED
  BY <1>6 DEF Rec

(* One component of a path leads from a vnode to a vnode, or to an error.  *)
LEMMA WalkStepOK ==
    ASSUME NEW F, FsOK(F), NEW cur, IsVnode(F, cur), NEW component
    PROVE  IsVnode(F, WalkStep(F, cur, component))
<1>1. CASE cur < 0 \/ component \in {"", "."}
  BY <1>1 DEF WalkStep
<1>2. CASE ~(cur < 0 \/ component \in {"", "."})
  <2>1. cur \in DOMAIN F.nodes
    BY <1>2 DEF IsVnode
  <2>2. IsVnode(F, Lookup(F, cur, <<component>>))
    BY <2>1, LookupOK
  <2>3. \/ WalkStep(F, cur, component) = ENOTDIR
        \/ WalkStep(F, cur, component) = Lookup(F, cur, <<component>>)
    BY <1>2 DEF WalkStep
  <2> QED
    BY <2>2, <2>3, Errors
<1> QED
  BY <1>1, <1>2

(* A path leads to a vnode or to an error.                                 *)
LEMMA PathToVnodeOK ==
    ASSUME NEW F, FsOK(F), NEW path, Len(path) \in Nat
    PROVE  IsVnode(F, PathToVnode(F, path))
<1> DEFINE W == Walk(F, path)
           B == {i \in 0..Len(path) : ~IsVnode(F, W[i])}
<1>1. W = [i \in 0..Len(path) |->
              IF i = 0 THEN Root ELSE WalkStep(F, W[i - 1], path[i])]
  BY WalkIs
<1> HIDE DEF W
<1>2. /\ W[0] = Root
      /\ \A i \in 1..Len(path) : W[i] = WalkStep(F, W[i - 1], path[i])
  BY <1>1
<1>3. IsVnode(F, Root)
  BY DEF IsVnode, Root, FsOK, FsTypes
<1>4. B = {}
  <2> SUFFICES ASSUME B # {} PROVE FALSE
    OBVIOUS
  <2>1. B \subseteq Nat
    OBVIOUS
  <2>2. PICK i \in B : \A j \in B : i <= j
    BY <2>1, LeastElement
  <2>3. i \in 1..Len(path)
    BY <1>2, <1>3
  <2>4. i - 1 \in 0..Len(path) /\ i - 1 \notin B
    BY <2>2, <2>3
  <2>5. IsVnode(F, W[i - 1])
    BY <2>4
  <2>6. IsVnode(F, W[i])
    BY <1>2, <2>3, <2>5, WalkStepOK
  <2> QED
    BY <2>6
<1>5. IsVnode(F, W[Len(path)])
  BY <1>4
<1> QED
  BY <1>5 DEF PathToVnode, W

-----------------------------------------------------------------------------
(* The parts of a path are paths.                                          *)
LEMMA PathParts ==
    ASSUME NEW path \in Seq(Texts), path # <<>>
    PROVE  Front(path) \in Seq(Texts) /\ <<Last(path)>> \in Seq(Texts)
<1>1. Len(path) \in Nat /\ Len(path) > 0
  OBVIOUS
<1>2. Len(path) - 1 \in Nat /\ 1 \in Nat
  BY <1>1
<1>3. \A i \in 1..(Len(path) - 1) : path[i] \in Texts
  BY <1>1
<1>4. SubSeq(path, 1, Len(path) - 1) \in Seq(Texts)
  BY <1>1, <1>2, <1>3
<1>5. path[Len(path)] \in Texts
  BY <1>1
<1> QED
  BY <1>4, <1>5 DEF Front, Last

(* open: what it finds or makes is a vnode of a sound file system.         *)
LEMMA CreateAtOK ==
    ASSUME NEW F, FsOK(F), NEW path \in Seq(Texts), path # <<>>
    PROVE  Answer(F, CreateAt(F, path))
<1>1. Root \in DOMAIN F.nodes
  BY DEF Root, FsOK, FsTypes
<1>2. CASE Len(path) = 1 \/ (Len(path) = 2 /\ path[1] = "")
  BY <1>1, <1>2, CreateOK DEF CreateAt
<1>3. CASE ~(Len(path) = 1 \/ (Len(path) = 2 /\ path[1] = ""))
  <2> DEFINE parent == PathToVnode(F, Front(path))
             name == <<Last(path)>>
  <2>1. Front(path) \in Seq(Texts) /\ name \in Seq(Texts)
    BY PathParts
  <2>2. Len(Front(path)) \in Nat /\ name \in Seq(Texts)
    BY <2>1
  <2>3. IsVnode(F, parent)
    BY <2>2, PathToVnodeOK
  <2> HIDE DEF parent, name
  <2>4. CreateAt(F, path) = IF parent < 0 THEN Ok(F, parent) ELSE Create(F, parent, name)
    BY <1>3 DEF CreateAt, parent, name
  <2>5. CASE parent < 0
    BY <2>3, <2>4, <2>5, AnswerSame
  <2>6. CASE ~(parent < 0)
    <3>1. parent \in DOMAIN F.nodes
      BY <2>3, <2>6 DEF IsVnode
    <3> QED
      BY <2>2, <2>4, <2>6, <3>1, CreateOK
  <2> QED
    BY <2>5, <2>6
<1> QED
  BY <1>2, <1>3

(* Truncation changes a size only.                                         *)
LEMMA ResizeOK ==
    ASSUME NEW F, FsOK(F), NEW n \in DOMAIN F.nodes, NEW size \in 0..MaxSize,
           IsDirectory(F, n) => size = 0
    PROVE  /\ FsOK([F EXCEPT !.nodes[n].size = size])
           /\ Extends([F EXCEPT !.nodes[n].size = size].nodes, F.nodes)
           /\ DOMAIN [F EXCEPT !.nodes[n].size = size].nodes = DOMAIN F.nodes
<1> DEFINE x == [F.nodes[n] EXCEPT !.size = size]
           ns == [F.nodes EXCEPT ![n] = x]
           G == [F EXCEPT !.nodes[n].size = size]
<1>1. /\ FsTypes(F) /\ F.nodes \in Seq(Nodes) /\ TreeOK(F.nodes)
      /\ FramesOK(F.nodes, F.free) /\ F.free \subseteq Frames
      /\ F = [nodes |-> F.nodes, mem |-> F.mem, free |-> F.free]
      /\ Len(F.nodes) > 0 /\ Len(F.nodes) <= MaxNodes
  BY DEF FsOK, FsTypes
<1>2. F.nodes[n] \in Nodes
  BY <1>1
<1>3. /\ x \in Nodes /\ x.type = F.nodes[n].type /\ x.ops = F.nodes[n].ops
      /\ x.children = F.nodes[n].children /\ x.vmo = F.nodes[n].vmo
      /\ x.size = size
  BY <1>2 DEF Nodes
<1>4. x.type = "Directory" => x.size = 0
  BY <1>3 DEF IsDirectory
<1>5. G = [nodes |-> ns, mem |-> F.mem, free |-> F.free]
  <2>1. G = [F EXCEPT !.nodes = ns]
    OBVIOUS
  <2> HIDE DEF ns, G
  <2> QED
    BY <1>1, <2>1
<1> HIDE DEF x, G
<1>6. ns \in Seq(Nodes) /\ Len(ns) = Len(F.nodes) /\ TreeOK(ns) /\ Extends(ns, F.nodes)
  BY <1>1, <1>3, <1>4, SameTree
<1>7. DOMAIN ns = DOMAIN F.nodes /\ \A m \in DOMAIN F.nodes : ns[m].vmo = F.nodes[m].vmo
  BY <1>3
<1> HIDE DEF ns
<1>8. FramesOK(ns, F.free)
  <2>1. \A m, p, f : Holds(ns, m, p, f) <=> Holds(F.nodes, m, p, f)
    BY <1>7 DEF Holds
  <2> QED
    BY <1>1, <2>1 DEF FramesOK
<1>9. G.nodes = ns /\ G.free = F.free /\ G.mem = F.mem
  BY <1>5
<1>10. G = [nodes |-> G.nodes, mem |-> G.mem, free |-> G.free]
  BY <1>5, <1>9
<1>11. Len(G.nodes) > 0 /\ Len(G.nodes) <= MaxNodes
  BY <1>1, <1>6, <1>9
<1>12. FsOK(G)
  BY <1>1, <1>6, <1>8, <1>9, <1>10, <1>11 DEF FsOK, FsTypes
<1> QED
  BY <1>6, <1>7, <1>9, <1>12 DEF G

(* open: the vnode that a path names, truncated or made on request.        *)
LEMMA OpenTargetOK ==
    ASSUME NEW F, FsOK(F), NEW path \in Seq(Texts), path # <<>>, NEW flags
    PROVE  Answer(F, OpenTarget(F, path, flags))
<1> DEFINE found == PathToVnode(F, path)
           G == [F EXCEPT !.nodes[found].size = 0]
<1>1. IsVnode(F, found)
  BY PathToVnodeOK
<1>2. 0 \in 0..MaxSize
  BY FileSystemAssumption
<1> HIDE DEF found
<1>3. found > 0 => found \in DOMAIN F.nodes
  BY <1>1 DEF IsVnode
<1>4. found > 0 => Answer(F, Ok(G, found))
  <2> SUFFICES ASSUME found > 0 PROVE Answer(F, Ok(G, found))
    OBVIOUS
  <2>1. FsOK(G) /\ Extends(G.nodes, F.nodes) /\ DOMAIN G.nodes = DOMAIN F.nodes
    BY <1>2, <1>3, ResizeOK
  <2> HIDE DEF G
  <2>2. IsVnode(G, found)
    BY <1>1, <1>3, <2>1 DEF IsVnode
  <2> QED
    BY <2>1, <2>2, OkParts DEF Answer
<1> HIDE DEF G
<1>5. Answer(F, Ok(F, found))
  BY <1>1, AnswerSame
<1>6. Answer(F, CreateAt(F, path))
  BY CreateAtOK
<1>7. OpenTarget(F, path, flags) =
        IF found > 0 THEN Ok(IF "O_TRUNC" \in flags THEN G ELSE F, found)
        ELSE IF "O_CREAT" \in flags THEN CreateAt(F, path) ELSE Ok(F, found)
  BY DEF OpenTarget, found, G
<1> QED
  BY <1>4, <1>5, <1>6, <1>7

-----------------------------------------------------------------------------
(* A file gets frames that were free for pages it did not have: the tree   *)
(* and every other page stay, and no frame is lost or shared.              *)
LEMMA StoreOK ==
    ASSUME NEW F, FsOK(F), NEW n \in DOMAIN F.nodes, NEW data, NEW offset,
           NEW pages \in SUBSET Int, pages \cap DOMAIN F.nodes[n].vmo = {},
           NEW new \in Allocations(F, pages)
    PROVE  /\ FsOK(Store(F, n, data, offset, new))
           /\ Extends(Store(F, n, data, offset, new).nodes, F.nodes)
<1> DEFINE old == F.nodes[n].vmo
           vmo == [p \in (DOMAIN old) \cup (DOMAIN new) |->
                      IF p \in DOMAIN new THEN new[p] ELSE old[p]]
           x == [F.nodes[n] EXCEPT !.vmo = vmo]
           ns == [F.nodes EXCEPT ![n] = x]
           taken == {new[p] : p \in DOMAIN new}
           G == Store(F, n, data, offset, new)
<1>1. /\ F.nodes \in Seq(Nodes) /\ TreeOK(F.nodes) /\ FramesOK(F.nodes, F.free)
      /\ F.free \subseteq Frames /\ Len(F.nodes) > 0 /\ Len(F.nodes) <= MaxNodes
  BY DEF FsOK, FsTypes
<1>2. F.nodes[n] \in Nodes
  BY <1>1
<1>3. DOMAIN new = pages /\ \A p \in pages : new[p] \in F.free
  BY DEF Allocations
<1>4. \A p, q \in pages : new[p] = new[q] => p = q
  BY DEF Allocations
<1>5. PICK P \in SUBSET Int : old \in [P -> Frames]
  BY <1>2 DEF Nodes, Vmos
<1>6. vmo \in [P \cup pages -> Frames]
  BY <1>1, <1>3, <1>5
<1>7. vmo \in Vmos
  <2>1. P \cup pages \in SUBSET Int
    BY <1>5
  <2> HIDE DEF vmo
  <2> QED
    BY <1>6, <2>1 DEF Vmos
<1>8. /\ \A p \in DOMAIN old : vmo[p] = old[p]
      /\ \A p \in pages : vmo[p] = new[p]
      /\ DOMAIN vmo = (DOMAIN old) \cup pages
  BY <1>3
<1> HIDE DEF vmo
<1>9. /\ x \in Nodes /\ x.type = F.nodes[n].type /\ x.ops = F.nodes[n].ops
      /\ x.children = F.nodes[n].children /\ x.vmo = vmo /\ x.size = F.nodes[n].size
  BY <1>2, <1>7 DEF Nodes
<1>10. G.nodes = ns /\ G.free = F.free \ taken
  BY DEF Store, vmo
<1>11. G = [nodes |-> G.nodes, mem |-> G.mem, free |-> G.free]
  BY DEF Store
<1> HIDE DEF x, G
<1>12. x.type = "Directory" => x.size = 0
  BY <1>1, <1>9 DEF TreeOK
<1>13. ns \in Seq(Nodes) /\ Len(ns) = Len(F.nodes) /\ TreeOK(ns) /\ Extends(ns, F.nodes)
  BY <1>1, <1>9, <1>12, SameTree
<1>14. /\ DOMAIN ns = DOMAIN F.nodes /\ ns[n].vmo = vmo
       /\ \A m \in DOMAIN F.nodes : m # n => ns[m] = F.nodes[m]
  BY <1>1, <1>9
<1> HIDE DEF ns, old
<1>15. \A m, p, f : Holds(ns, m, p, f) <=>
                      Holds(F.nodes, m, p, f) \/ (m = n /\ p \in pages /\ new[p] = f)
  <2> SUFFICES ASSUME NEW m, NEW p, NEW f
               PROVE  Holds(ns, m, p, f) <=>
                        Holds(F.nodes, m, p, f) \/ (m = n /\ p \in pages /\ new[p] = f)
    OBVIOUS
  <2>1. CASE m = n
    <3>1. Holds(ns, m, p, f) <=> p \in DOMAIN vmo /\ vmo[p] = f
      BY <1>14, <2>1 DEF Holds
    <3>2. Holds(F.nodes, m, p, f) <=> p \in DOMAIN old /\ old[p] = f
      BY <2>1 DEF Holds, old
    <3> QED
      BY <1>8, <2>1, <3>1, <3>2
  <2>2. CASE m # n
    BY <1>14, <2>2 DEF Holds
  <2> QED
    BY <2>1, <2>2
<1>16. FramesOK(ns, F.free \ taken)
  <2>1. \A m, p, f : Holds(F.nodes, m, p, f) => f \in Frames \ F.free
    BY <1>1 DEF FramesOK
  <2>2. \A p \in pages : new[p] \in F.free /\ new[p] \in Frames /\ new[p] \in taken
    BY <1>1, <1>3
  <2> HIDE DEF taken
  <2>3. \A m, p, f : Holds(ns, m, p, f) => f \in Frames \ (F.free \ taken)
    <3>1. ASSUME NEW m, NEW p, NEW f, Holds(ns, m, p, f)
          PROVE  f \in Frames \ (F.free \ taken)
      <4>1. CASE Holds(F.nodes, m, p, f)
        BY <2>1, <4>1
      <4>2. CASE m = n /\ p \in pages /\ new[p] = f
        BY <2>2, <4>2
      <4> QED
        BY <1>15, <3>1, <4>1, <4>2
    <3> QED
      BY <3>1
  <2>4. \A f \in Frames \ (F.free \ taken) : \E m, p : Holds(ns, m, p, f)
    <3> SUFFICES ASSUME NEW f \in Frames \ (F.free \ taken)
                 PROVE  \E m, p : Holds(ns, m, p, f)
      OBVIOUS
    <3>1. CASE f \in taken
      <4>1. PICK p \in pages : new[p] = f
        BY <1>3, <3>1 DEF taken
      <4> QED
        BY <1>15, <4>1
    <3>2. CASE f \notin taken
      <4>1. \E m, p : Holds(F.nodes, m, p, f)
        BY <1>1, <3>2 DEF FramesOK
      <4> QED
        BY <1>15, <4>1
    <3> QED
      BY <3>1, <3>2
  <2>5. ASSUME NEW m, NEW p, NEW l, NEW q, NEW f, Holds(ns, m, p, f), Holds(ns, l, q, f)
        PROVE  m = l /\ p = q
    <3>1. CASE f \in F.free
      <4>1. m = n /\ p \in pages /\ new[p] = f /\ l = n /\ q \in pages /\ new[q] = f
        BY <1>15, <2>1, <2>5, <3>1
      <4> QED
        BY <1>4, <4>1
    <3>2. CASE f \notin F.free
      <4>1. Holds(F.nodes, m, p, f) /\ Holds(F.nodes, l, q, f)
        BY <1>15, <2>2, <2>5, <3>2
      <4> QED
        BY <1>1, <4>1 DEF FramesOK
    <3> QED
      BY <3>1, <3>2
  <2>6. \A m, p, l, q, f : Holds(ns, m, p, f) /\ Holds(ns, l, q, f) => m = l /\ p = q
    BY <2>5, Zenon
  <2> QED
    BY <2>3, <2>4, <2>6, Zenon DEF FramesOK
<1>17. Len(G.nodes) > 0 /\ Len(G.nodes) <= MaxNodes /\ G.free \subseteq Frames
  BY <1>1, <1>10, <1>13
<1> HIDE DEF taken
<1>18. FsOK(G)
  BY <1>10, <1>11, <1>13, <1>16, <1>17 DEF FsOK, FsTypes
<1> QED
  BY <1>10, <1>13, <1>18 DEF G

(* What VnodeOps::Write may answer: a sound file system, and an error or   *)
(* the length of the data.                                                 *)
WriteAnswer(F, data, r) ==
    FsOK(r.fs) /\ Extends(r.fs.nodes, F.nodes) /\ r.val \in Int
    /\ (r.val < 0 \/ r.val = Len(data))

(* A write stores all of its data or stops at the first page that gets no  *)
(* frame.                                                                  *)
LEMMA RamFsWriteOK ==
    ASSUME NEW F, FsOK(F), NEW n \in DOMAIN F.nodes, ~IsDirectory(F, n),
           NEW data, Len(data) \in Nat, NEW offset \in Nat, offset + Len(data) <= MaxSize,
           NEW r \in RamFsWrite(F, n, data, offset)
    PROVE  WriteAnswer(F, data, r)
<1> DEFINE absent == Absent(F, n, data, offset)
           pages == Granted(F, absent)
           copied == Copied(F, n, data, offset)
           part == SubSeq(data, 1, copied)
<1>1. absent \subseteq Int /\ absent \cap DOMAIN F.nodes[n].vmo = {}
  <2>1. PageSize \in Nat \ {0}
    BY RamFsAssumption
  <2>2. \A i \in Bytes(Len(data)) : Page(offset + i - 1) \in Int
    BY <2>1 DEF Bytes, Page
  <2> QED
    BY <2>2 DEF Absent
<1>2. pages \subseteq absent
  BY DEF Granted
<1> HIDE DEF absent
<1>3. pages \in SUBSET Int /\ pages \cap DOMAIN F.nodes[n].vmo = {}
  BY <1>1, <1>2
<1>4. PICK new \in Allocations(F, pages) : r = WriteOutcome(F, n, data, offset, new)
  BY DEF RamFsWrite, absent
<1> HIDE DEF pages, copied, part
<1> DEFINE G == Store(F, n, part, offset, new)
<1>5. FsOK(G) /\ Extends(G.nodes, F.nodes)
  BY <1>3, <1>4, StoreOK
<1> HIDE DEF G
<1>6. /\ G.nodes \in Seq(Nodes) /\ F.nodes \in Seq(Nodes)
      /\ DOMAIN F.nodes \subseteq DOMAIN G.nodes
      /\ IsDirectory(G, n) <=> IsDirectory(F, n)
  <2>1. G.nodes \in Seq(Nodes) /\ F.nodes \in Seq(Nodes)
    BY <1>5 DEF FsOK, FsTypes
  <2>2. Len(F.nodes) <= Len(G.nodes) /\ Len(F.nodes) \in Nat /\ Len(G.nodes) \in Nat
        /\ DOMAIN F.nodes = 1..Len(F.nodes) /\ DOMAIN G.nodes = 1..Len(G.nodes)
    BY <1>5, <2>1 DEF Extends
  <2>3. DOMAIN F.nodes \subseteq DOMAIN G.nodes
    BY <2>2
  <2> QED
    BY <1>5, <2>1, <2>3 DEF Extends, IsDirectory
<1>7. CASE copied = Len(data)
  <2> DEFINE size == offset + Len(data)
             H == GrowTo(G, n, size)
  <2>1. r = Ok(H, copied)
    BY <1>4, <1>7 DEF WriteOutcome, copied, G, part
  <2>2. size \in 0..MaxSize
    BY FileSystemAssumption
  <2> HIDE DEF size
  <2>3. n \in DOMAIN G.nodes /\ ~IsDirectory(G, n)
    BY <1>6
  <2> DEFINE K == [G EXCEPT !.nodes[n].size = size]
  <2>4. FsOK(K) /\ Extends(K.nodes, G.nodes)
    BY <1>5, <2>2, <2>3, ResizeOK
  <2>5. H = K \/ H = G
    BY DEF GrowTo
  <2> HIDE DEF H, K
  <2>6. Extends(K.nodes, F.nodes)
    <3>1. K.nodes \in Seq(Nodes)
      BY <2>4 DEF FsOK, FsTypes
    <3> QED
      BY <1>5, <1>6, <2>4, <3>1, ExtendsTwice
  <2>7. FsOK(H) /\ Extends(H.nodes, F.nodes)
    BY <1>5, <2>4, <2>5, <2>6
  <2> QED
    BY <1>7, <2>1, <2>7, OkParts DEF WriteAnswer
<1>8. CASE copied # Len(data)
  <2>1. r = Ok(G, ENOMEM)
    BY <1>4, <1>8 DEF WriteOutcome, copied, G, part
  <2>2. ENOMEM \in Int /\ ENOMEM < 0
    BY DEF ENOMEM
  <2> QED
    BY <1>5, <2>1, <2>2, OkParts DEF WriteAnswer
<1> QED
  BY <1>7, <1>8

(* A write to a vnode of any kind.                                         *)
LEMMA VnodeWriteOK ==
    ASSUME NEW F, FsOK(F), NEW n \in DOMAIN F.nodes,
           NEW data, Len(data) \in Nat, NEW offset \in Nat,
           IsFile(F, n) => offset + Len(data) <= MaxSize,
           NEW r \in VnodeWrite(F, n, data, offset)
    PROVE  WriteAnswer(F, data, r) /\ (IsDirectory(F, n) => r.val < 0)
<1>1. /\ F.nodes[n].type \in {"Directory", "Regular", "CharDevice"}
      /\ F.nodes[n].ops \in Callbacks
      /\ F.nodes[n].type = "Directory" => F.nodes[n].ops = "ramfs"
      /\ F.nodes[n].type = "CharDevice" => F.nodes[n].ops # "ramfs"
  <2>1. F.nodes[n] \in Nodes
    BY DEF FsOK, FsTypes
  <2>2. /\ F.nodes[n].type = "Directory" => F.nodes[n].ops = "ramfs"
        /\ F.nodes[n].type = "CharDevice" => F.nodes[n].ops # "ramfs"
    BY DEF FsOK, TreeOK
  <2> QED
    BY <2>1, <2>2 DEF Nodes
<1>2. ASSUME NEW v \in Int, v < 0 \/ v = Len(data), r = Ok(F, v)
      PROVE  WriteAnswer(F, data, r)
  <2>1. Extends(F.nodes, F.nodes)
    <3>1. F.nodes \in Seq(Nodes)
      BY DEF FsOK, FsTypes
    <3>2. Len(F.nodes) \in Nat /\ \A m \in DOMAIN F.nodes : Len(F.nodes[m].children) \in Nat
      BY <3>1, NodeFacts
    <3> QED
      BY <3>2 DEF Extends
  <2> QED
    BY <1>2, <2>1, OkParts DEF WriteAnswer
<1>3. /\ EPERM \in Int /\ EPERM < 0 /\ EISDIR \in Int /\ EISDIR < 0 /\ Len(data) \in Int
  BY DEF EPERM, EISDIR
<1>4. CASE F.nodes[n].ops \in {"null", "zero", "tty", "stdout"}
  <2>1. r = Ok(F, Len(data)) /\ ~IsDirectory(F, n)
    BY <1>1, <1>4 DEF VnodeWrite, IsDirectory
  <2> QED
    BY <1>2, <1>3, <2>1
<1>5. CASE F.nodes[n].ops = "version"
  <2>1. r = Ok(F, EPERM) /\ ~IsDirectory(F, n)
    BY <1>1, <1>5 DEF VnodeWrite, IsDirectory
  <2> QED
    BY <1>2, <1>3, <2>1
<1>6. CASE F.nodes[n].ops = "ramfs" /\ IsDirectory(F, n)
  <2>1. r = Ok(F, EISDIR)
    BY <1>6 DEF VnodeWrite
  <2> QED
    BY <1>2, <1>3, <2>1, OkParts
<1>7. CASE F.nodes[n].ops = "ramfs" /\ ~IsDirectory(F, n)
  <2>1. r \in RamFsWrite(F, n, data, offset)
    BY <1>7 DEF VnodeWrite
  <2>2. offset + Len(data) <= MaxSize
    BY <1>1, <1>7 DEF IsFile, IsDirectory
  <2> QED
    BY <1>7, <2>1, <2>2, RamFsWriteOK
<1> QED
  BY <1>1, <1>4, <1>5, <1>6, <1>7 DEF Callbacks

-----------------------------------------------------------------------------
(* Machine words.                                                          *)
LEMMA Words ==
    /\ Modulus \in Nat /\ Modulus > 0 /\ MaxSize \in Nat /\ MaxSize < Modulus
    /\ \A a \in Int : a % Modulus \in 0..(Modulus - 1)
    /\ \A a \in 0..MaxSize : a % Modulus = a
<1>1. Modulus \in Nat /\ MaxSize \in Nat /\ MaxSize < Modulus \div 2
  BY RamFsAssumption, FileSystemAssumption
<1>2. Modulus > 0 /\ MaxSize < Modulus
  <2>1. ASSUME NEW m \in Nat, NEW s \in Nat, s < m \div 2
        PROVE  m > 0 /\ s < m
    BY <2>1
  <2> QED
    BY <1>1, <2>1
<1>3. ASSUME NEW m \in Nat, m > 0, NEW a \in Int
      PROVE  a % m \in 0..(m - 1) /\ (a \in 0..(m - 1) => a % m = a)
  BY <1>3
<1>4. \A a \in Int : a % Modulus \in 0..(Modulus - 1)
  BY <1>1, <1>2, <1>3
<1>5. \A a \in 0..MaxSize : a \in Int /\ a \in 0..(Modulus - 1)
  BY <1>1, <1>2
<1>6. \A a \in 0..MaxSize : a % Modulus = a
  BY <1>1, <1>2, <1>3, <1>5
<1> QED
  BY <1>1, <1>2, <1>4, <1>6

(* One buffer of writev.                                                   *)
LEMMA WriteBufferOK ==
    ASSUME NEW acc, FsOK(acc.fs), NEW n \in DOMAIN acc.fs.nodes,
           acc.offset \in 0..(Modulus - 1), NEW data, Len(data) \in Nat,
           IsFile(acc.fs, n) /\ ~acc.failed => acc.offset + Len(data) <= MaxSize,
           NEW w \in WriteBuffer(n, acc, data)
    PROVE  /\ FsOK(w.fs) /\ Extends(w.fs.nodes, acc.fs.nodes)
           /\ w.offset \in 0..(Modulus - 1)
           /\ IsDirectory(acc.fs, n) => w.offset = acc.offset
           /\ IsFile(acc.fs, n) /\ ~w.failed =>
                 ~acc.failed /\ w.offset = acc.offset + Len(data)
<1>1. CASE acc.failed
  <2>1. w = acc
    BY <1>1 DEF WriteBuffer
  <2>2. Extends(acc.fs.nodes, acc.fs.nodes)
    <3>1. acc.fs.nodes \in Seq(Nodes)
      BY DEF FsOK, FsTypes
    <3>2. /\ Len(acc.fs.nodes) \in Nat
          /\ \A m \in DOMAIN acc.fs.nodes : Len(acc.fs.nodes[m].children) \in Nat
      BY <3>1, NodeFacts
    <3> QED
      BY <3>2 DEF Extends
  <2> QED
    BY <1>1, <2>1, <2>2
<1>2. CASE ~acc.failed
  <2>1. PICK r \in VnodeWrite(acc.fs, n, data, acc.offset) :
          w = [fs |-> r.fs, failed |-> r.val < 0,
               offset |-> IF r.val < 0 THEN acc.offset
                          ELSE (acc.offset + r.val) % Modulus,
               straight |-> acc.straight /\ InPlace(acc.fs, n, data, acc.offset)]
    BY <1>2 DEF WriteBuffer
  <2>2. /\ w.fs = r.fs /\ (w.failed <=> r.val < 0)
        /\ w.offset = IF r.val < 0 THEN acc.offset ELSE (acc.offset + r.val) % Modulus
    BY <2>1
  <2>3. acc.offset \in Nat /\ (IsFile(acc.fs, n) => acc.offset + Len(data) <= MaxSize)
    BY <1>2
  <2>4. WriteAnswer(acc.fs, data, r) /\ (IsDirectory(acc.fs, n) => r.val < 0)
    BY <2>3, VnodeWriteOK
  <2>5. /\ FsOK(r.fs) /\ Extends(r.fs.nodes, acc.fs.nodes) /\ r.val \in Int
        /\ r.val < 0 \/ r.val = Len(data)
    BY <2>4 DEF WriteAnswer
  <2>6. CASE r.val < 0
    BY <2>2, <2>5, <2>6
  <2>7. CASE ~(r.val < 0)
    <3>1. w.offset = (acc.offset + Len(data)) % Modulus /\ acc.offset + Len(data) \in Nat
      BY <2>2, <2>3, <2>5, <2>7
    <3>2. w.offset \in 0..(Modulus - 1)
      BY <3>1, Words
    <3>3. IsFile(acc.fs, n) => w.offset = acc.offset + Len(data)
      <4> SUFFICES ASSUME IsFile(acc.fs, n) PROVE w.offset = acc.offset + Len(data)
        OBVIOUS
      <4>1. acc.offset + Len(data) \in 0..MaxSize
        BY <2>3, <3>1, Words
      <4> QED
        BY <3>1, <4>1, Words
    <3> QED
      BY <1>2, <2>2, <2>4, <2>5, <2>7, <3>2, <3>3
  <2> QED
    BY <2>6, <2>7
<1> QED
  BY <1>1, <1>2

(* The positions that a transfer reaches are what their recursion says.    *)
LEMMA ReachedIs ==
    ASSUME NEW buffers, Len(buffers) \in Nat, NEW offset
    PROVE  /\ Reached(buffers, offset)[0] = offset
           /\ \A k \in 1..Len(buffers) :
                 Reached(buffers, offset)[k]
                   = Reached(buffers, offset)[k - 1] + Len(buffers[k])
<1> DEFINE Rec(g, m) ==
      g = [k \in 0..m |-> IF k = 0 THEN offset ELSE g[k - 1] + Len(buffers[k])]
           B == {m \in Nat : ~ \E g : Rec(g, m)}
<1>1. Rec([k \in 0..0 |-> offset], 0)
  OBVIOUS
<1>2. ASSUME NEW m \in Nat, NEW g, Rec(g, m)
      PROVE  \E h : Rec(h, m + 1)
  <2> DEFINE h == [k \in 0..(m + 1) |->
                      IF k = m + 1 THEN g[m] + Len(buffers[m + 1]) ELSE g[k]]
  <2>1. \A k \in 0..m : h[k] = g[k]
    OBVIOUS
  <2>2. ASSUME NEW k \in 0..(m + 1)
        PROVE  h[k] = IF k = 0 THEN offset ELSE h[k - 1] + Len(buffers[k])
    <3>1. CASE k = m + 1
      <4>1. k - 1 = m /\ m \in 0..m /\ k # 0
        BY <3>1
      <4>2. h[k - 1] = g[m]
        BY <2>1, <4>1
      <4> HIDE DEF h
      <4>3. h[k] = g[m] + Len(buffers[m + 1])
        BY <3>1 DEF h
      <4> QED
        BY <3>1, <4>1, <4>2, <4>3
    <3>2. CASE k = 0
      BY <1>2, <3>2
    <3>3. CASE k # 0 /\ k # m + 1
      <4>1. k \in 0..m /\ k - 1 \in 0..m
        BY <3>3
      <4>2. h[k] = g[k] /\ h[k - 1] = g[k - 1]
        BY <2>1, <4>1
      <4>3. g[k] = g[k - 1] + Len(buffers[k])
        BY <1>2, <3>3, <4>1
      <4> QED
        BY <3>3, <4>2, <4>3
    <3> QED
      BY <3>1, <3>2, <3>3
  <2>3. Rec(h, m + 1)
    <3>1. h = [k \in 0..(m + 1) |-> h[k]]
      OBVIOUS
    <3> HIDE DEF h
    <3> QED
      BY <2>2, <3>1
  <2> QED
    BY <2>3
<1> HIDE DEF Rec
<1>3. B = {}
  <2> SUFFICES ASSUME B # {} PROVE FALSE
    OBVIOUS
  <2>1. PICK m \in B : \A j \in B : m <= j
    BY LeastElement
  <2>2. m \in Nat /\ m # 0
    BY <1>1
  <2>3. m - 1 \in Nat /\ m - 1 \notin B
    BY <2>1, <2>2
  <2>4. PICK g : Rec(g, m - 1)
    BY <2>3
  <2>5. \E h : Rec(h, (m - 1) + 1)
    BY <1>2, <2>3, <2>4
  <2>6. (m - 1) + 1 = m
    BY <2>2
  <2> QED
    BY <2>5, <2>6
<1>4. \E g : Rec(g, Len(buffers))
  BY <1>3
<1>5. Reached(buffers, offset) = CHOOSE g : Rec(g, Len(buffers))
  BY DEF Reached, Rec
<1>6. Rec(Reached(buffers, offset), Len(buffers))
  BY <1>4, <1>5
<1> QED
  BY <1>6 DEF Rec

(* The outcomes of writev buffer by buffer.                                *)
Outcomes(n, buffers, offset, accs) ==
    /\ WriteBuffers(n, buffers, offset) = accs[Len(buffers)]
    /\ accs[0] = {Started(offset)}
    /\ \A k \in 1..Len(buffers) :
          accs[k] = IF buffers[k] = <<>> THEN accs[k - 1]
                    ELSE UNION {WriteBuffer(n, acc, buffers[k]) : acc \in accs[k - 1]}

(* They exist, the recursion of WriteBuffers being well founded.           *)
LEMMA WriteBuffersIs ==
    ASSUME NEW n, NEW buffers, Len(buffers) \in Nat, NEW offset
    PROVE  \E accs : Outcomes(n, buffers, offset, accs)
<1> DEFINE Start == {Started(offset)}
           Step(S, k) == IF buffers[k] = <<>> THEN S
                         ELSE UNION {WriteBuffer(n, acc, buffers[k]) : acc \in S}
<1> HIDE DEF Start, Step
<1> DEFINE Rec(g, m) ==
      g = [k \in 0..m |-> IF k = 0 THEN Start ELSE Step(g[k - 1], k)]
           B == {m \in Nat : ~ \E g : Rec(g, m)}
<1>1. Rec([k \in 0..0 |-> Start], 0)
  OBVIOUS
<1>2. ASSUME NEW m \in Nat, NEW g, Rec(g, m)
      PROVE  \E h : Rec(h, m + 1)
  <2> DEFINE h == [k \in 0..(m + 1) |->
                      IF k = m + 1 THEN Step(g[m], m + 1) ELSE g[k]]
  <2>1. \A k \in 0..m : h[k] = g[k]
    OBVIOUS
  <2>2. ASSUME NEW k \in 0..(m + 1)
        PROVE  h[k] = IF k = 0 THEN Start ELSE Step(h[k - 1], k)
    <3>1. CASE k = m + 1
      <4>1. k - 1 = m /\ m \in 0..m /\ k # 0
        BY <3>1
      <4>2. h[k - 1] = g[m]
        BY <2>1, <4>1
      <4> HIDE DEF h
      <4>3. h[k] = Step(g[m], m + 1)
        BY <3>1 DEF h
      <4> QED
        BY <3>1, <4>1, <4>2, <4>3
    <3>2. CASE k = 0
      BY <1>2, <3>2
    <3>3. CASE k # 0 /\ k # m + 1
      <4>1. k \in 0..m /\ k - 1 \in 0..m
        BY <3>3
      <4>2. h[k] = g[k] /\ h[k - 1] = g[k - 1]
        BY <2>1, <4>1
      <4>3. g[k] = Step(g[k - 1], k)
        BY <1>2, <3>3, <4>1
      <4> QED
        BY <3>3, <4>2, <4>3
    <3> QED
      BY <3>1, <3>2, <3>3
  <2>3. Rec(h, m + 1)
    <3>1. h = [k \in 0..(m + 1) |-> h[k]]
      OBVIOUS
    <3> HIDE DEF h
    <3> QED
      BY <2>2, <3>1
  <2> QED
    BY <2>3
<1> HIDE DEF Rec
<1>3. B = {}
  <2> SUFFICES ASSUME B # {} PROVE FALSE
    OBVIOUS
  <2>1. PICK m \in B : \A j \in B : m <= j
    BY LeastElement
  <2>2. m \in Nat /\ m # 0
    BY <1>1
  <2>3. m - 1 \in Nat /\ m - 1 \notin B
    BY <2>1, <2>2
  <2>4. PICK g : Rec(g, m - 1)
    BY <2>3
  <2>5. \E h : Rec(h, (m - 1) + 1)
    BY <1>2, <2>3, <2>4
  <2>6. (m - 1) + 1 = m
    BY <2>2
  <2> QED
    BY <2>5, <2>6
<1>4. \E g : Rec(g, Len(buffers))
  BY <1>3
<1> DEFINE A == CHOOSE g : Rec(g, Len(buffers))
<1>5. WriteBuffers(n, buffers, offset) = A[Len(buffers)]
  BY DEF WriteBuffers, Rec, Start, Step
<1>6. Rec(A, Len(buffers))
  BY <1>4
<1> HIDE DEF A
<1>7. A = [k \in 0..Len(buffers) |-> IF k = 0 THEN Start ELSE Step(A[k - 1], k)]
  BY <1>6 DEF Rec
<1>8. A[0] = Start /\ \A k \in 1..Len(buffers) : A[k] = Step(A[k - 1], k)
  BY <1>7
<1>9. Outcomes(n, buffers, offset, A)
  BY <1>5, <1>8 DEF Start, Step, Outcomes
<1> QED
  BY <1>9

(* An extended file system has the vnodes of the old one, of the same      *)
(* kinds.                                                                  *)
LEMMA ExtendsKeeps ==
    ASSUME NEW F, FsOK(F), NEW G, FsOK(G), Extends(G.nodes, F.nodes)
    PROVE  /\ DOMAIN F.nodes \subseteq DOMAIN G.nodes
           /\ \A n \in DOMAIN F.nodes : /\ IsDirectory(G, n) <=> IsDirectory(F, n)
                                        /\ IsFile(G, n) <=> IsFile(F, n)
<1>1. F.nodes \in Seq(Nodes) /\ G.nodes \in Seq(Nodes)
  BY DEF FsOK, FsTypes
<1>2. /\ DOMAIN F.nodes = 1..Len(F.nodes) /\ DOMAIN G.nodes = 1..Len(G.nodes)
      /\ Len(F.nodes) \in Nat /\ Len(G.nodes) \in Nat
  BY <1>1
<1>3. DOMAIN F.nodes \subseteq DOMAIN G.nodes
  BY <1>2 DEF Extends
<1>4. ASSUME NEW n \in DOMAIN F.nodes
      PROVE  /\ IsDirectory(G, n) <=> IsDirectory(F, n)
             /\ IsFile(G, n) <=> IsFile(F, n)
  <2>1. G.nodes[n].type = F.nodes[n].type /\ G.nodes[n].ops = F.nodes[n].ops
    BY DEF Extends
  <2> QED
    BY <1>3, <2>1 DEF IsDirectory, IsFile
<1> QED
  BY <1>3, <1>4

(* writev: however many of its buffers it stores, the file system is sound *)
(* and the position a machine word; a directory's position stays.          *)
LEMMA WriteBuffersOK ==
    ASSUME FsOK(fs), NEW n \in DOMAIN fs.nodes, NEW buffers \in Seq(Seq(Nat)),
           NEW offset \in 0..(Modulus - 1),
           IsFile(fs, n) =>
               \A k \in 0..Len(buffers) : Reached(buffers, offset)[k] <= MaxSize,
           NEW w \in WriteBuffers(n, buffers, offset)
    PROVE  /\ FsOK(w.fs) /\ Extends(w.fs.nodes, fs.nodes)
           /\ w.offset \in 0..(Modulus - 1)
           /\ IsDirectory(fs, n) => w.offset = offset
<1> DEFINE R == Reached(buffers, offset)
           len == Len(buffers)
           Good(acc, k) ==
               /\ FsOK(acc.fs) /\ Extends(acc.fs.nodes, fs.nodes)
               /\ acc.offset \in 0..(Modulus - 1)
               /\ IsDirectory(fs, n) => acc.offset = offset
               /\ IsFile(fs, n) /\ ~acc.failed => acc.offset = R[k]
<1>1. len \in Nat /\ \A k \in 1..len : Len(buffers[k]) \in Nat
  <2>1. Len(buffers) \in Nat /\ \A k \in 1..Len(buffers) : buffers[k] \in Seq(Nat)
    OBVIOUS
  <2>2. \A k \in 1..Len(buffers) : Len(buffers[k]) \in Nat
    BY <2>1
  <2> QED
    BY <2>1, <2>2
<1>2. R[0] = offset /\ \A k \in 1..len : R[k] = R[k - 1] + Len(buffers[k])
  BY <1>1, ReachedIs
<1>3. PICK accs : Outcomes(n, buffers, offset, accs)
  BY <1>1, WriteBuffersIs
<1>4. /\ WriteBuffers(n, buffers, offset) = accs[len]
      /\ accs[0] = {Started(offset)}
  BY <1>3 DEF Outcomes
<1>5. ASSUME NEW k \in 1..len, NEW v \in accs[k]
      PROVE  \/ buffers[k] = <<>> /\ v \in accs[k - 1]
             \/ \E acc \in accs[k - 1] : v \in WriteBuffer(n, acc, buffers[k])
  <2>1. accs[k] = IF buffers[k] = <<>> THEN accs[k - 1]
                  ELSE UNION {WriteBuffer(n, acc, buffers[k]) : acc \in accs[k - 1]}
    BY <1>3, Zenon DEF Outcomes
  <2> QED
    BY <2>1
<1>6. IsFile(fs, n) => \A k \in 0..len : R[k] <= MaxSize
  OBVIOUS
<1> HIDE DEF R, len
<1>7. \A acc \in accs[0] : Good(acc, 0)
  <2> SUFFICES ASSUME NEW acc \in accs[0] PROVE Good(acc, 0)
    OBVIOUS
  <2>1. acc = [fs |-> fs, failed |-> FALSE, offset |-> offset, straight |-> TRUE]
    BY <1>4 DEF Started
  <2>2. acc.fs = fs /\ acc.offset = offset
    BY <2>1
  <2>3. Extends(fs.nodes, fs.nodes)
    <3>1. fs.nodes \in Seq(Nodes)
      BY DEF FsOK, FsTypes
    <3>2. Len(fs.nodes) \in Nat /\ \A m \in DOMAIN fs.nodes : Len(fs.nodes[m].children) \in Nat
      BY <3>1, NodeFacts
    <3> QED
      BY <3>2 DEF Extends
  <2> QED
    BY <1>2, <2>2, <2>3
<1>8. ASSUME NEW k \in 1..len, NEW acc, Good(acc, k - 1), NEW v \in WriteBuffer(n, acc, buffers[k])
      PROVE  Good(v, k)
  <2>1. /\ n \in DOMAIN acc.fs.nodes
        /\ IsDirectory(acc.fs, n) <=> IsDirectory(fs, n)
        /\ IsFile(acc.fs, n) <=> IsFile(fs, n)
    BY <1>8, ExtendsKeeps
  <2>2. Len(buffers[k]) \in Nat /\ R[k] = R[k - 1] + Len(buffers[k]) /\ k \in 0..len
    BY <1>1, <1>2
  <2>3. IsFile(acc.fs, n) /\ ~acc.failed => acc.offset + Len(buffers[k]) <= MaxSize
    BY <1>6, <1>8, <2>1, <2>2
  <2>4. /\ FsOK(v.fs) /\ Extends(v.fs.nodes, acc.fs.nodes)
        /\ v.offset \in 0..(Modulus - 1)
        /\ IsDirectory(acc.fs, n) => v.offset = acc.offset
        /\ IsFile(acc.fs, n) /\ ~v.failed =>
              ~acc.failed /\ v.offset = acc.offset + Len(buffers[k])
    BY <1>8, <2>1, <2>2, <2>3, WriteBufferOK
  <2>5. Extends(v.fs.nodes, fs.nodes)
    <3>1. /\ fs.nodes \in Seq(Nodes) /\ acc.fs.nodes \in Seq(Nodes)
          /\ v.fs.nodes \in Seq(Nodes)
      BY <1>8, <2>4 DEF FsOK, FsTypes
    <3> QED
      BY <1>8, <2>4, <3>1, ExtendsTwice
  <2> QED
    BY <1>8, <2>1, <2>2, <2>4, <2>5
<1> HIDE DEF Good
<1> DEFINE B == {k \in 0..len : \E acc \in accs[k] : ~Good(acc, k)}
<1>9. B = {}
  <2> SUFFICES ASSUME B # {} PROVE FALSE
    OBVIOUS
  <2>1. B \subseteq Nat
    BY <1>1
  <2>2. PICK k \in B : \A j \in B : k <= j
    BY <2>1, LeastElement
  <2>3. k \in 1..len /\ k - 1 \in 0..len
    BY <1>1, <1>7
  <2>4. k - 1 \notin B
    BY <2>2, <2>3
  <2>5. \A acc \in accs[k - 1] : Good(acc, k - 1)
    BY <2>3, <2>4
  <2>6. PICK v \in accs[k] : ~Good(v, k)
    OBVIOUS
  <2>7. CASE buffers[k] = <<>> /\ v \in accs[k - 1]
    <3>1. Good(v, k - 1) /\ R[k] = R[k - 1] + 0
      BY <1>2, <2>3, <2>5, <2>7
    <3>2. R[k] = R[k - 1] \/ ~(IsFile(fs, n) /\ ~v.failed)
      BY <3>1 DEF Good
    <3> QED
      BY <2>6, <3>1, <3>2 DEF Good
  <2>8. CASE \E acc \in accs[k - 1] : v \in WriteBuffer(n, acc, buffers[k])
    BY <1>8, <2>3, <2>5, <2>6, <2>8
  <2> QED
    BY <1>5, <2>3, <2>6, <2>7, <2>8
<1>10. Good(w, len)
  <2>1. len \in 0..len /\ w \in accs[len]
    BY <1>1, <1>4
  <2> QED
    BY <1>9, <2>1
<1> QED
  BY <1>10 DEF Good

-----------------------------------------------------------------------------
(* What a description in use is, in a file system F: it names a vnode, and *)
(* s is what has been read of a directory, up to the position.             *)
Descriptions == [vnode : Nat, offset : 0..(Modulus - 1)]
DescOK(F, x, s) ==
    /\ x.vnode \in DOMAIN F.nodes
    /\ IsDirectory(F, x.vnode) =>
          /\ x.offset <= Len(F.nodes[x.vnode].children)
          /\ s = SubSeq(F.nodes[x.vnode].children, 1, x.offset)

(* The descriptors: a description that no slot names is gone.              *)
Slots(F, table, ds, sn) ==
    /\ table \in [Fds -> Descs \cup {Closed}]
    /\ ds \in [Descs -> Descriptions] /\ sn \in [Descs -> Seq(Nat)]
    /\ \A d \in Descs : Unused(table, d) => ds[d] = NoDesc /\ sn[d] = <<>>
    /\ \A d \in Descs : ~Unused(table, d) => DescOK(F, ds[d], sn[d])

(* The inductive invariant.                                                *)
IInv == FsOK(fs) /\ Slots(fs, fds, desc, seen)

(* Reading a directory begins with nothing.                                *)
LEMMA NothingRead ==
    ASSUME NEW F, FsOK(F), NEW n \in DOMAIN F.nodes, NEW x, x.vnode = n, x.offset = 0
    PROVE  DescOK(F, x, <<>>)
<1>1. F.nodes \in Seq(Nodes)
  BY DEF FsOK, FsTypes
<1>2. F.nodes[n].children \in Seq(Nat) /\ Len(F.nodes[n].children) \in Nat
  BY <1>1, NodeFacts
<1>3. SubSeq(F.nodes[n].children, 1, 0) = <<>>
  BY <1>2
<1> QED
  BY <1>2, <1>3 DEF DescOK

(* A prefix of a list is a prefix of what extends it.                      *)
LEMMA SamePrefix ==
    ASSUME NEW s \in Seq(Nat), NEW t \in Seq(Nat), Len(s) <= Len(t),
           \A i \in DOMAIN s : t[i] = s[i], NEW k \in Nat, k <= Len(s)
    PROVE  SubSeq(t, 1, k) = SubSeq(s, 1, k)
<1>1. Len(s) \in Nat /\ Len(t) \in Nat /\ DOMAIN s = 1..Len(s)
  OBVIOUS
<1>2. SubSeq(t, 1, k) = [i \in 1..k |-> t[i]]
  BY <1>1
<1>3. SubSeq(s, 1, k) = [i \in 1..k |-> s[i]]
  BY <1>1
<1>4. \A i \in 1..k : i \in DOMAIN s
  BY <1>1
<1>5. \A i \in 1..k : t[i] = s[i]
  BY <1>4
<1> QED
  BY <1>2, <1>3, <1>5

(* What no call takes away from the file system keeps the descriptions     *)
(* sound: vnodes stay, and entries are only added behind those read.       *)
LEMMA DescExtends ==
    ASSUME NEW F, FsOK(F), NEW G, FsOK(G), Extends(G.nodes, F.nodes),
           NEW x \in Descriptions, NEW s, DescOK(F, x, s)
    PROVE  DescOK(G, x, s)
<1> DEFINE n == x.vnode
           c == F.nodes[n].children
           e == G.nodes[n].children
<1>1. F.nodes \in Seq(Nodes) /\ G.nodes \in Seq(Nodes) /\ n \in DOMAIN F.nodes
  BY DEF FsOK, FsTypes, DescOK
<1>2. n \in DOMAIN G.nodes /\ (IsDirectory(G, n) <=> IsDirectory(F, n))
  BY <1>1, ExtendsKeeps
<1>3. c \in Seq(Nat) /\ e \in Seq(Nat) /\ Len(c) \in Nat /\ Len(e) \in Nat
  BY <1>1, <1>2, NodeFacts
<1>4. Len(c) <= Len(e) /\ \A i \in DOMAIN c : e[i] = c[i]
  BY <1>1 DEF Extends
<1>5. x.offset \in Nat
  BY Words DEF Descriptions
<1> HIDE DEF c, e
<1>6. ASSUME IsDirectory(G, n)
      PROVE  x.offset <= Len(e) /\ s = SubSeq(e, 1, x.offset)
  <2>1. x.offset <= Len(c) /\ s = SubSeq(c, 1, x.offset)
    BY <1>2, <1>6 DEF DescOK, c
  <2>2. SubSeq(e, 1, x.offset) = SubSeq(c, 1, x.offset)
    BY <1>3, <1>4, <1>5, <2>1, SamePrefix
  <2> QED
    BY <1>3, <1>4, <1>5, <2>1, <2>2
<1> QED
  BY <1>2, <1>6 DEF DescOK, e

(* Initially there is the file system of start_kernel and no description.  *)
LEMMA InitIInv == Init => IInv
<1> SUFFICES ASSUME Init PROVE IInv
  OBVIOUS
<1>1. FsOK(fs)
  BY BootOK DEF Init
<1>2. NoDesc \in Descriptions
  BY Words DEF NoDesc, Descriptions
<1>3. /\ fds \in [Fds -> Descs \cup {Closed}] /\ desc \in [Descs -> Descriptions]
      /\ seen \in [Descs -> Seq(Nat)]
  BY <1>2 DEF Init, EmptyTable
<1>4. \A d \in Descs : Unused(fds, d)
  BY FileSystemAssumption DEF Init, EmptyTable, Unused, Descs
<1>5. \A d \in Descs : desc[d] = NoDesc /\ seen[d] = <<>>
  BY DEF Init
<1> QED
  BY <1>1, <1>3, <1>4, <1>5 DEF IInv, Slots

(* A description that a slot names.                                        *)
LEMMA OpenFd ==
    ASSUME IInv, NEW fd \in Fds, Open(fd)
    PROVE  /\ fds[fd] \in Descs /\ ~Unused(fds, fds[fd])
           /\ DescOK(fs, desc[fds[fd]], seen[fds[fd]])
           /\ desc[fds[fd]] \in Descriptions
BY DEF IInv, Slots, Open, GetFd, Unused

(* The table changes and descriptions go.                                  *)
LEMMA SetTableOK ==
    ASSUME IInv, FsOK(fs'), NEW table \in [Fds -> Descs \cup {Closed}],
           NEW descs \in [Descs -> Descriptions],
           \A d \in Descs : ~Unused(table, d) => DescOK(fs', descs[d], seen[d]),
           SetTable(table, descs)
    PROVE  IInv'
<1>1. NoDesc \in Descriptions
  BY Words DEF NoDesc, Descriptions
<1>2. seen \in [Descs -> Seq(Nat)]
  BY DEF IInv, Slots
<1>3. /\ fds' = table
      /\ desc' = [d \in Descs |-> IF Unused(table, d) THEN NoDesc ELSE descs[d]]
      /\ seen' = [d \in Descs |-> IF Unused(table, d) THEN <<>> ELSE seen[d]]
  BY DEF SetTable
<1>4. desc' \in [Descs -> Descriptions]
  BY <1>1, <1>3
<1>5. seen' \in [Descs -> Seq(Nat)]
  <2>1. <<>> \in Seq(Nat)
    OBVIOUS
  <2> QED
    BY <1>2, <1>3, <2>1
<1>6. \A d \in Descs : Unused(table, d) => desc'[d] = NoDesc /\ seen'[d] = <<>>
  BY <1>3
<1>7. \A d \in Descs : ~Unused(table, d) => desc'[d] = descs[d] /\ seen'[d] = seen[d]
  BY <1>3
<1>8. Slots(fs', table, desc', seen')
  BY <1>4, <1>5, <1>6, <1>7 DEF Slots
<1>9. Slots(fs', fds', desc', seen')
  BY <1>3, <1>8
<1> QED
  BY <1>9 DEF IInv

(* A call that changes the file system only adds to it.                    *)
LEMMA ExtendedOK ==
    ASSUME IInv, FsOK(fs'), Extends(fs'.nodes, fs.nodes), UNCHANGED <<fds, desc, seen>>
    PROVE  IInv'
<1>1. /\ FsOK(fs) /\ desc \in [Descs -> Descriptions]
      /\ \A d \in Descs : ~Unused(fds, d) => DescOK(fs, desc[d], seen[d])
  BY DEF IInv, Slots
<1>2. \A d \in Descs : ~Unused(fds, d) => DescOK(fs', desc[d], seen[d])
  BY <1>1, DescExtends
<1>3. Slots(fs', fds, desc, seen)
  BY <1>2 DEF IInv, Slots
<1>4. Slots(fs', fds', desc', seen')
  BY <1>3
<1> QED
  BY <1>4 DEF IInv

(* The position of one description moves, and what has been read with it.  *)
LEMMA MovedOK ==
    ASSUME IInv, FsOK(fs'), Extends(fs'.nodes, fs.nodes),
           NEW d \in Descs, ~Unused(fds, d), NEW x \in Descriptions, NEW s \in Seq(Nat),
           DescOK(fs', x, s),
           desc' = [desc EXCEPT ![d] = x], seen' = [seen EXCEPT ![d] = s], UNCHANGED fds
    PROVE  IInv'
<1>1. /\ FsOK(fs) /\ desc \in [Descs -> Descriptions] /\ seen \in [Descs -> Seq(Nat)]
      /\ fds \in [Fds -> Descs \cup {Closed}]
      /\ \A e \in Descs : Unused(fds, e) => desc[e] = NoDesc /\ seen[e] = <<>>
      /\ \A e \in Descs : ~Unused(fds, e) => DescOK(fs, desc[e], seen[e])
  BY DEF IInv, Slots
<1>2. desc' \in [Descs -> Descriptions] /\ seen' \in [Descs -> Seq(Nat)]
  BY <1>1
<1>3. /\ desc'[d] = x /\ seen'[d] = s
      /\ \A e \in Descs : e # d => desc'[e] = desc[e] /\ seen'[e] = seen[e]
  BY <1>1
<1>4. \A e \in Descs : Unused(fds, e) => desc'[e] = NoDesc /\ seen'[e] = <<>>
  BY <1>1, <1>3
<1>5. ASSUME NEW e \in Descs, ~Unused(fds, e)
      PROVE  DescOK(fs', desc'[e], seen'[e])
  <2>1. CASE e = d
    BY <1>3, <2>1
  <2>2. CASE e # d
    BY <1>1, <1>3, <1>5, <2>2, DescExtends
  <2> QED
    BY <2>1, <2>2
<1>6. Slots(fs', fds, desc', seen')
  BY <1>1, <1>2, <1>4, <1>5 DEF Slots
<1>7. Slots(fs', fds', desc', seen')
  BY <1>6
<1> QED
  BY <1>7 DEF IInv

(* A file system that does not change extends itself.                      *)
LEMMA SameExtends ==
    ASSUME IInv, UNCHANGED fs
    PROVE  FsOK(fs') /\ Extends(fs'.nodes, fs.nodes)
<1>1. FsOK(fs) /\ fs.nodes \in Seq(Nodes)
  BY DEF IInv, FsOK, FsTypes
<1>2. Len(fs.nodes) \in Nat /\ \A n \in DOMAIN fs.nodes : Len(fs.nodes[n].children) \in Nat
  BY <1>1, NodeFacts
<1>3. Extends(fs.nodes, fs.nodes)
  BY <1>2 DEF Extends
<1> QED
  BY <1>1, <1>3

-----------------------------------------------------------------------------
(* The paths that programs pass.                                           *)
LEMMA PathTexts ==
    ASSUME NEW path \in Paths
    PROVE  path \in Seq(Texts) /\ path # <<>>
<1>1. path \in Seq(STRING) /\ path # <<>>
  BY FileSystemAssumption
<1>2. \A i \in 1..Len(path) : path[i] \in STRING
  BY <1>1
<1>3. \A i \in 1..Len(path) : path[i] \in Texts
  BY <1>2 DEF Texts
<1> QED
  BY <1>1, <1>3

(* open keeps the invariant, whatever fails in it.                         *)
LEMMA OpenStep ==
    ASSUME IInv, NEW path \in Paths, NEW flags \in OpenFlags, SysOpen(path, flags)
    PROVE  IInv'
<1> DEFINE target == OpenTarget(fs, path, flags)
           n == target.val
           x == [vnode |-> n, offset |-> IF "O_APPEND" \in flags THEN target.fs.nodes[n].size
                                         ELSE 0]
<1>1. path \in Seq(Texts) /\ path # <<>>
  BY PathTexts
<1>2. FsOK(fs)
  BY DEF IInv
<1>3. Answer(fs, target)
  BY <1>1, <1>2, OpenTargetOK
<1>4. PICK d \in Descs :
        /\ Unused(fds, d)
        /\ fs' = target.fs
        /\ IF n < 0 \/ AllocateFd(fds, d) = {}
           THEN UNCHANGED <<fds, desc, seen>>
           ELSE \E table \in AllocateFd(fds, d) : SetTable(table, [desc EXCEPT ![d] = x])
  BY DEF SysOpen
<1> HIDE DEF target
<1>5. FsOK(fs') /\ Extends(fs'.nodes, fs.nodes) /\ IsVnode(fs', n)
  BY <1>3, <1>4 DEF Answer
<1>6. CASE n < 0 \/ AllocateFd(fds, d) = {}
  BY <1>4, <1>5, <1>6, ExtendedOK
<1>7. CASE ~(n < 0 \/ AllocateFd(fds, d) = {})
  <2> DEFINE descs == [desc EXCEPT ![d] = x]
  <2>1. PICK table \in AllocateFd(fds, d) : SetTable(table, descs)
    BY <1>4, <1>7
  <2>2. n \in DOMAIN fs'.nodes /\ fs'.nodes \in Seq(Nodes)
    BY <1>5, <1>7 DEF IsVnode, FsOK, FsTypes
  <2>3. fs'.nodes[n] \in Nodes
    BY <2>2
  <2>4. fs'.nodes[n].size \in 0..MaxSize /\ n \in Nat
    BY <2>2, <2>3 DEF Nodes
  <2>5. IsDirectory(fs', n) => fs'.nodes[n].size = 0
    BY <1>5, <2>2 DEF FsOK, TreeOK, IsDirectory
  <2>6. x.vnode = n /\ x.offset = IF "O_APPEND" \in flags THEN fs'.nodes[n].size ELSE 0
    BY <1>4
  <2>7. x \in Descriptions
    <3>1. x.offset \in 0..(Modulus - 1)
      BY <2>4, <2>6, Words
    <3> QED
      BY <2>4, <2>6, <3>1 DEF Descriptions
  <2> HIDE DEF x
  <2>8. DescOK(fs', x, <<>>)
    <3>1. CASE IsDirectory(fs', n)
      <4>1. x.offset = 0
        BY <2>5, <2>6, <3>1
      <4> QED
        BY <1>5, <2>2, <2>6, <4>1, NothingRead
    <3>2. CASE ~IsDirectory(fs', n)
      BY <2>2, <2>6, <3>2 DEF DescOK
    <3> QED
      BY <3>1, <3>2
  <2>9. /\ desc \in [Descs -> Descriptions] /\ fds \in [Fds -> Descs \cup {Closed}]
        /\ seen[d] = <<>>
        /\ \A e \in Descs : ~Unused(fds, e) => DescOK(fs, desc[e], seen[e])
    BY <1>4 DEF IInv, Slots
  <2>10. descs \in [Descs -> Descriptions]
    BY <2>7, <2>9
  <2>11. PICK fd \in Fds : table = [fds EXCEPT ![fd] = d]
    BY <2>1 DEF AllocateFd, FirstFreeFrom
  <2>12. table \in [Fds -> Descs \cup {Closed}]
    BY <2>9, <2>11
  <2>13. ASSUME NEW e \in Descs, ~Unused(table, e)
         PROVE  DescOK(fs', descs[e], seen[e])
    <3>1. CASE e = d
      BY <2>8, <2>9, <3>1
    <3>2. CASE e # d
      <4>1. ~Unused(fds, e)
        BY <2>9, <2>11, <2>13, <3>2 DEF Unused
      <4>2. descs[e] = desc[e]
        BY <2>9, <3>2
      <4>3. DescOK(fs', desc[e], seen[e])
        BY <1>2, <1>5, <2>9, <4>1, DescExtends
      <4> QED
        BY <4>2, <4>3
    <3> QED
      BY <3>1, <3>2
  <2> HIDE DEF descs
  <2> QED
    BY <1>5, <2>1, <2>10, <2>12, <2>13, SetTableOK
<1> QED
  BY <1>6, <1>7

(* close, dup and dup2 change the table only; no slot gets a description   *)
(* that was not in use.                                                    *)
LEMMA TableStep ==
    ASSUME IInv, NEW table \in [Fds -> Descs \cup {Closed}],
           \A fd \in Fds : table[fd] = Closed \/ \E g \in Fds : table[fd] = fds[g],
           SetTable(table, desc), UNCHANGED fs
    PROVE  IInv'
<1>1. /\ desc \in [Descs -> Descriptions]
      /\ \A e \in Descs : ~Unused(fds, e) => DescOK(fs, desc[e], seen[e])
  BY DEF IInv, Slots
<1>2. \A d \in Descs : d # Closed
  BY FileSystemAssumption DEF Descs
<1>3. \A d \in Descs : ~Unused(table, d) => ~Unused(fds, d)
  BY <1>2 DEF Unused
<1>4. \A d \in Descs : ~Unused(table, d) => DescOK(fs', desc[d], seen[d])
  BY <1>1, <1>3
<1>5. FsOK(fs')
  BY DEF IInv
<1> QED
  BY <1>1, <1>4, <1>5, SetTableOK

(* close, dup and dup2.                                                    *)
LEMMA CloseStep ==
    ASSUME IInv, NEW fd \in Fds, SysClose(fd)
    PROVE  IInv'
<1> DEFINE table == FreeFd(fds, fd)
<1>1. fds \in [Fds -> Descs \cup {Closed}] /\ SetTable(table, desc) /\ UNCHANGED fs
  BY DEF IInv, Slots, SysClose
<1>2. /\ table \in [Fds -> Descs \cup {Closed}]
      /\ \A g \in Fds : table[g] = Closed \/ table[g] = fds[g]
  BY <1>1 DEF FreeFd
<1> HIDE DEF table
<1> QED
  BY <1>1, <1>2, TableStep

(* dup and dup2 copy a slot.                                               *)
LEMMA DupStep ==
    ASSUME IInv, NEW fd \in Fds, NEW new \in Fds,
           SetTable(AllocateFdAt(fds, new, fds[fd]), desc), UNCHANGED fs
    PROVE  IInv'
<1> DEFINE table == AllocateFdAt(fds, new, fds[fd])
<1>1. fds \in [Fds -> Descs \cup {Closed}] /\ SetTable(table, desc)
  BY DEF IInv, Slots
<1>2. /\ table \in [Fds -> Descs \cup {Closed}]
      /\ \A g \in Fds : table[g] = fds[fd] \/ table[g] = fds[g]
  BY <1>1 DEF AllocateFdAt
<1> HIDE DEF table
<1> QED
  BY <1>1, <1>2, TableStep

(* A position on which a transfer or a seek may land is a machine word.    *)
LEMMA Landed ==
    ASSUME NEW pos, Landing(pos)
    PROVE  pos \in 0..(Modulus - 1)
BY Words DEF Landing

(* A description with another position.                                    *)
LEMMA Repositioned ==
    ASSUME IInv, NEW d \in Descs, NEW pos \in 0..(Modulus - 1)
    PROVE  /\ [desc[d] EXCEPT !.offset = pos] \in Descriptions
           /\ [desc[d] EXCEPT !.offset = pos].vnode = desc[d].vnode
           /\ [desc[d] EXCEPT !.offset = pos].offset = pos
           /\ [desc EXCEPT ![d].offset = pos]
                = [desc EXCEPT ![d] = [desc[d] EXCEPT !.offset = pos]]
<1>1. desc[d] \in Descriptions
  BY DEF IInv, Slots
<1> QED
  BY <1>1 DEF Descriptions

(* lseek: a directory is rewound, and reading it begins again.             *)
LEMMA LseekStep ==
    ASSUME IInv, NEW fd \in Fds, NEW off \in Seeks, NEW whence, SysLseek(fd, off, whence)
    PROVE  IInv'
<1> DEFINE d == fds[fd]
<1>1. Open(fd) /\ UNCHANGED <<fs, fds>>
  BY DEF SysLseek
<1>2. d \in Descs /\ ~Unused(fds, d) /\ DescOK(fs, desc[d], seen[d])
  BY <1>1, OpenFd
<1>3. PICK pos :
        /\ Landing(pos) /\ (IsDirectory(fs, desc[d].vnode) => pos = 0)
        /\ desc' = [desc EXCEPT ![d].offset = pos]
        /\ seen' = [seen EXCEPT ![d] = IF pos = 0 THEN <<>> ELSE @]
  BY DEF SysLseek, GetFd
<1> HIDE DEF d
<1>4. pos \in 0..(Modulus - 1)
  BY <1>3, Landed
<1> DEFINE x == [desc[d] EXCEPT !.offset = pos]
           s == IF pos = 0 THEN <<>> ELSE seen[d]
<1>5. /\ x \in Descriptions /\ x.vnode = desc[d].vnode /\ x.offset = pos
      /\ desc' = [desc EXCEPT ![d] = x]
  BY <1>2, <1>3, <1>4, Repositioned
<1>6. seen' = [seen EXCEPT ![d] = s]
  BY <1>3
<1>7. s \in Seq(Nat)
  <2>1. seen[d] \in Seq(Nat) /\ <<>> \in Seq(Nat)
    BY <1>2 DEF IInv, Slots
  <2> QED
    BY <2>1
<1> HIDE DEF x
<1>8. DescOK(fs, x, s)
  <2>1. x.vnode \in DOMAIN fs.nodes /\ FsOK(fs)
    BY <1>2, <1>5 DEF DescOK, IInv
  <2>2. CASE IsDirectory(fs, x.vnode)
    <3>1. x.offset = 0 /\ s = <<>>
      BY <1>3, <1>5, <2>2
    <3> HIDE DEF s
    <3> QED
      BY <2>1, <3>1, NothingRead
  <2>3. CASE ~IsDirectory(fs, x.vnode)
    BY <2>1, <2>3 DEF DescOK
  <2> QED
    BY <2>2, <2>3
<1> HIDE DEF s
<1>9. DescOK(fs', x, s)
  BY <1>1, <1>8
<1>10. FsOK(fs') /\ Extends(fs'.nodes, fs.nodes)
  BY <1>1, SameExtends
<1> QED
  BY <1>1, <1>2, <1>5, <1>6, <1>7, <1>9, <1>10, MovedOK

(* The position of a description that is no directory moves anywhere.      *)
LEMMA TransferStep ==
    ASSUME IInv, FsOK(fs'), Extends(fs'.nodes, fs.nodes), NEW d \in Descs, ~Unused(fds, d),
           NEW pos \in 0..(Modulus - 1),
           IsDirectory(fs, desc[d].vnode) => pos = desc[d].offset,
           desc' = [desc EXCEPT ![d].offset = pos], UNCHANGED <<fds, seen>>
    PROVE  IInv'
<1> DEFINE x == [desc[d] EXCEPT !.offset = pos]
<1>1. /\ x \in Descriptions /\ x.vnode = desc[d].vnode /\ x.offset = pos
      /\ desc' = [desc EXCEPT ![d] = x]
  BY Repositioned
<1> HIDE DEF x
<1>2. /\ seen \in [Descs -> Seq(Nat)] /\ DescOK(fs, desc[d], seen[d]) /\ FsOK(fs)
  BY DEF IInv, Slots
<1>3. DescOK(fs, x, seen[d])
  BY <1>1, <1>2 DEF DescOK
<1>4. DescOK(fs', x, seen[d])
  BY <1>1, <1>2, <1>3, DescExtends
<1>5. seen' = [seen EXCEPT ![d] = seen[d]] /\ seen[d] \in Seq(Nat)
  BY <1>2
<1> QED
  BY <1>1, <1>4, <1>5, MovedOK

(* readv moves the position of a file or a device.                         *)
LEMMA ReadvStep ==
    ASSUME IInv, NEW fd \in Fds, NEW lens, SysReadv(fd, lens)
    PROVE  IInv'
<1> DEFINE d == fds[fd]
           pos == ReadBuffers(desc[d].vnode, lens, desc[d].offset).offset
<1>1. Open(fd) /\ UNCHANGED <<fs, fds, seen>>
  BY DEF SysReadv
<1>2. d \in Descs /\ ~Unused(fds, d)
  BY <1>1, OpenFd
<1>3. /\ ReadError(fs, desc[d].vnode) = 0 /\ Landing(pos)
      /\ desc' = [desc EXCEPT ![d].offset = pos]
  BY DEF SysReadv, GetFd
<1>4. ~IsDirectory(fs, desc[d].vnode)
  BY <1>3 DEF ReadError, EISDIR
<1> HIDE DEF d, pos
<1>5. pos \in 0..(Modulus - 1)
  BY <1>3, Landed
<1>6. FsOK(fs') /\ Extends(fs'.nodes, fs.nodes)
  BY <1>1, SameExtends
<1> QED
  BY <1>1, <1>2, <1>3, <1>4, <1>5, <1>6, TransferStep

(* What the outcomes of a write have in common: a sound file system and a  *)
(* machine word for the position, which for a directory stays.             *)
SoundOutcomes(n, offset, outcomes) ==
    \A w \in outcomes : /\ FsOK(w.fs) /\ Extends(w.fs.nodes, fs.nodes)
                        /\ w.offset \in 0..(Modulus - 1)
                        /\ IsDirectory(fs, n) => w.offset = offset

(* The positions that a write to a file reaches are followed.              *)
Followed(n, buffers, offset) ==
    IsFile(fs, n) => \A k \in 0..Len(buffers) : Reached(buffers, offset)[k] <= MaxSize

(* What a description in use gives to a write.                             *)
LEMMA WriteFd ==
    ASSUME IInv, NEW fd \in Fds, Open(fd), NEW buffers, NEW outcomes,
           WriteOut(fd, buffers, outcomes)
    PROVE  /\ FsOK(fs) /\ fds[fd] \in Descs /\ ~Unused(fds, fds[fd])
           /\ desc[fds[fd]].vnode \in DOMAIN fs.nodes
           /\ desc[fds[fd]].offset \in 0..(Modulus - 1)
           /\ Followed(desc[fds[fd]].vnode, buffers, desc[fds[fd]].offset)
<1>1. /\ DescOK(fs, desc[fds[fd]], seen[fds[fd]]) /\ desc[fds[fd]] \in Descriptions
      /\ fds[fd] \in Descs /\ ~Unused(fds, fds[fd])
  BY OpenFd
<1>2. Followed(desc[fds[fd]].vnode, buffers, desc[fds[fd]].offset)
  BY DEF WriteOut, GetFd, Followed
<1> QED
  BY <1>1, <1>2 DEF IInv, DescOK, Descriptions

(* A write with sound outcomes stores something and moves the position.    *)
LEMMA WriteOutExtends ==
    ASSUME IInv, NEW fd \in Fds, Open(fd), NEW buffers, NEW outcomes,
           WriteOut(fd, buffers, outcomes),
           SoundOutcomes(desc[fds[fd]].vnode, desc[fds[fd]].offset, outcomes)
    PROVE  /\ FsOK(fs') /\ Extends(fs'.nodes, fs.nodes)
           /\ IInv'
<1> DEFINE d == fds[fd]
<1>1. PICK w \in outcomes :
        fs' = w.fs /\ desc' = [desc EXCEPT ![d].offset = w.offset]
  BY DEF WriteOut, GetFd
<1>2. UNCHANGED <<fds, seen>>
  BY DEF WriteOut
<1>3. /\ FsOK(w.fs) /\ Extends(w.fs.nodes, fs.nodes) /\ w.offset \in 0..(Modulus - 1)
      /\ IsDirectory(fs, desc[d].vnode) => w.offset = desc[d].offset
  BY <1>1 DEF SoundOutcomes
<1>4. FsOK(fs') /\ Extends(fs'.nodes, fs.nodes)
  BY <1>1, <1>3
<1>5. d \in Descs /\ ~Unused(fds, d)
  BY OpenFd
<1> HIDE DEF d
<1> QED
  BY <1>1, <1>2, <1>3, <1>4, <1>5, TransferStep

(* write: one buffer.                                                      *)
LEMMA WriteStep ==
    ASSUME IInv, NEW fd \in Fds, NEW data \in WriteData, SysWrite(fd, data)
    PROVE  FsOK(fs') /\ Extends(fs'.nodes, fs.nodes) /\ IInv'
<1> DEFINE n == desc[fds[fd]].vnode
           offset == desc[fds[fd]].offset
           outcomes == WriteBuffer(n, Started(offset), data)
<1>1. Open(fd) /\ WriteOut(fd, <<data>>, outcomes)
  BY DEF SysWrite, GetFd
<1>2. data \in Seq(Nat) /\ Len(data) \in Nat
  BY FileSystemAssumption
<1> HIDE DEF outcomes
<1>3. /\ FsOK(fs) /\ n \in DOMAIN fs.nodes /\ offset \in 0..(Modulus - 1)
      /\ Followed(n, <<data>>, offset)
  BY <1>1, WriteFd
<1> HIDE DEF n, offset
<1>4. IsFile(fs, n) => offset + Len(data) <= MaxSize
  <2> DEFINE buffers == <<data>>
  <2>1. Len(buffers) = 1 /\ buffers[1] = data
    OBVIOUS
  <2>2. Followed(n, buffers, offset)
    BY <1>3
  <2> HIDE DEF buffers
  <2>3. /\ Reached(buffers, offset)[0] = offset
        /\ \A k \in 1..1 : Reached(buffers, offset)[k]
                            = Reached(buffers, offset)[k - 1] + Len(buffers[k])
    <3>1. Len(buffers) \in Nat
      BY <2>1
    <3> QED
      BY <2>1, <3>1, ReachedIs
  <2>4. Reached(buffers, offset)[1] = Reached(buffers, offset)[0] + Len(buffers[1])
    BY <2>3
  <2> QED
    BY <2>1, <2>2, <2>3, <2>4 DEF Followed
<1>5. Started(offset).fs = fs /\ Started(offset).offset = offset
  BY DEF Started
<1>6. SoundOutcomes(n, offset, outcomes)
  <2> SUFFICES ASSUME NEW w \in outcomes
               PROVE  /\ FsOK(w.fs) /\ Extends(w.fs.nodes, fs.nodes)
                      /\ w.offset \in 0..(Modulus - 1)
                      /\ IsDirectory(fs, n) => w.offset = offset
    BY DEF SoundOutcomes
  <2> DEFINE acc == Started(offset)
  <2>1. w \in WriteBuffer(n, acc, data)
    BY DEF outcomes
  <2>2. acc.fs = fs /\ acc.offset = offset
    BY <1>5
  <2> HIDE DEF acc
  <2> QED
    BY <1>2, <1>3, <1>4, <2>1, <2>2, WriteBufferOK
<1> QED
  BY <1>1, <1>6, WriteOutExtends DEF n, offset

(* writev: any number of buffers.                                          *)
LEMMA WritevStep ==
    ASSUME IInv, NEW fd \in Fds, NEW buffers \in WritevData, SysWritev(fd, buffers)
    PROVE  FsOK(fs') /\ Extends(fs'.nodes, fs.nodes) /\ IInv'
<1> DEFINE n == desc[fds[fd]].vnode
           offset == desc[fds[fd]].offset
           outcomes == WriteBuffers(n, buffers, offset)
<1>1. Open(fd) /\ WriteOut(fd, buffers, outcomes)
  BY DEF SysWritev, GetFd
<1>2. buffers \in Seq(Seq(Nat))
  BY FileSystemAssumption
<1> HIDE DEF outcomes
<1>3. /\ FsOK(fs) /\ n \in DOMAIN fs.nodes /\ offset \in 0..(Modulus - 1)
      /\ Followed(n, buffers, offset)
  BY <1>1, WriteFd
<1> HIDE DEF n, offset
<1>4. SoundOutcomes(n, offset, outcomes)
  BY <1>2, <1>3, WriteBuffersOK DEF SoundOutcomes, Followed, outcomes
<1> QED
  BY <1>1, <1>4, WriteOutExtends DEF n, offset

(* The entries read so far and the next ones are the entries read then.    *)
LEMMA NextEntries ==
    ASSUME NEW c \in Seq(Nat), NEW k \in Nat, NEW m \in Nat, k + m <= Len(c)
    PROVE  SubSeq(c, 1, k) \o [i \in 1..m |-> c[k + i]] = SubSeq(c, 1, k + m)
<1> DEFINE a == SubSeq(c, 1, k)
           b == [i \in 1..m |-> c[k + i]]
<1>1. Len(c) \in Nat /\ k + m \in Nat /\ \A i \in 1..(k + m) : c[i] \in Nat
  OBVIOUS
<1>2. a = [i \in 1..k |-> c[i]] /\ SubSeq(c, 1, k + m) = [i \in 1..(k + m) |-> c[i]]
  BY <1>1
<1>3. a \in Seq(Nat) /\ Len(a) = k
  BY <1>1, <1>2
<1>4. b \in Seq(Nat) /\ Len(b) = m
  BY <1>1
<1>5. \A i \in 1..k : a[i] = c[i]
  BY <1>2
<1>6. \A i \in 1..m : b[i] = c[k + i]
  OBVIOUS
<1> HIDE DEF a, b
<1> DEFINE t == a \o b
<1>7. /\ t \in Seq(Nat) /\ Len(t) = k + m
      /\ \A i \in 1..k : t[i] = a[i]
      /\ \A i \in 1..m : t[k + i] = b[i]
  <2>1. /\ t \in Seq(Nat) /\ Len(t) = Len(a) + Len(b)
        /\ \A i \in 1..Len(a) : t[i] = a[i]
        /\ \A i \in 1..Len(b) : t[Len(a) + i] = b[i]
    <3>1. a \in Seq(Nat) /\ b \in Seq(Nat)
      BY <1>3, <1>4
    <3> QED
      BY <3>1
  <2> HIDE DEF t
  <2> QED
    BY <1>3, <1>4, <2>1
<1> HIDE DEF t
<1>8. \A i \in 1..(k + m) : t[i] = c[i]
  <2> SUFFICES ASSUME NEW i \in 1..(k + m) PROVE t[i] = c[i]
    OBVIOUS
  <2>1. CASE i <= k
    BY <1>5, <1>7, <2>1
  <2>2. CASE ~(i <= k)
    <3>1. i - k \in 1..m /\ k + (i - k) = i
      BY <2>2
    <3> QED
      BY <1>6, <1>7, <3>1
  <2> QED
    BY <2>1, <2>2
<1>9. t = [i \in 1..(k + m) |-> t[i]]
  BY <1>7
<1>10. t = SubSeq(c, 1, k + m)
  BY <1>2, <1>8, <1>9
<1> QED
  BY <1>10 DEF t, a, b

(* getdents64: the entries it returns follow those it has returned.        *)
LEMMA Getdents64Step ==
    ASSUME IInv, NEW fd \in Fds, NEW room \in Rooms, SysGetdents64(fd, room)
    PROVE  IInv'
<1> DEFINE d == fds[fd]
           n == desc[d].vnode
           offset == desc[d].offset
           c == fs.nodes[n].children
           records == Iterate(fs, n, room, offset)
           left == Len(c) - offset
           count == IF left < room THEN left ELSE room
           inos == [k \in DOMAIN records |-> records[k].d_ino]
<1>1. Open(fd) /\ UNCHANGED <<fs, fds>>
  BY DEF SysGetdents64
<1>2. /\ d \in Descs /\ ~Unused(fds, d) /\ DescOK(fs, desc[d], seen[d])
      /\ desc[d] \in Descriptions
  BY <1>1, OpenFd
<1>3. /\ IsDirectory(fs, n)
      /\ desc' = [desc EXCEPT ![d].offset = NextCookie(records, offset)]
      /\ seen' = [seen EXCEPT ![d] = seen[d] \o inos]
  BY DEF SysGetdents64, GetFd
<1>4. FsOK(fs) /\ n \in DOMAIN fs.nodes /\ fs.nodes \in Seq(Nodes) /\ offset \in Nat
  BY <1>2, Words DEF IInv, DescOK, Descriptions, FsOK, FsTypes
<1>5. c \in Seq(Nat) /\ Len(c) \in Nat /\ Len(c) < Len(fs.nodes) /\ Len(fs.nodes) \in Nat
  BY <1>4, NodeFacts DEF FsOK, TreeOK
<1>6. Len(fs.nodes) <= MaxNodes /\ MaxNodes \in Nat /\ MaxNodes < Modulus
  BY <1>4, RamFsAssumption, FileSystemAssumption DEF FsOK, FsTypes
<1>7. offset <= Len(c) /\ seen[d] = SubSeq(c, 1, offset)
  BY <1>2, <1>3 DEF DescOK
<1>8. room \in Nat
  BY FileSystemAssumption
<1>9. records = [k \in 1..count |-> [d_ino |-> c[offset + k], d_off |-> offset + k]]
  <2>1. ~(left < 0)
    BY <1>4, <1>5, <1>7
  <2> QED
    BY <2>1 DEF Iterate
<1>10. count \in Nat /\ offset + count <= Len(c)
  <2>1. ASSUME NEW l \in Nat, NEW o \in Nat, o <= l, NEW r \in Nat
        PROVE  /\ (IF l - o < r THEN l - o ELSE r) \in Nat
               /\ o + (IF l - o < r THEN l - o ELSE r) <= l
    BY <2>1
  <2> HIDE DEF c, offset
  <2> QED
    BY <1>4, <1>5, <1>7, <1>8, <2>1
<1> HIDE DEF d, n, offset, c, records, count, left
<1>11. inos = [k \in 1..count |-> c[offset + k]]
  BY <1>9
<1>12. NextCookie(records, offset) = offset + count
  <2>1. CASE count = 0
    <3>1. records = <<>>
      BY <1>9, <2>1
    <3> QED
      BY <1>4, <2>1, <3>1 DEF NextCookie
  <2>2. CASE count # 0
    <3>1. count \in 1..count
      BY <1>10, <2>2
    <3>2. Len(records) = count
      BY <1>9, <1>10
    <3>3. records[count].d_off = offset + count
      BY <1>9, <3>1
    <3>4. records # <<>>
      BY <2>2, <3>2
    <3> QED
      BY <3>2, <3>3, <3>4 DEF NextCookie, Last
  <2> QED
    BY <2>1, <2>2
<1> DEFINE pos == offset + count
           s == SubSeq(c, 1, pos)
           x == [desc[d] EXCEPT !.offset = pos]
<1>13. seen[d] \o inos = s
  BY <1>4, <1>5, <1>7, <1>10, <1>11, NextEntries
<1>14. pos \in 0..(Modulus - 1) /\ pos \in Nat
  BY <1>4, <1>5, <1>6, <1>10, Words
<1>15. s \in Seq(Nat)
  <2>1. \A i \in 1..pos : c[i] \in Nat
    BY <1>5, <1>10, <1>14
  <2> HIDE DEF pos
  <2> QED
    BY <1>5, <1>14, <2>1
<1> HIDE DEF pos, s
<1>16. /\ x \in Descriptions /\ x.vnode = n /\ x.offset = pos
       /\ desc' = [desc EXCEPT ![d] = x]
  <2>1. desc' = [desc EXCEPT ![d].offset = pos]
    BY <1>3, <1>12 DEF pos
  <2> QED
    BY <1>2, <1>14, <2>1, Repositioned DEF n
<1> HIDE DEF x
<1>17. seen' = [seen EXCEPT ![d] = s]
  BY <1>3, <1>13
<1>18. DescOK(fs, x, s)
  BY <1>4, <1>10, <1>16 DEF DescOK, c, s, pos
<1>19. DescOK(fs', x, s)
  BY <1>1, <1>18
<1>20. FsOK(fs') /\ Extends(fs'.nodes, fs.nodes)
  BY <1>1, SameExtends
<1> QED
  BY <1>1, <1>2, <1>15, <1>16, <1>17, <1>19, <1>20, MovedOK

-----------------------------------------------------------------------------
(* A call that only says what it did keeps the invariant.                  *)
LEMMA UnchangedOK == IInv /\ UNCHANGED <<fs, fds, desc, seen>> => IInv'
<1> SUFFICES ASSUME IInv, UNCHANGED <<fs, fds, desc, seen>> PROVE IInv'
  OBVIOUS
<1>1. FsOK(fs') /\ Extends(fs'.nodes, fs.nodes)
  BY SameExtends
<1> QED
  BY <1>1, ExtendedOK

(* Every call keeps the invariant.                                         *)
LEMMA NextIInv == IInv /\ [Next]_vars => IInv'
<1> SUFFICES ASSUME IInv, [Next]_vars PROVE IInv'
  OBVIOUS
<1>1. ASSUME NEW path \in Paths, NEW flags \in OpenFlags, SysOpen(path, flags) PROVE IInv'
  BY <1>1, OpenStep
<1>2. ASSUME UNCHANGED vars PROVE IInv'
  BY <1>2, UnchangedOK DEF vars
<1>3. ASSUME NEW path \in Paths, SysStat(path) PROVE IInv'
  BY <1>2, <1>3 DEF SysStat
<1>4. ASSUME NEW fd \in Fds, SysClose(fd) PROVE IInv'
  BY <1>4, CloseStep
<1>5. ASSUME NEW fd \in Fds, NEW g \in Fds, SysDup(fd, g) PROVE IInv'
  <2>1. PICK new \in FirstFreeFrom(fds, g) :
          SetTable(AllocateFdAt(fds, new, fds[fd]), desc) /\ UNCHANGED fs
    BY <1>5 DEF SysDup
  <2>2. new \in Fds
    BY <2>1 DEF FirstFreeFrom
  <2> QED
    BY <2>1, <2>2, DupStep
<1>6. ASSUME NEW fd \in Fds, NEW g \in Fds, SysDup2(fd, g) PROVE IInv'
  BY <1>6, DupStep DEF SysDup2
<1>7. ASSUME NEW fd \in Fds, NEW off \in Seeks,
             NEW whence \in {"SEEK_SET", "SEEK_CUR", "SEEK_END"}, SysLseek(fd, off, whence)
      PROVE  IInv'
  BY <1>7, LseekStep
<1>8. ASSUME NEW fd \in Fds, NEW lens \in ReadLens, SysReadv(fd, lens) PROVE IInv'
  BY <1>8, ReadvStep
<1>9. ASSUME NEW fd \in Fds, NEW lens \in ReadLens, SysReadFaults(fd, lens) PROVE IInv'
  BY <1>9, UnchangedOK DEF SysReadFaults
<1>10. ASSUME NEW fd \in Fds, NEW buffers \in WritevData, SysWritev(fd, buffers) PROVE IInv'
  BY <1>10, WritevStep
<1>11. ASSUME NEW fd \in Fds, NEW data \in WriteData, SysWrite(fd, data) PROVE IInv'
  BY <1>11, WriteStep
<1>12. ASSUME NEW fd \in Fds, NEW room \in Rooms, SysGetdents64(fd, room) PROVE IInv'
  BY <1>12, Getdents64Step
<1> QED
  BY <1>1, <1>2, <1>3, <1>4, <1>5, <1>6, <1>7, <1>8, <1>10, <1>12, <1>11, <1>9
     DEF Next, Calls, FaultAgain

(* Every call extends the file system.                                     *)
LEMMA NextExtends ==
    ASSUME IInv, Next
    PROVE  FsOK(fs') /\ Extends(fs'.nodes, fs.nodes)
<1>1. ASSUME NEW path \in Paths, NEW flags \in OpenFlags, SysOpen(path, flags)
      PROVE  FsOK(fs') /\ Extends(fs'.nodes, fs.nodes)
  <2>1. Answer(fs, OpenTarget(fs, path, flags))
    BY PathTexts, OpenTargetOK DEF IInv
  <2>2. fs' = OpenTarget(fs, path, flags).fs
    BY <1>1 DEF SysOpen
  <2> QED
    BY <2>1, <2>2 DEF Answer
<1>2. ASSUME NEW fd \in Fds, NEW buffers \in WritevData, SysWritev(fd, buffers)
      PROVE  FsOK(fs') /\ Extends(fs'.nodes, fs.nodes)
  BY <1>2, WritevStep
<1>3. ASSUME NEW fd \in Fds, NEW data \in WriteData, SysWrite(fd, data)
      PROVE  FsOK(fs') /\ Extends(fs'.nodes, fs.nodes)
  BY <1>3, WriteStep
<1>4. ASSUME UNCHANGED fs PROVE FsOK(fs') /\ Extends(fs'.nodes, fs.nodes)
  BY <1>4, SameExtends
<1>5. CASE \E path \in Paths : SysStat(path)
  BY <1>4, <1>5 DEF SysStat, vars
<1>6. CASE \E fd \in Fds : \/ SysClose(fd)
                           \/ \E g \in Fds : SysDup(fd, g) \/ SysDup2(fd, g)
  BY <1>4, <1>6 DEF SysClose, SysDup, SysDup2
<1>7. CASE \E fd \in Fds :
             \/ \E off \in Seeks, whence \in {"SEEK_SET", "SEEK_CUR", "SEEK_END"} :
                   SysLseek(fd, off, whence)
             \/ \E lens \in ReadLens : SysReadv(fd, lens) \/ SysReadFaults(fd, lens)
             \/ \E room \in Rooms : SysGetdents64(fd, room)
  BY <1>4, <1>7 DEF SysLseek, SysReadv, SysReadFaults, SysGetdents64
<1>8. CASE FaultAgain
  BY <1>4, <1>8 DEF FaultAgain, vars
<1> QED
  BY <1>1, <1>2, <1>3, <1>5, <1>6, <1>7, <1>8 DEF Next, Calls

-----------------------------------------------------------------------------
(* The directory entries of a tree are as many as its vnodes but the root. *)
LEMMA EntriesCount ==
    ASSUME NEW ns \in Seq(Nodes), Len(ns) > 0, TreeOK(ns),
           NEW entries,
           entries = UNION {{e} \X DOMAIN ns[e].children : e \in DOMAIN ns}
    PROVE  /\ {ns[x[1]].children[x[2]] : x \in entries} = 2..Len(ns)
           /\ Cardinality(entries) = Len(ns) - 1
<1> DEFINE Child(x) == ns[x[1]].children[x[2]]
           f == [x \in entries |-> Child(x)]
           kids == 2..Len(ns)
<1>1. Len(ns) \in Nat
  OBVIOUS
<1>2. \A x \in entries : x = <<x[1], x[2]>> /\ Entry(ns, x[1], x[2], Child(x))
  BY DEF Entry
<1>3. \A n, k, m : Entry(ns, n, k, m) => <<n, k>> \in entries /\ Child(<<n, k>>) = m
  BY DEF Entry
<1>4. \A n, k, m : Entry(ns, n, k, m) => m \in kids
  BY DEF TreeOK
<1>5. \A n, k, m, o, l : Entry(ns, n, k, m) /\ Entry(ns, o, l, m) => n = o /\ k = l
  BY DEF TreeOK
<1>6. \A m \in kids : \E n, k : Entry(ns, n, k, m)
  BY DEF TreeOK
<1> HIDE DEF Child, kids
<1>7. \A x \in entries : Child(x) \in kids
  BY <1>2, <1>4
<1>8. \A m \in kids : \E x \in entries : Child(x) = m
  BY <1>3, <1>6
<1>9. \A x, y \in entries : Child(x) = Child(y) => x = y
  <2> SUFFICES ASSUME NEW x \in entries, NEW y \in entries, Child(x) = Child(y)
               PROVE  x = y
    OBVIOUS
  <2>1. x[1] = y[1] /\ x[2] = y[2]
    BY <1>2, <1>5
  <2> QED
    BY <1>2, <2>1
<1>10. {Child(x) : x \in entries} = kids
  BY <1>7, <1>8
<1>11. f \in Bijection(entries, kids)
  <2>1. f \in [entries -> kids]
    BY <1>7
  <2>2. \A x \in entries : f[x] = Child(x)
    OBVIOUS
  <2> HIDE DEF f
  <2>3. f \in Injection(entries, kids)
    BY <1>9, <2>1, <2>2 DEF Injection, IsInjective
  <2>4. f \in Surjection(entries, kids)
    BY <1>8, <2>1, <2>2 DEF Surjection
  <2> QED
    BY <2>3, <2>4 DEF Bijection
<1>12. IsFiniteSet(kids) /\ Cardinality(kids) = Len(ns) - 1
  <2> DEFINE len == Len(ns)
  <2>1. len \in Nat /\ len > 0
    BY <1>1
  <2> HIDE DEF len
  <2>2. IsFiniteSet(2..len) /\ Cardinality(2..len) = IF 2 > len THEN 0 ELSE len - 2 + 1
    BY <2>1, FS_Interval
  <2>3. IsFiniteSet(2..len) /\ Cardinality(2..len) = len - 1
    BY <2>1, <2>2
  <2> QED
    BY <2>3 DEF kids, len
<1>13. ExistsBijection(kids, entries)
  BY <1>11, Fun_ExistsBijSymmetric DEF ExistsBijection
<1>14. Cardinality(entries) = Len(ns) - 1
  BY <1>12, <1>13, FS_Bijection
<1> QED
  BY <1>10, <1>14 DEF Child, kids

(* The invariant holds after every call.                                   *)
THEOREM Invariance == Spec => []IInv
<1> QED
  BY InitIInv, NextIInv, PTL DEF Spec

(* Type correctness: a description in a slot names a vnode and one that no *)
(* slot names is gone, through every failure of open and however dup and   *)
(* close share and drop descriptions; and the directories form one tree,   *)
(* in which no vnode is lost and none linked twice.                        *)
THEOREM TypeCorrect == Spec => []TypeOK
<1>1. IInv => TypeOK
  <2> SUFFICES ASSUME IInv PROVE TypeOK
    OBVIOUS
  <2>1. /\ fs.nodes \in Seq(Nodes) /\ Len(fs.nodes) > 0 /\ TreeOK(fs.nodes)
        /\ fs.free \subseteq Frames
    BY DEF IInv, FsOK, FsTypes
  <2>2. /\ fds \in [Fds -> Descs \cup {Closed}] /\ desc \in [Descs -> Descriptions]
        /\ \A d \in Descs : Unused(fds, d) => desc[d] = NoDesc
        /\ \A d \in Descs : ~Unused(fds, d) => desc[d].vnode \in DOMAIN fs.nodes
    BY DEF IInv, Slots, DescOK
  <2>3. 0 \notin DOMAIN fs.nodes
    BY <2>1
  <2>4. ASSUME NEW d \in Descs
        PROVE  /\ Unused(fds, d) <=> desc[d] = NoDesc
               /\ desc[d].vnode \in {0} \cup DOMAIN fs.nodes
               /\ desc[d].offset \in 0..(Modulus - 1)
    <3>1. desc[d].offset \in 0..(Modulus - 1)
      BY <2>2 DEF Descriptions
    <3>2. NoDesc.vnode = 0
      BY DEF NoDesc
    <3> QED
      BY <2>2, <2>3, <3>1, <3>2
  <2> DEFINE entries == UNION {{e} \X DOMAIN fs.nodes[e].children : e \in DOMAIN fs.nodes}
  <2>5. /\ {fs.nodes[x[1]].children[x[2]] : x \in entries} = 2..Len(fs.nodes)
        /\ Cardinality(entries) = Len(fs.nodes) - 1
    BY <2>1, EntriesCount
  <2> QED
    BY <2>1, <2>2, <2>4, <2>5 DEF TypeOK
<1> QED
  BY <1>1, Invariance, PTL

(* Every frame is a page of one file or free, for any number of frames,    *)
(* pages and buffers: a write that stops for want of a frame neither loses *)
(* nor shares one, and truncation takes none away.                         *)
THEOREM FramesAlwaysExclusive == Spec => []FramesExclusive
<1>1. IInv => FramesExclusive
  <2> SUFFICES ASSUME IInv PROVE FramesExclusive
    OBVIOUS
  <2> DEFINE ns == fs.nodes
             held == UNION {{n} \X DOMAIN ns[n].vmo : n \in DOMAIN ns}
             Frame(x) == ns[x[1]].vmo[x[2]]
  <2>1. FramesOK(ns, fs.free) /\ fs.free \subseteq Frames
    BY DEF IInv, FsOK, FsTypes
  <2>2. \A x \in held : x = <<x[1], x[2]>> /\ Holds(ns, x[1], x[2], Frame(x))
    BY DEF Holds
  <2>3. \A n, p, f : Holds(ns, n, p, f) => <<n, p>> \in held /\ Frame(<<n, p>>) = f
    BY DEF Holds
  <2> HIDE DEF held, Frame, ns
  <2>4. ASSUME NEW x \in held, NEW y \in held, Frame(x) = Frame(y)
        PROVE  x = y
    <3>1. x[1] = y[1] /\ x[2] = y[2]
      BY <2>1, <2>2, <2>4 DEF FramesOK
    <3> QED
      BY <2>2, <3>1
  <2>5. fs.free = Frames \ {Frame(x) : x \in held}
    <3>1. \A x \in held : Frame(x) \in Frames \ fs.free
      BY <2>1, <2>2 DEF FramesOK
    <3>2. \A f \in Frames \ fs.free : \E x \in held : Frame(x) = f
      <4> SUFFICES ASSUME NEW f \in Frames \ fs.free PROVE \E x \in held : Frame(x) = f
        OBVIOUS
      <4>1. PICK n, p : Holds(ns, n, p, f)
        BY <2>1 DEF FramesOK
      <4>2. <<n, p>> \in held /\ Frame(<<n, p>>) = f
        BY <2>3, <4>1
      <4> QED
        BY <4>2
    <3> QED
      BY <2>1, <3>1, <3>2
  <2>6. \A x, y \in held : Frame(x) = Frame(y) => x = y
    BY <2>4
  <2> QED
    BY <2>5, <2>6 DEF FramesExclusive, held, Frame, ns
<1> QED
  BY <1>1, Invariance, PTL

(* A directory read through getdents64 gives each entry once and in order, *)
(* for buffers of any size, through any of the descriptors that share the  *)
(* position, and with files created in between.                            *)
THEOREM EntriesReadOnce == Spec => []EachEntryOnce
<1>1. IInv => EachEntryOnce
  <2> SUFFICES ASSUME IInv, NEW d \in Descs, desc[d].vnode > 0,
                      IsDirectory(fs, desc[d].vnode)
               PROVE  seen[d] = SubSeq(fs.nodes[desc[d].vnode].children, 1, desc[d].offset)
    BY DEF EachEntryOnce
  <2>1. NoDesc.vnode = 0
    BY DEF NoDesc
  <2>2. ~Unused(fds, d)
    BY <2>1 DEF IInv, Slots
  <2>3. DescOK(fs, desc[d], seen[d])
    BY <2>2 DEF IInv, Slots
  <2> QED
    BY <2>3 DEF DescOK
<1> QED
  BY <1>1, Invariance, PTL

(* No call takes a vnode away, changes what it is or moves an entry of a   *)
(* directory; that is what lets a description hold a vnode and a position  *)
(* in a directory across the calls of others.                              *)
THEOREM VnodesStay == Spec => [][Extends(fs'.nodes, fs.nodes)]_vars
<1> QED
  BY NextExtends, Invariance, PTL DEF Spec

-----------------------------------------------------------------------------
(* Pages and the bytes in them: a position is determined by both, and the  *)
(* pages are in the order of the positions.                                *)
LEMMA Places ==
    ASSUME NEW p \in Nat, NEW q \in Nat
    PROVE  /\ Page(p) \in Int /\ p % PageSize \in 0..(PageSize - 1)
           /\ Page(p) = Page(q) /\ p % PageSize = q % PageSize => p = q
           /\ p <= q => Page(p) <= Page(q)
<1>1. PageSize \in Nat \ {0}
  BY RamFsAssumption
<1>2. ASSUME NEW s \in Nat \ {0}, NEW a \in Nat
      PROVE  a \div s \in Int /\ a % s \in 0..(s - 1) /\ a = s * (a \div s) + (a % s)
  BY <1>2
<1>3. ASSUME NEW s \in Nat \ {0}, NEW a \in Int, NEW b \in Int, NEW c \in 0..(s - 1),
             NEW d \in 0..(s - 1), s * a + c <= s * b + d
      PROVE  a <= b
  <2> SUFFICES ASSUME a >= b + 1 PROVE FALSE
    BY <1>3
  <2>1. s * a >= s * (b + 1)
    OBVIOUS
  <2>2. s * (b + 1) = s * b + s
    OBVIOUS
  <2>3. s * a \in Int /\ s * b \in Int /\ s * (b + 1) \in Int
    OBVIOUS
  <2> QED
    BY <1>3, <2>1, <2>2, <2>3
<1>4. /\ Page(p) \in Int /\ p % PageSize \in 0..(PageSize - 1)
      /\ p = PageSize * Page(p) + (p % PageSize)
  BY <1>1, <1>2 DEF Page
<1>5. /\ Page(q) \in Int /\ q % PageSize \in 0..(PageSize - 1)
      /\ q = PageSize * Page(q) + (q % PageSize)
  BY <1>1, <1>2 DEF Page
<1>6. p <= q => Page(p) <= Page(q)
  BY <1>1, <1>3, <1>4, <1>5
<1>7. Page(p) = Page(q) /\ p % PageSize = q % PageSize => p = q
  BY <1>4, <1>5
<1> QED
  BY <1>4, <1>6, <1>7

(* G is F with the first bytes of the data written at an offset in file n. *)
Overwritten(G, F, n, data, offset, stored) ==
    \A m \in DOMAIN F.nodes, pos \in Nat :
        ByteAt(G, m, pos) =
            IF m = n /\ pos \in offset..(offset + stored - 1) THEN data[pos - offset + 1]
            ELSE ByteAt(F, m, pos)

(* The vnodes of G are those of F, but for the size of file n.             *)
Resized(G, F, n, size) ==
    /\ DOMAIN G.nodes = DOMAIN F.nodes
    /\ \A m \in DOMAIN F.nodes :
          G.nodes[m].size = IF m = n THEN size ELSE F.nodes[m].size

(* The bytes of a transfer that go to byte b of frame f.                   *)
ToByte(vmo, len, offset, f, b) ==
    {i \in Bytes(len) : /\ vmo[Page(offset + i - 1)] = f
                        /\ (offset + i - 1) % PageSize = b}

(* What Store does to the vnodes: the file has the new pages, too.         *)
Stored(G, F, n, pages, new) ==
    /\ DOMAIN G.nodes = DOMAIN F.nodes
    /\ \A m \in DOMAIN F.nodes : /\ G.nodes[m].size = F.nodes[m].size
                                 /\ m # n => G.nodes[m].vmo = F.nodes[m].vmo
    /\ DOMAIN G.nodes[n].vmo = (DOMAIN F.nodes[n].vmo) \cup pages
    /\ \A p \in pages : G.nodes[n].vmo[p] = new[p]
    /\ \A p \in (DOMAIN F.nodes[n].vmo) \ pages : G.nodes[n].vmo[p] = F.nodes[n].vmo[p]

(* What it does to the memory, when the first page is new or the data      *)
(* begins it: pages are new and zero, and the data is in its place.        *)
Placed(G, F, n, data, offset, pages, new) ==
    \A f \in Frames, b \in 0..(PageSize - 1) :
       LET to == ToByte(G.nodes[n].vmo, Len(data), offset, f, b)
       IN     /\ to = {} /\ (\E p \in pages : new[p] = f) => G.mem[f][b] = 0
              /\ to = {} /\ ~(\E p \in pages : new[p] = f) => G.mem[f][b] = F.mem[f][b]
              /\ to # {} => \E i \in to : G.mem[f][b] = data[i]

(* It does so.                                                             *)
LEMMA StoreIs ==
    ASSUME NEW F, FsOK(F), NEW n \in DOMAIN F.nodes, NEW data, NEW offset,
           NEW pages, NEW new \in Allocations(F, pages)
    PROVE  Stored(Store(F, n, data, offset, new), F, n, pages, new)
<1> DEFINE G == Store(F, n, data, offset, new)
           vmo == [p \in (DOMAIN F.nodes[n].vmo) \cup (DOMAIN new) |->
                      IF p \in DOMAIN new THEN new[p] ELSE F.nodes[n].vmo[p]]
           ns == [F.nodes EXCEPT ![n].vmo = vmo]
<1>1. DOMAIN new = pages
  BY DEF Allocations
<1>2. F.nodes \in Seq(Nodes) /\ F.nodes[n] \in Nodes
  BY DEF FsOK, FsTypes
<1>3. G.nodes = ns
  BY DEF Store
<1> HIDE DEF G
<1>4. ns = [F.nodes EXCEPT ![n] = [F.nodes[n] EXCEPT !.vmo = vmo]]
  OBVIOUS
<1>5. /\ DOMAIN vmo = (DOMAIN F.nodes[n].vmo) \cup pages
      /\ \A p \in pages : vmo[p] = new[p]
      /\ \A p \in (DOMAIN F.nodes[n].vmo) \ pages : vmo[p] = F.nodes[n].vmo[p]
  BY <1>1
<1> HIDE DEF vmo, ns
<1>6. /\ DOMAIN ns = DOMAIN F.nodes /\ ns[n] = [F.nodes[n] EXCEPT !.vmo = vmo]
      /\ \A m \in DOMAIN F.nodes : m # n => ns[m] = F.nodes[m]
  BY <1>4
<1>7. ns[n].vmo = vmo /\ ns[n].size = F.nodes[n].size
  BY <1>2, <1>6 DEF Nodes
<1>8. G.nodes[n].vmo = vmo
  BY <1>3, <1>7
<1>9. /\ DOMAIN G.nodes = DOMAIN F.nodes
      /\ \A m \in DOMAIN F.nodes : /\ G.nodes[m].size = F.nodes[m].size
                                   /\ m # n => G.nodes[m].vmo = F.nodes[m].vmo
  BY <1>3, <1>6, <1>7
<1>10. Stored(G, F, n, pages, new)
  BY <1>5, <1>8, <1>9 DEF Stored
<1> QED
  BY <1>10 DEF G

(* An address within the frames is in one place of one frame.              *)
LEMMA SameAddress ==
    ASSUME NEW f \in Nat, NEW b \in 0..(PageSize - 1),
           NEW g \in Nat, NEW c \in 0..(PageSize - 1)
    PROVE  f * PageSize + b = g * PageSize + c <=> f = g /\ b = c
<1>1. ASSUME NEW x \in Nat, NEW y \in Nat, x < y, NEW i \in 0..(PageSize - 1),
             NEW j \in Nat, NEW p \in Nat, p = PageSize
      PROVE  x * p + i < y * p + j
  <2>1. PICK k \in Nat : y = x + 1 + k
    <3>1. y - x - 1 \in Nat /\ y = x + 1 + (y - x - 1)
      BY <1>1
    <3> QED
      BY <3>1
  <2>2. y * p = x * p + p + k * p
    BY <1>1, <2>1
  <2>3. k * p \in Nat /\ x * p \in Nat
    BY <1>1, <2>1
  <2>4. i < p
    BY <1>1
  <2> QED
    BY <2>2, <2>3, <2>4
<1>2. PageSize \in Nat
  BY RamFsAssumption
<1>3. f < g => f * PageSize + b < g * PageSize + c
  BY <1>1, <1>2
<1>4. g < f => g * PageSize + c < f * PageSize + b
  BY <1>1, <1>2
<1>5. f * PageSize + b \in Nat /\ g * PageSize + c \in Nat
  BY <1>2
<1>6. f = g => (f * PageSize + b = g * PageSize + c <=> b = c)
  <2>1. ASSUME NEW x \in Nat PROVE x + b = x + c <=> b = c
    BY <1>2
  <2> QED
    BY <1>2, <2>1
<1>7. \A x, y \in Nat : x < y => x # y
  OBVIOUS
<1>8. f = g \/ f < g \/ g < f
  OBVIOUS
<1> QED
  BY <1>3, <1>4, <1>5, <1>6, <1>7, <1>8

(* Data that begins a page or fills a new one is copied to its place.      *)
LEMMA StorePlaces ==
    ASSUME NEW F, FsOK(F), NEW n \in DOMAIN F.nodes, NEW data, Len(data) \in Nat,
           NEW offset \in Nat, NEW pages, NEW new \in Allocations(F, pages),
           \A i \in Bytes(Len(data)) :
               Page(offset + i - 1) \in (DOMAIN F.nodes[n].vmo) \cup pages,
           \/ Len(data) = 0 \/ offset % PageSize = 0
           \/ Page(offset) \notin DOMAIN F.nodes[n].vmo
    PROVE  Placed(Store(F, n, data, offset, new), F, n, data, offset, pages, new)
<1> DEFINE G == Store(F, n, data, offset, new)
           vmo == [p \in (DOMAIN F.nodes[n].vmo) \cup (DOMAIN new) |->
                      IF p \in DOMAIN new THEN new[p] ELSE F.nodes[n].vmo[p]]
           Ahead(pos) == IF Page(pos) = Page(offset) /\ Page(pos) \notin DOMAIN new
                         THEN offset % PageSize ELSE 0
           Address(pos) == vmo[Page(pos)] * PageSize + (pos % PageSize) + Ahead(pos)
           Written(f, b) == {i \in Bytes(Len(data)) :
                                /\ Address(offset + i - 1) = f * PageSize + b
                                /\ (\E p \in DOMAIN new : new[p] = f) =>
                                      vmo[Page(offset + i - 1)] = f}
           To(f, b) == ToByte(vmo, Len(data), offset, f, b)
<1>1. DOMAIN new = pages /\ \A p \in pages : new[p] \in F.free
  BY DEF Allocations
<1>2. F.nodes \in Seq(Nodes) /\ F.nodes[n] \in Nodes /\ FramesOK(F.nodes, F.free)
  BY DEF FsOK, FsTypes
<1>3. G.nodes[n].vmo = vmo
  <2>1. G.nodes = [F.nodes EXCEPT ![n].vmo = vmo]
    BY DEF Store
  <2> HIDE DEF vmo, G
  <2> QED
    BY <1>2, <2>1 DEF Nodes
<1>4. G.mem = [f \in Frames |-> [b \in DOMAIN Zeroed |->
                  IF Written(f, b) = {} THEN Cleared(F, new)[f][b]
                  ELSE data[CHOOSE i \in Written(f, b) :
                               \A j \in Written(f, b) : j <= i]]]
  BY DEF Store
<1> HIDE DEF G
<1>5. DOMAIN Zeroed = 0..(PageSize - 1) /\ \A b \in DOMAIN Zeroed : Zeroed[b] = 0
  BY DEF Zeroed
<1>6. \A p \in (DOMAIN F.nodes[n].vmo) \cup pages : vmo[p] \in Nat
  <2>1. F.free \subseteq Frames /\ Frames \subseteq Nat
    BY RamFsAssumption DEF FsOK, FsTypes
  <2>2. ASSUME NEW p \in DOMAIN F.nodes[n].vmo PROVE F.nodes[n].vmo[p] \in Frames
    <3>1. Holds(F.nodes, n, p, F.nodes[n].vmo[p])
      BY DEF Holds
    <3> QED
      BY <1>2, <3>1 DEF FramesOK
  <2> QED
    BY <1>1, <2>1, <2>2
<1>7. ASSUME NEW i \in Bytes(Len(data))
      PROVE  /\ offset + i - 1 \in Nat /\ vmo[Page(offset + i - 1)] \in Nat
             /\ (offset + i - 1) % PageSize \in 0..(PageSize - 1)
             /\ Ahead(offset + i - 1) = 0
  <2>1. i \in 1..Len(data) /\ offset + i - 1 \in Nat /\ Len(data) # 0
    BY DEF Bytes
  <2>2. Page(offset + i - 1) \in (DOMAIN F.nodes[n].vmo) \cup pages
    OBVIOUS
  <2>3. Ahead(offset + i - 1) = 0
    BY <1>1, <2>1, <2>2
  <2> HIDE DEF vmo, Ahead
  <2> QED
    BY <1>6, <2>1, <2>2, <2>3, Places
<1> HIDE DEF vmo, Ahead
<1>8. ASSUME NEW f \in Frames, NEW b \in 0..(PageSize - 1)
      PROVE  Written(f, b) = To(f, b)
  <2>1. f \in Nat
    BY RamFsAssumption
  <2>2. ASSUME NEW i \in Bytes(Len(data))
        PROVE  i \in Written(f, b) <=> i \in To(f, b)
    <3> DEFINE pos == offset + i - 1
               g == vmo[Page(pos)]
               c == pos % PageSize
    <3>1. g \in Nat /\ c \in 0..(PageSize - 1) /\ Ahead(pos) = 0
      BY <1>7
    <3>2. Address(pos) = g * PageSize + c
      <4>1. PageSize \in Nat
        BY RamFsAssumption
      <4>2. Address(pos) = g * PageSize + c + Ahead(pos)
        OBVIOUS
      <4> HIDE DEF g, c, pos, Address
      <4>3. g * PageSize \in Nat
        BY <3>1, <4>1
      <4>4. \A x \in Nat : x + c + 0 = x + c
        BY <3>1, <4>1
      <4> QED
        BY <3>1, <4>2, <4>3, <4>4
    <3>3. Address(pos) = f * PageSize + b <=> g = f /\ c = b
      <4> HIDE DEF g, c, Address
      <4> QED
        BY <2>1, <3>1, <3>2, SameAddress
    <3>4. i \in Written(f, b) <=>
            /\ Address(pos) = f * PageSize + b
            /\ (\E p \in DOMAIN new : new[p] = f) => g = f
      BY <2>2
    <3>5. i \in To(f, b) <=> g = f /\ c = b
      BY <2>2 DEF ToByte
    <3> HIDE DEF Address, Written, To, g, c
    <3> QED
      BY <3>3, <3>4, <3>5
  <2>3. Written(f, b) \subseteq Bytes(Len(data)) /\ To(f, b) \subseteq Bytes(Len(data))
    BY DEF ToByte
  <2> HIDE DEF Written, To
  <2> QED
    BY <2>2, <2>3
<1> HIDE DEF Address
<1>9. ASSUME NEW f \in Frames, NEW b \in 0..(PageSize - 1)
      PROVE  /\ To(f, b) = {} /\ (\E p \in pages : new[p] = f) => G.mem[f][b] = 0
             /\ To(f, b) = {} /\ ~(\E p \in pages : new[p] = f) =>
                   G.mem[f][b] = F.mem[f][b]
             /\ To(f, b) # {} => \E i \in To(f, b) : G.mem[f][b] = data[i]
  <2> DEFINE W == Written(f, b)
             last == CHOOSE i \in W : \A j \in W : j <= i
  <2>1. G.mem[f][b] = IF W = {} THEN Cleared(F, new)[f][b] ELSE data[last]
    BY <1>4, <1>5
  <2>2. W = To(f, b)
    BY <1>8
  <2>3. W \subseteq 1..Len(data)
    BY DEF Bytes
  <2> HIDE DEF W, Written, To
  <2>4. W # {} => last \in W
    <3> SUFFICES ASSUME W # {} PROVE \E i \in W : \A j \in W : j <= i
      OBVIOUS
    <3>1. IsFiniteSet(1..Len(data))
      BY FS_Interval
    <3>2. W \in SUBSET (1..Len(data))
      BY <2>3
    <3>3. IsFiniteSet(W)
      BY <3>1, <3>2, FS_Subset, Zenon
    <3>4. W \subseteq Nat
      BY <2>3
    <3> QED
      BY <3>3, <3>4, GreatestElement
  <2> HIDE DEF last
  <2>5. Cleared(F, new)[f] = IF \E p \in pages : new[p] = f THEN Zeroed ELSE F.mem[f]
    BY <1>1 DEF Cleared
  <2>6. W # {} => \E i \in W : G.mem[f][b] = data[i]
    BY <2>1, <2>4
  <2>7. W = {} /\ (\E p \in pages : new[p] = f) => G.mem[f][b] = 0
    BY <1>5, <2>1, <2>5
  <2>8. W = {} /\ ~(\E p \in pages : new[p] = f) => G.mem[f][b] = F.mem[f][b]
    BY <2>1, <2>5
  <2> QED
    BY <2>2, <2>6, <2>7, <2>8
<1>10. \A f \in Frames, b \in 0..(PageSize - 1) :
          LET to == ToByte(G.nodes[n].vmo, Len(data), offset, f, b)
          IN  /\ to = {} /\ (\E p \in pages : new[p] = f) => G.mem[f][b] = 0
              /\ to = {} /\ ~(\E p \in pages : new[p] = f) => G.mem[f][b] = F.mem[f][b]
              /\ to # {} => \E i \in to : G.mem[f][b] = data[i]
  BY <1>3, <1>9
<1> HIDE DEF To, Written
<1>11. Placed(G, F, n, data, offset, pages, new)
  BY <1>10 DEF Placed
<1> QED
  BY <1>11 DEF G

(* Storing such data at an offset changes the bytes there and no others, in *)
(* whichever pages and frames they are, and the pages that are new are     *)
(* zero elsewhere.                                                         *)
LEMMA StoreBytes ==
    ASSUME NEW F, FsOK(F), NEW n \in DOMAIN F.nodes, NEW data, Len(data) \in Nat,
           NEW offset \in Nat,
           NEW pages \in SUBSET Int, pages \cap DOMAIN F.nodes[n].vmo = {},
           NEW new \in Allocations(F, pages),
           \A i \in Bytes(Len(data)) :
               Page(offset + i - 1) \in (DOMAIN F.nodes[n].vmo) \cup pages,
           \/ Len(data) = 0 \/ offset % PageSize = 0
           \/ Page(offset) \notin DOMAIN F.nodes[n].vmo
    PROVE  Overwritten(Store(F, n, data, offset, new), F, n, data, offset, Len(data))
<1> DEFINE G == Store(F, n, data, offset, new)
           old == F.nodes[n].vmo
           vmo == G.nodes[n].vmo
           Written(f, b) == ToByte(vmo, Len(data), offset, f, b)
           IsNew(f) == \E p \in pages : new[p] = f
<1>1. FsOK(G)
  BY StoreOK
<1> DEFINE S == Stored(G, F, n, pages, new) /\ Placed(G, F, n, data, offset, pages, new)
<1>2. S
  BY StoreIs, StorePlaces
<1> HIDE DEF G
<1>3. DOMAIN G.nodes = DOMAIN F.nodes
  BY <1>2 DEF Stored
<1>4. \A m \in DOMAIN F.nodes : m # n => G.nodes[m].vmo = F.nodes[m].vmo
  BY <1>2 DEF Stored
<1>5. \A f \in Frames, b \in 0..(PageSize - 1) :
           /\ Written(f, b) = {} /\ IsNew(f) => G.mem[f][b] = 0
           /\ Written(f, b) = {} /\ ~IsNew(f) => G.mem[f][b] = F.mem[f][b]
           /\ Written(f, b) # {} => \E i \in Written(f, b) : G.mem[f][b] = data[i]
  BY <1>2, Zenon DEF Placed
<1>6. /\ DOMAIN vmo = (DOMAIN old) \cup pages
      /\ \A p \in pages : vmo[p] = new[p]
      /\ \A p \in DOMAIN old : vmo[p] = old[p]
  BY <1>2 DEF Stored
<1> HIDE DEF S
<1>7. FramesOK(F.nodes, F.free) /\ FramesOK(G.nodes, G.free)
  BY <1>1 DEF FsOK
<1>8. \A p \in pages : new[p] \in F.free
  BY DEF Allocations
<1>9. \A m \in DOMAIN F.nodes : \A p \in DOMAIN F.nodes[m].vmo :
         /\ F.nodes[m].vmo[p] \in Frames \ F.free /\ ~IsNew(F.nodes[m].vmo[p])
  <2> SUFFICES ASSUME NEW m \in DOMAIN F.nodes, NEW p \in DOMAIN F.nodes[m].vmo
               PROVE  /\ F.nodes[m].vmo[p] \in Frames \ F.free
                      /\ ~IsNew(F.nodes[m].vmo[p])
    OBVIOUS
  <2>1. Holds(F.nodes, m, p, F.nodes[m].vmo[p])
    BY DEF Holds
  <2>2. F.nodes[m].vmo[p] \in Frames \ F.free
    BY <1>7, <2>1 DEF FramesOK
  <2> QED
    BY <1>8, <2>2
<1>10. \A m \in DOMAIN G.nodes : \A p \in DOMAIN G.nodes[m].vmo : G.nodes[m].vmo[p] \in Frames
  BY <1>7 DEF FramesOK, Holds
<1>11. ASSUME NEW m \in DOMAIN G.nodes, NEW p, p \in DOMAIN G.nodes[m].vmo,
              NEW q, q \in DOMAIN vmo, vmo[q] = G.nodes[m].vmo[p]
       PROVE  m = n /\ p = q
  <2>1. Holds(G.nodes, m, p, vmo[q]) /\ Holds(G.nodes, n, q, vmo[q])
    BY <1>3, <1>11 DEF Holds
  <2>2. \A k, l, o, r, f : Holds(G.nodes, k, l, f) /\ Holds(G.nodes, o, r, f)
                             => k = o /\ l = r
    BY <1>7 DEF FramesOK
  <2> QED
    BY <2>1, <2>2
<1>12. \A i \in Bytes(Len(data)) : /\ Page(offset + i - 1) \in DOMAIN vmo
                                   /\ i \in 1..Len(data) /\ offset + i - 1 \in Nat
  BY <1>6 DEF Bytes
<1> SUFFICES ASSUME NEW m \in DOMAIN F.nodes, NEW pos \in Nat
             PROVE  ByteAt(G, m, pos) =
                      IF m = n /\ pos \in offset..(offset + Len(data) - 1)
                      THEN data[pos - offset + 1] ELSE ByteAt(F, m, pos)
  BY DEF Overwritten, G
<1> DEFINE p == Page(pos)
           b == pos % PageSize
           f == G.nodes[m].vmo[p]
<1>13. b \in 0..(PageSize - 1) /\ p \in Int
  BY Places
<1>14. /\ p \in DOMAIN G.nodes[m].vmo => ByteAt(G, m, pos) = G.mem[f][b]
       /\ p \notin DOMAIN G.nodes[m].vmo => ByteAt(G, m, pos) = 0
       /\ p \in DOMAIN F.nodes[m].vmo =>
             ByteAt(F, m, pos) = F.mem[F.nodes[m].vmo[p]][b]
       /\ p \notin DOMAIN F.nodes[m].vmo => ByteAt(F, m, pos) = 0
  BY DEF ByteAt
<1>15. ASSUME p \in DOMAIN G.nodes[m].vmo, NEW i \in Written(f, b)
       PROVE  m = n /\ pos = offset + i - 1 /\ i \in 1..Len(data)
  <2>1. /\ i \in Bytes(Len(data)) /\ vmo[Page(offset + i - 1)] = f
        /\ (offset + i - 1) % PageSize = b
    BY DEF ToByte
  <2>2. offset + i - 1 \in Nat /\ Page(offset + i - 1) \in DOMAIN vmo /\ i \in 1..Len(data)
    BY <1>12, <2>1
  <2>3. m = n /\ p = Page(offset + i - 1)
    BY <1>3, <1>11, <1>15, <2>1, <2>2
  <2> QED
    BY <2>1, <2>2, <2>3, Places
<1>16. ASSUME m = n, pos \in offset..(offset + Len(data) - 1)
       PROVE  /\ p \in DOMAIN G.nodes[m].vmo
              /\ pos - offset + 1 \in Written(f, b)
              /\ \A i \in Written(f, b) : i = pos - offset + 1
  <2> DEFINE i == pos - offset + 1
  <2>1. i \in Bytes(Len(data)) /\ offset + i - 1 = pos
    <3>1. \A l, o \in Nat : \A q \in o..(o + l - 1) :
             q - o + 1 \in 1..l /\ o + (q - o + 1) - 1 = q
      OBVIOUS
    <3>2. Len(data) \in Nat
      OBVIOUS
    <3> QED
      BY <1>16, <3>1, <3>2, Zenon DEF Bytes
  <2> HIDE DEF i
  <2>2. p \in DOMAIN vmo
    BY <1>12, <2>1
  <2>3. i \in Written(f, b)
    BY <1>16, <2>1, <2>2 DEF ToByte
  <2>4. \A j \in Written(f, b) : j = pos - offset + 1
    <3> SUFFICES ASSUME NEW j \in Written(f, b) PROVE j = pos - offset + 1
      OBVIOUS
    <3>1. pos = offset + j - 1 /\ j \in 1..Len(data)
      BY <1>15, <1>16, <2>2
    <3> QED
      BY <3>1
  <2> QED
    BY <1>16, <2>2, <2>3, <2>4 DEF i
<1>17. CASE m = n /\ pos \in offset..(offset + Len(data) - 1)
  <2>1. p \in DOMAIN G.nodes[m].vmo /\ Written(f, b) # {}
        /\ \A i \in Written(f, b) : i = pos - offset + 1
    BY <1>16, <1>17
  <2>2. f \in Frames
    BY <1>3, <1>10, <2>1
  <2> HIDE DEF Written, f, b, p
  <2>3. \E i \in Written(f, b) : G.mem[f][b] = data[i]
    BY <1>5, <1>13, <2>1, <2>2
  <2> QED
    BY <1>14, <1>17, <2>1, <2>3
<1>18. CASE ~(m = n /\ pos \in offset..(offset + Len(data) - 1))
  <2> SUFFICES ByteAt(G, m, pos) = ByteAt(F, m, pos)
    BY <1>18
  <2>1. ASSUME p \in DOMAIN G.nodes[m].vmo PROVE Written(f, b) = {} /\ f \in Frames
    <3>1. f \in Frames
      BY <1>3, <1>10, <2>1
    <3>2. ASSUME NEW i \in Written(f, b) PROVE FALSE
      <4>1. m = n /\ pos = offset + i - 1 /\ i \in 1..Len(data)
        BY <1>15, <2>1, <3>2
      <4> QED
        BY <1>18, <4>1
    <3> QED
      BY <3>1, <3>2
  <2> HIDE DEF Written, f, b, p
  <2>2. ASSUME p \in DOMAIN G.nodes[m].vmo
        PROVE  /\ IsNew(f) => ByteAt(G, m, pos) = 0
               /\ ~IsNew(f) => ByteAt(G, m, pos) = F.mem[f][b]
    <3> HIDE DEF IsNew
    <3> QED
      BY <1>5, <1>13, <1>14, <2>1, <2>2
  <2>3. CASE p \in DOMAIN F.nodes[m].vmo
    <3>1. p \in DOMAIN G.nodes[m].vmo /\ f = F.nodes[m].vmo[p]
      BY <1>4, <1>6, <2>3 DEF f
    <3>2. ~IsNew(f)
      BY <1>9, <2>3, <3>1
    <3> QED
      BY <1>14, <2>2, <2>3, <3>1, <3>2
  <2>4. CASE p \notin DOMAIN F.nodes[m].vmo /\ p \in DOMAIN G.nodes[m].vmo
    <3>1. m = n /\ p \in pages
      BY <1>4, <1>6, <2>4
    <3>2. f = new[p]
      BY <1>6, <3>1 DEF f
    <3> QED
      BY <1>14, <2>2, <2>4, <3>1, <3>2
  <2>5. CASE p \notin DOMAIN F.nodes[m].vmo /\ p \notin DOMAIN G.nodes[m].vmo
    BY <1>14, <2>5
  <2> QED
    BY <2>3, <2>4, <2>5
<1> QED
  BY <1>17, <1>18

(* A set of numbers that has all the smaller ones is an interval.          *)
LEMMA DownClosed ==
    ASSUME NEW len \in Nat, NEW S \in SUBSET (1..len),
           \A i \in S, j \in 1..len : j <= i => j \in S
    PROVE  S = 1..Cardinality(S) /\ Cardinality(S) \in 0..len
<1>1. CASE S = {}
  <2>1. Cardinality(S) = 0
    BY <1>1, FS_EmptySet
  <2> QED
    BY <1>1, <2>1
<1>2. CASE S # {}
  <2>1. IsFiniteSet(1..len)
    BY FS_Interval
  <2>2. IsFiniteSet(S) /\ S \subseteq Nat
    <3>1. S \in SUBSET (1..len)
      OBVIOUS
    <3>2. IsFiniteSet(S)
      BY <2>1, <3>1, FS_Subset
    <3> QED
      BY <3>2
  <2>3. PICK m \in S : \A i \in S : i <= m
    BY <1>2, <2>2, GreatestElement
  <2>4. m \in 1..len /\ \A i \in 1..len : i <= m => i \in S
    BY <2>3
  <2>5. S = 1..m
    <3>1. ASSUME NEW i \in S PROVE i \in 1..m
      BY <2>3, <2>4
    <3>2. ASSUME NEW i \in 1..m PROVE i \in S
      BY <2>4
    <3> QED
      BY <3>1, <3>2
  <2>6. Cardinality(1..m) = m
    <3>1. 1 \in Int /\ m \in Int
      BY <2>4
    <3>2. Cardinality(1..m) = IF 1 > m THEN 0 ELSE m - 1 + 1
      BY <3>1, FS_Interval
    <3> QED
      BY <2>4, <3>2
  <2> QED
    BY <2>4, <2>5, <2>6
<1> QED
  BY <1>1, <1>2

(* What a write has copied when it stops is a prefix of the data, and the  *)
(* pages of that prefix are there or granted.                              *)
LEMMA CopiedPrefix ==
    ASSUME NEW F, NEW n, NEW data, Len(data) \in Nat, NEW offset \in Nat
    PROVE  /\ Copied(F, n, data, offset) \in 0..Len(data)
           /\ \A i \in Bytes(Copied(F, n, data, offset)) :
                 Page(offset + i - 1) \in (DOMAIN F.nodes[n].vmo)
                                          \cup Granted(F, Absent(F, n, data, offset))
<1> DEFINE len == Len(data)
           absent == Absent(F, n, data, offset)
           refused == absent \ Granted(F, absent)
           S == {i \in Bytes(len) : \A p \in refused : Page(offset + i - 1) < p}
<1>1. Copied(F, n, data, offset) = Cardinality(S)
  BY DEF Copied
<1>2. absent = {Page(offset + i - 1) : i \in Bytes(len)} \ DOMAIN F.nodes[n].vmo
  BY DEF Absent
<1>3. \A i \in Bytes(len) : i \in 1..len /\ offset + i - 1 \in Nat /\ Page(offset + i - 1) \in Int
  <2> SUFFICES ASSUME NEW i \in Bytes(len)
               PROVE  i \in 1..len /\ offset + i - 1 \in Nat /\ Page(offset + i - 1) \in Int
    OBVIOUS
  <2>1. i \in 1..len /\ offset + i - 1 \in Nat
    BY DEF Bytes
  <2> QED
    BY <2>1, Places
<1>4. absent \subseteq Int
  BY <1>2, <1>3
<1> HIDE DEF absent
<1>5. refused \subseteq Int
  BY <1>4
<1> HIDE DEF refused
<1>6. ASSUME NEW i \in S, NEW j \in 1..len, j <= i
      PROVE  j \in S
  <2>1. j \in Bytes(len) /\ i \in Bytes(len)
    BY DEF Bytes
  <2>2. offset + j - 1 <= offset + i - 1
    BY <1>3, <1>6, <2>1
  <2>3. Page(offset + j - 1) <= Page(offset + i - 1)
    BY <1>3, <2>1, <2>2, Places
  <2>4. \A p \in refused : Page(offset + j - 1) < p
    BY <1>3, <1>5, <2>1, <2>3
  <2> QED
    BY <2>1, <2>4
<1>7. S \in SUBSET (1..len)
  BY DEF Bytes
<1>8. \A i \in S : Page(offset + i - 1) \in (DOMAIN F.nodes[n].vmo) \cup Granted(F, absent)
  <2> SUFFICES ASSUME NEW i \in S, Page(offset + i - 1) \notin DOMAIN F.nodes[n].vmo,
                      Page(offset + i - 1) \notin Granted(F, absent)
               PROVE  FALSE
    OBVIOUS
  <2>1. Page(offset + i - 1) \in absent
    BY <1>2
  <2>2. Page(offset + i - 1) \in refused
    BY <2>1 DEF refused
  <2>3. Page(offset + i - 1) < Page(offset + i - 1) /\ Page(offset + i - 1) \in Int
    BY <1>3, <2>2
  <2> QED
    BY <2>3
<1> HIDE DEF S
<1>9. len \in Nat
  OBVIOUS
<1>10. S = 1..Cardinality(S) /\ Cardinality(S) \in 0..len
  BY <1>6, <1>7, <1>9, DownClosed
<1> QED
  BY <1>1, <1>8, <1>10 DEF Bytes, absent

(* Another size changes no byte.                                           *)
LEMMA ResizeBytes ==
    ASSUME NEW F, FsOK(F), NEW n \in DOMAIN F.nodes, NEW size \in Nat
    PROVE  /\ Resized([F EXCEPT !.nodes[n].size = size], F, n, size)
           /\ \A m \in DOMAIN F.nodes, pos \in Nat :
                 ByteAt([F EXCEPT !.nodes[n].size = size], m, pos) = ByteAt(F, m, pos)
<1> DEFINE x == [F.nodes[n] EXCEPT !.size = size]
           ns == [F.nodes EXCEPT ![n] = x]
           G == [F EXCEPT !.nodes[n].size = size]
<1>1. F.nodes \in Seq(Nodes) /\ F = [nodes |-> F.nodes, mem |-> F.mem, free |-> F.free]
  BY DEF FsOK, FsTypes
<1>2. F.nodes[n] \in Nodes
  BY <1>1
<1>3. x.vmo = F.nodes[n].vmo /\ x.size = size
  BY <1>2 DEF Nodes
<1>4. G = [F EXCEPT !.nodes = ns]
  OBVIOUS
<1> HIDE DEF x, G, ns
<1>5. G.nodes = ns /\ G.mem = F.mem
  BY <1>1, <1>4
<1>6. /\ DOMAIN ns = DOMAIN F.nodes
      /\ \A m \in DOMAIN F.nodes : ns[m].vmo = F.nodes[m].vmo
      /\ \A m \in DOMAIN F.nodes : ns[m].size = IF m = n THEN size ELSE F.nodes[m].size
  BY <1>3 DEF ns
<1>7. Resized(G, F, n, size)
  BY <1>5, <1>6 DEF Resized
<1>8. \A m \in DOMAIN F.nodes, pos \in Nat : ByteAt(G, m, pos) = ByteAt(F, m, pos)
  BY <1>5, <1>6 DEF ByteAt
<1> QED
  BY <1>7, <1>8 DEF G

(* What a write of some data to file n of F may do: it stores all of it    *)
(* and the file is at least that long, or it fails, has stored some of it, *)
(* and the size stays.  If it is not straight, any bytes may have changed. *)
Wrote(G, F, n, data, offset, failed, straight) ==
    \E stored \in 0..Len(data) :
        /\ failed <=> stored < Len(data)
        /\ straight => Overwritten(G, F, n, data, offset, stored)
        /\ Resized(G, F, n, IF ~failed /\ offset + Len(data) > F.nodes[n].size
                            THEN offset + Len(data) ELSE F.nodes[n].size)

LEMMA WroteIs ==
    ASSUME NEW F, NEW G, NEW n, NEW data, NEW offset, NEW failed, NEW straight,
           NEW stored \in 0..Len(data), NEW size,
           failed <=> stored < Len(data),
           straight => Overwritten(G, F, n, data, offset, stored),
           size = IF ~failed /\ offset + Len(data) > F.nodes[n].size
                  THEN offset + Len(data) ELSE F.nodes[n].size,
           Resized(G, F, n, size)
    PROVE  Wrote(G, F, n, data, offset, failed, straight)
BY Zenon DEF Wrote

(* RamFsOpsImpl::Write does that.                                          *)
LEMMA RamFsWriteBytes ==
    ASSUME NEW F, FsOK(F), NEW n \in DOMAIN F.nodes,
           NEW data \in Seq(Nat), NEW offset \in Nat,
           NEW r \in RamFsWrite(F, n, data, offset)
    PROVE  /\ Wrote(r.fs, F, n, data, offset, r.val < 0, InPlace(F, n, data, offset))
           /\ r.val < 0 \/ r.val = Len(data)
<1> DEFINE straight == InPlace(F, n, data, offset)
           len == Len(data)
           pages == Granted(F, Absent(F, n, data, offset))
           copied == Copied(F, n, data, offset)
           part == SubSeq(data, 1, copied)
           size == F.nodes[n].size
<1>1. len \in Nat
  OBVIOUS
<1>2. pages \in SUBSET Int /\ pages \cap DOMAIN F.nodes[n].vmo = {}
  <2>1. \A i \in Bytes(len) : Page(offset + i - 1) \in Int
    <3> SUFFICES ASSUME NEW i \in Bytes(len) PROVE Page(offset + i - 1) \in Int
      OBVIOUS
    <3>1. offset + i - 1 \in Nat
      BY DEF Bytes
    <3> QED
      BY <3>1, Places
  <2> QED
    BY <2>1 DEF Granted, Absent
<1>3. PICK new \in Allocations(F, pages) : r = WriteOutcome(F, n, data, offset, new)
  BY DEF RamFsWrite
<1>4. /\ copied \in 0..len
      /\ \A i \in Bytes(copied) : Page(offset + i - 1) \in (DOMAIN F.nodes[n].vmo) \cup pages
  BY <1>1, CopiedPrefix
<1> DEFINE G == Store(F, n, part, offset, new)
           H == GrowTo(G, n, offset + len)
<1>5. r = IF copied = len THEN Ok(H, copied) ELSE Ok(G, ENOMEM)
  BY <1>3 DEF WriteOutcome
<1> HIDE DEF pages, copied
<1>6. Len(part) = copied /\ \A i \in 1..copied : part[i] = data[i]
  BY <1>1, <1>4
<1> HIDE DEF part
<1>7. straight => Overwritten(G, F, n, data, offset, copied)
  <2> SUFFICES ASSUME straight PROVE Overwritten(G, F, n, data, offset, copied)
    OBVIOUS
  <2>1. \/ Len(part) = 0 \/ offset % PageSize = 0
        \/ Page(offset) \notin DOMAIN F.nodes[n].vmo
    BY <1>4, <1>6 DEF InPlace
  <2>2. Overwritten(G, F, n, part, offset, Len(part))
    BY <1>2, <1>3, <1>4, <1>6, <2>1, StoreBytes
  <2>3. \A pos \in Nat : pos \in offset..(offset + copied - 1) =>
           part[pos - offset + 1] = data[pos - offset + 1]
    BY <1>4, <1>6
  <2> HIDE DEF G
  <2> QED
    BY <1>6, <2>2, <2>3 DEF Overwritten
<1>8. Resized(G, F, n, size)
  <2>1. Stored(G, F, n, pages, new)
    BY <1>3, StoreIs
  <2> QED
    BY <2>1 DEF Stored, Resized
<1>9. FsOK(G)
  BY <1>2, <1>3, StoreOK
<1> HIDE DEF G, straight
<1>10. CASE copied # len
  <2>1. r.fs = G /\ r.val = ENOMEM /\ ENOMEM < 0
    BY <1>5, <1>10, OkParts DEF ENOMEM
  <2>2. copied < len
    BY <1>4, <1>10
  <2>3. Wrote(G, F, n, data, offset, TRUE, straight)
    BY <1>4, <1>7, <1>8, <2>2, WroteIs, Zenon
  <2> QED
    BY <2>1, <2>3 DEF straight
<1>11. CASE copied = len
  <2>1. r.fs = H /\ r.val = len /\ ~(len < 0)
    BY <1>1, <1>5, <1>11, OkParts
  <2>2. n \in DOMAIN G.nodes /\ G.nodes[n].size = size /\ DOMAIN G.nodes = DOMAIN F.nodes
    BY <1>8 DEF Resized
  <2> DEFINE big == offset + len > size
  <2>3. CASE ~big
    <3>1. H = G
      BY <2>2, <2>3 DEF GrowTo
    <3>2. Wrote(G, F, n, data, offset, FALSE, straight)
      <4>1. len \in 0..Len(data) /\ ~(len < Len(data))
        BY <1>1
      <4>2. straight => Overwritten(G, F, n, data, offset, len)
        BY <1>7, <1>11
      <4> QED
        BY <1>8, <2>3, <4>1, <4>2, WroteIs, Zenon
    <3>3. (r.val < 0) = FALSE /\ r.val = Len(data)
      BY <2>1
    <3>4. Wrote(r.fs, F, n, data, offset, r.val < 0, straight)
      <4>1. r.fs = G
        BY <2>1, <3>1, Zenon
      <4> QED
        BY <3>2, <3>3, <4>1, Zenon
    <3> QED
      BY <3>3, <3>4, Zenon DEF straight
  <2>4. CASE big
    <3> DEFINE K == [G EXCEPT !.nodes[n].size = offset + len]
    <3>1. H = K
      BY <2>2, <2>4 DEF GrowTo
    <3>2. /\ Resized(K, G, n, offset + len)
          /\ \A m \in DOMAIN G.nodes, pos \in Nat : ByteAt(K, m, pos) = ByteAt(G, m, pos)
      <4>1. offset + len \in Nat
        BY <1>1
      <4> QED
        BY <1>9, <2>2, <4>1, ResizeBytes
    <3> HIDE DEF K, H
    <3>3. Resized(K, F, n, offset + len)
      BY <1>8, <3>2 DEF Resized
    <3>4. straight => Overwritten(K, F, n, data, offset, len)
      BY <1>7, <1>11, <2>2, <3>2 DEF Overwritten
    <3>5. Wrote(K, F, n, data, offset, FALSE, straight)
      <4>1. len \in 0..Len(data) /\ ~(len < Len(data))
        BY <1>1
      <4> QED
        BY <2>4, <3>3, <3>4, <4>1, WroteIs, Zenon
    <3>6. (r.val < 0) = FALSE /\ r.val = Len(data)
      BY <2>1
    <3>7. Wrote(r.fs, F, n, data, offset, r.val < 0, straight)
      <4>1. r.fs = K
        BY <2>1, <3>1, Zenon
      <4> QED
        BY <3>5, <3>6, <4>1, Zenon
    <3> QED
      BY <3>6, <3>7, Zenon DEF straight
  <2> QED
    BY <2>3, <2>4
<1> QED
  BY <1>10, <1>11, <1>5, OkParts DEF ENOMEM, straight

-----------------------------------------------------------------------------
(* The parts of a concatenation.                                           *)
LEMMA Concat ==
    ASSUME NEW T, NEW s \in Seq(T), NEW t \in Seq(T)
    PROVE  /\ s \o t \in Seq(T) /\ Len(s \o t) = Len(s) + Len(t)
           /\ \A i \in 1..Len(s) : (s \o t)[i] = s[i]
           /\ \A i \in 1..Len(t) : (s \o t)[Len(s) + i] = t[i]
           /\ t = <<>> => s \o t = s
           /\ s = <<>> => s \o t = t
<1>1. Len(s) \in Nat /\ Len(t) \in Nat
  OBVIOUS
<1>2. /\ s \o t \in Seq(T) /\ Len(s \o t) = Len(s) + Len(t)
      /\ \A i \in 1..Len(s) : (s \o t)[i] = s[i]
      /\ \A i \in 1..Len(t) : (s \o t)[Len(s) + i] = t[i]
  OBVIOUS
<1> QED
  BY <1>1, <1>2

(* The first buffers of writev as one run of bytes.                        *)
Joined(buffers, flat) ==
    /\ flat \in [0..Len(buffers) -> Seq(Nat)] /\ flat[0] = <<>>
    /\ \A k \in 1..Len(buffers) : flat[k] = flat[k - 1] \o buffers[k]
    /\ FlattenSeq(buffers) = flat[Len(buffers)]

(* They exist, the recursion of FlattenSeq being well founded.             *)
LEMMA FlattenIs ==
    ASSUME NEW buffers \in Seq(Seq(Nat))
    PROVE  \E flat : Joined(buffers, flat)
<1> DEFINE len == Len(buffers)
           T == Seq(Nat)
           step == [x \in T \X Nat |-> IF x[2] \in 1..len THEN x[1] \o buffers[x[2]]
                                       ELSE <<>>]
           Rec(g) == g = [i \in 1..len |-> IF i = 1 THEN buffers[i] ELSE g[i - 1] \o buffers[i]]
           A == CHOOSE g : Rec(g)
<1>1. len \in Nat /\ \A k \in 1..len : buffers[k] \in T
  OBVIOUS
<1>2. <<>> \in T /\ \A s \in T : <<>> \o s = s
  BY Concat
<1>3. \A s, t \in T : s \o t \in T
  OBVIOUS
<1> HIDE DEF T, len
<1>4. step \in [T \X Nat -> T]
  BY <1>1, <1>2, <1>3
<1>5. \A t \in T, k \in 1..len : step[<<t, k>>] = t \o buffers[k]
  <2> SUFFICES ASSUME NEW t \in T, NEW k \in 1..len
               PROVE  step[<<t, k>>] = t \o buffers[k]
    OBVIOUS
  <2>1. <<t, k>> \in T \X Nat /\ <<t, k>>[1] = t /\ <<t, k>>[2] = k
    BY <1>1
  <2> QED
    BY <2>1
<1> HIDE DEF step
<1>6. PICK g : Iterated(g, T, <<>>, step, len)
  <2>1. <<>> \in T /\ len \in Nat
    BY <1>1, <1>2
  <2> QED
    BY <1>4, <2>1, Iterates, Zenon
<1>7. \A k \in 1..len : g[k] = g[k - 1] \o buffers[k] /\ g[k - 1] \in T
  <2> SUFFICES ASSUME NEW k \in 1..len
               PROVE  g[k] = g[k - 1] \o buffers[k] /\ g[k - 1] \in T
    OBVIOUS
  <2>1. k - 1 \in 0..len
    BY <1>1
  <2> QED
    BY <1>5, <1>6, <2>1 DEF Iterated
<1>8. Rec([i \in 1..len |-> g[i]])
  <2> DEFINE h == [i \in 1..len |-> g[i]]
  <2>1. ASSUME NEW i \in 1..len
        PROVE  h[i] = IF i = 1 THEN buffers[i] ELSE h[i - 1] \o buffers[i]
    <3>1. CASE i = 1
      <4>1. g[i] = g[i - 1] \o buffers[i] /\ buffers[i] \in T
        BY <1>1, <1>7, Zenon
      <4>2. g[i - 1] = <<>>
        BY <1>6, <3>1 DEF Iterated
      <4> QED
        BY <1>2, <3>1, <4>1, <4>2
    <3>2. CASE i # 1
      <4>1. i - 1 \in 1..len
        BY <1>1, <3>2
      <4> QED
        BY <1>7, <3>2, <4>1
    <3> QED
      BY <3>1, <3>2
  <2> QED
    BY <2>1
<1>9. Rec(A)
  BY <1>8
<1>10. len # 0 => FlattenSeq(buffers) = A[len]
  BY DEF FlattenSeq, len
<1>11. len = 0 => FlattenSeq(buffers) = <<>>
  BY DEF FlattenSeq, len
<1> HIDE DEF A
<1>12. \A i \in 1..len : A[i] = IF i = 1 THEN buffers[i] ELSE A[i - 1] \o buffers[i]
  BY <1>9
<1> HIDE DEF Rec
<1> DEFINE B == {i \in 1..len : A[i] # g[i]}
<1>13. B = {}
  <2> SUFFICES ASSUME B # {} PROVE FALSE
    OBVIOUS
  <2>1. B \subseteq Nat
    BY <1>1
  <2>2. PICK i \in B : \A j \in B : i <= j
    BY <2>1, LeastElement
  <2>3. CASE i = 1
    <3>1. g[i] = g[i - 1] \o buffers[i] /\ buffers[i] \in T
      BY <1>1, <1>7, Zenon
    <3>2. g[i - 1] = <<>> /\ A[i] = buffers[i]
      BY <1>6, <1>12, <2>3 DEF Iterated
    <3> QED
      BY <1>2, <2>3, <3>1, <3>2
  <2>4. CASE i # 1
    <3>1. i - 1 \in 1..len /\ i - 1 \notin B
      BY <1>1, <2>2, <2>4
    <3> QED
      BY <1>7, <1>12, <2>4, <3>1
  <2> QED
    BY <2>3, <2>4
<1>14. FlattenSeq(buffers) = g[len]
  <2>1. CASE len = 0
    BY <1>6, <1>11, <2>1 DEF Iterated
  <2>2. CASE len # 0
    BY <1>1, <1>10, <1>13, <2>2
  <2> QED
    BY <2>1, <2>2
<1>15. Joined(buffers, g)
  BY <1>6, <1>7, <1>14 DEF Joined, Iterated, len, T
<1> QED
  BY <1>15

(* The room in the first buffers of readv.                                 *)
Summed(lens, sum) ==
    /\ sum \in [0..Len(lens) -> Nat] /\ sum[0] = 0
    /\ \A k \in 1..Len(lens) : sum[k] = sum[k - 1] + lens[k]
    /\ Asked(lens) = sum[Len(lens)]

(* It exists, the recursion of Asked being well founded.                   *)
LEMMA AskedIs ==
    ASSUME NEW lens \in Seq(Nat)
    PROVE  \E sum : Summed(lens, sum)
<1> DEFINE len == Len(lens)
           step == [x \in Nat \X Nat |-> IF x[2] \in 1..len THEN x[1] + lens[x[2]] ELSE 0]
           Rec(g) == g = [k \in 0..len |-> IF k = 0 THEN 0 ELSE g[k - 1] + lens[k]]
           A == CHOOSE g : Rec(g)
<1>1. len \in Nat /\ \A k \in 1..len : lens[k] \in Nat
  OBVIOUS
<1> HIDE DEF len
<1>2. step \in [Nat \X Nat -> Nat]
  BY <1>1
<1>3. \A t \in Nat, k \in 1..len : step[<<t, k>>] = t + lens[k]
  BY <1>1
<1> HIDE DEF step
<1>4. PICK g : Iterated(g, Nat, 0, step, len)
  <2>1. 0 \in Nat /\ len \in Nat
    BY <1>1
  <2> QED
    BY <1>2, <2>1, Iterates, Zenon
<1>5. \A k \in 1..len : g[k] = g[k - 1] + lens[k]
  <2> SUFFICES ASSUME NEW k \in 1..len PROVE g[k] = g[k - 1] + lens[k]
    OBVIOUS
  <2>1. k - 1 \in 0..len
    BY <1>1
  <2> QED
    BY <1>3, <1>4, <2>1 DEF Iterated
<1>6. Rec(g)
  <2>1. \A k \in 0..len : k = 0 \/ k \in 1..len
    BY <1>1
  <2> QED
    BY <1>4, <1>5, <2>1 DEF Iterated
<1>7. Rec(A)
  BY <1>6
<1>8. Asked(lens) = A[len]
  BY DEF Asked, len
<1> HIDE DEF A
<1>9. A[0] = 0 /\ \A k \in 1..len : A[k] = A[k - 1] + lens[k]
  BY <1>1, <1>7
<1> HIDE DEF Rec
<1> DEFINE B == {k \in 0..len : A[k] # g[k]}
<1>10. B = {}
  <2> SUFFICES ASSUME B # {} PROVE FALSE
    OBVIOUS
  <2>1. B \subseteq Nat
    BY <1>1
  <2>2. PICK k \in B : \A j \in B : k <= j
    BY <2>1, LeastElement
  <2>3. k \in 1..len /\ k - 1 \in 0..len
    BY <1>1, <1>4, <1>9 DEF Iterated
  <2>4. k - 1 \notin B
    BY <2>2, <2>3
  <2> QED
    BY <1>5, <1>9, <2>3, <2>4
<1>11. Summed(lens, g)
  BY <1>1, <1>4, <1>5, <1>8, <1>10 DEF Summed, Iterated, len
<1> QED
  BY <1>11

-----------------------------------------------------------------------------
(* Where a transfer of data at an offset of file n has come: it has stored *)
(* some of the data, acknowledged some of that, and unless it failed all.  *)
(* If it was not straight, any bytes may have changed.                     *)
Transferred(G, F, n, data, offset, failed, pos, straight) ==
    \E stored, done \in 0..Len(data) :
        /\ done <= stored
        /\ failed => stored < Len(data)
        /\ ~failed => done = Len(data)
        /\ pos = offset + done
        /\ straight => Overwritten(G, F, n, data, offset, stored)
        /\ Resized(G, F, n, IF done > 0 /\ offset + done > F.nodes[n].size
                            THEN offset + done ELSE F.nodes[n].size)

(* Data that begins with the same bytes stores the same.                   *)
LEMMA LongerData ==
    ASSUME NEW G, NEW F, NEW n, NEW s \in Seq(Nat), NEW data \in Seq(Nat),
           NEW offset \in Nat, NEW stored \in 0..Len(s),
           Overwritten(G, F, n, s, offset, stored)
    PROVE  Overwritten(G, F, n, s \o data, offset, stored)
<1> DEFINE t == s \o data
<1>1. Len(s) \in Nat /\ \A i \in 1..Len(s) : t[i] = s[i]
  BY Concat
<1> HIDE DEF t
<1>2. \A pos \in Nat : pos \in offset..(offset + stored - 1) =>
         t[pos - offset + 1] = s[pos - offset + 1]
  BY <1>1
<1>3. Overwritten(G, F, n, t, offset, stored)
  BY <1>2 DEF Overwritten
<1> QED
  BY <1>3 DEF t

(* Data stored behind data is their concatenation stored.                  *)
LEMMA StoredBehind ==
    ASSUME NEW H, NEW G, NEW F, DOMAIN G.nodes = DOMAIN F.nodes, NEW n,
           NEW s \in Seq(Nat), NEW data \in Seq(Nat),
           NEW offset \in Nat, NEW stored \in 0..Len(data),
           Overwritten(G, F, n, s, offset, Len(s)),
           Overwritten(H, G, n, data, offset + Len(s), stored)
    PROVE  Overwritten(H, F, n, s \o data, offset, Len(s) + stored)
<1> DEFINE t == s \o data
           l == Len(s)
<1>1. /\ l \in Nat /\ Len(data) \in Nat /\ \A i \in 1..l : t[i] = s[i]
      /\ \A i \in 1..Len(data) : t[l + i] = data[i]
  BY Concat
<1> HIDE DEF t, l
<1>2. ASSUME NEW m \in DOMAIN F.nodes, NEW pos \in Nat
      PROVE  ByteAt(H, m, pos) =
               IF m = n /\ pos \in offset..(offset + (l + stored) - 1)
               THEN t[pos - offset + 1] ELSE ByteAt(F, m, pos)
  <2>1. ByteAt(H, m, pos) =
          IF m = n /\ pos \in (offset + l)..(offset + l + stored - 1)
          THEN data[pos - (offset + l) + 1] ELSE ByteAt(G, m, pos)
    BY DEF Overwritten, l
  <2>2. ByteAt(G, m, pos) =
          IF m = n /\ pos \in offset..(offset + l - 1)
          THEN s[pos - offset + 1] ELSE ByteAt(F, m, pos)
    BY DEF Overwritten, l
  <2>3. CASE pos \in (offset + l)..(offset + l + stored - 1)
    <3> DEFINE i == pos - (offset + l) + 1
    <3>1. i \in 1..stored /\ l + i = pos - offset + 1
      BY <1>1, <2>3
    <3>2. pos \in offset..(offset + (l + stored) - 1) /\ i \in 1..Len(data)
      <4>1. stored \in Nat /\ stored <= Len(data) /\ Len(data) \in Nat /\ l \in Nat
        BY <1>1
      <4>2. pos >= offset + l /\ pos <= offset + l + stored - 1
        BY <2>3, <4>1
      <4>3. pos \in offset..(offset + (l + stored) - 1)
        BY <4>1, <4>2
      <4>4. i \in 1..Len(data)
        <5> HIDE DEF i
        <5> QED
          BY <3>1, <4>1
      <4> QED
        BY <4>3, <4>4
    <3> HIDE DEF i
    <3>3. t[pos - offset + 1] = data[i]
      BY <1>1, <3>1, <3>2
    <3> QED
      BY <2>1, <2>2, <2>3, <3>2, <3>3 DEF i
  <2>4. CASE pos \in offset..(offset + l - 1)
    <3>1. /\ pos - offset + 1 \in 1..l /\ pos \in offset..(offset + (l + stored) - 1)
          /\ pos \notin (offset + l)..(offset + l + stored - 1)
      BY <1>1, <2>4
    <3>2. t[pos - offset + 1] = s[pos - offset + 1]
      BY <1>1, <3>1
    <3> QED
      BY <2>1, <2>2, <2>4, <3>1, <3>2
  <2>5. CASE /\ pos \notin (offset + l)..(offset + l + stored - 1)
             /\ pos \notin offset..(offset + l - 1)
    <3>1. pos \notin offset..(offset + (l + stored) - 1)
      BY <1>1, <2>5
    <3> QED
      BY <2>1, <2>2, <2>5, <3>1
  <2> QED
    BY <2>3, <2>4, <2>5
<1>3. Overwritten(H, F, n, t, offset, l + stored)
  BY <1>2 DEF Overwritten
<1> QED
  BY <1>3 DEF t, l

(* A file is written by RamFs.                                             *)
LEMMA FileWrite ==
    ASSUME NEW F, NEW n, IsFile(F, n), NEW data, NEW offset
    PROVE  VnodeWrite(F, n, data, offset) = RamFsWrite(F, n, data, offset)
<1>1. F.nodes[n].ops = "ramfs" /\ ~IsDirectory(F, n)
  BY DEF IsFile, IsDirectory
<1> QED
  BY <1>1 DEF VnodeWrite

(* One more buffer that is not empty.                                      *)
LEMMA WriteBufferBytes ==
    ASSUME NEW F, NEW acc, FsOK(acc.fs), NEW n \in DOMAIN F.nodes, IsFile(acc.fs, n),
           F.nodes[n].size \in Nat,
           NEW s \in Seq(Nat), NEW data \in Seq(Nat), data # <<>>, NEW offset \in Nat,
           offset + Len(s) + Len(data) <= MaxSize,
           Transferred(acc.fs, F, n, s, offset, acc.failed, acc.offset, acc.straight),
           NEW w \in WriteBuffer(n, acc, data)
    PROVE  Transferred(w.fs, F, n, s \o data, offset, w.failed, w.offset, w.straight)
<1> DEFINE G == acc.fs
           size == F.nodes[n].size
           Sized(done) == IF done > 0 /\ offset + done > size THEN offset + done ELSE size
<1>1. Len(s) \in Nat /\ Len(data) \in Nat /\ Len(data) > 0 /\ Len(s \o data) = Len(s) + Len(data)
  BY Concat
<1>2. PICK stored \in 0..Len(s), done \in 0..Len(s) :
        /\ done <= stored
        /\ acc.failed => stored < Len(s)
        /\ ~acc.failed => done = Len(s)
        /\ acc.offset = offset + done
        /\ acc.straight => Overwritten(G, F, n, s, offset, stored)
        /\ Resized(G, F, n, Sized(done))
  BY DEF Transferred
<1>3. CASE acc.failed
  <2>1. w = acc
    BY <1>3 DEF WriteBuffer
  <2>2. acc.straight => Overwritten(G, F, n, s \o data, offset, stored)
    BY <1>2, LongerData
  <2>3. /\ stored \in 0..Len(s \o data) /\ done \in 0..Len(s \o data)
        /\ stored < Len(s \o data)
    BY <1>1, <1>2, <1>3
  <2> QED
    BY <1>2, <1>3, <2>1, <2>2, <2>3 DEF Transferred
<1>4. CASE ~acc.failed
  <2>1. stored = Len(s) /\ done = Len(s) /\ acc.offset = offset + Len(s) /\ acc.offset \in Nat
    <3>1. done = Len(s) /\ acc.offset = offset + done
      BY <1>2, <1>4, Zenon
    <3>2. done <= stored
      BY <1>2
    <3> QED
      BY <1>1, <3>1, <3>2
  <2>2. PICK r \in VnodeWrite(G, n, data, acc.offset) :
          w = [fs |-> r.fs, failed |-> r.val < 0,
               offset |-> IF r.val < 0 THEN acc.offset
                          ELSE (acc.offset + r.val) % Modulus,
               straight |-> acc.straight /\ InPlace(G, n, data, acc.offset)]
    BY <1>4 DEF WriteBuffer
  <2> DEFINE fits == InPlace(G, n, data, acc.offset)
  <2>3. /\ w.fs = r.fs /\ (w.failed <=> r.val < 0)
        /\ w.straight <=> acc.straight /\ fits
        /\ w.offset = IF r.val < 0 THEN acc.offset ELSE (acc.offset + r.val) % Modulus
    BY <2>2
  <2>4. n \in DOMAIN G.nodes /\ DOMAIN G.nodes = DOMAIN F.nodes /\ G.nodes[n].size = Sized(Len(s))
    BY <1>2, <2>1 DEF Resized
  <2>5. r \in RamFsWrite(G, n, data, acc.offset)
    BY FileWrite
  <2>6. Wrote(r.fs, G, n, data, acc.offset, r.val < 0, fits) /\ (r.val < 0 \/ r.val = Len(data))
    BY <2>1, <2>4, <2>5, RamFsWriteBytes
  <2>7. PICK more \in 0..Len(data) :
          /\ r.val < 0 <=> more < Len(data)
          /\ fits => Overwritten(r.fs, G, n, data, acc.offset, more)
          /\ Resized(r.fs, G, n, IF ~(r.val < 0) /\ acc.offset + Len(data) > G.nodes[n].size
                                 THEN acc.offset + Len(data) ELSE G.nodes[n].size)
    BY <2>6 DEF Wrote
  <2> HIDE DEF fits
  <2>8. w.straight => Overwritten(r.fs, F, n, s \o data, offset, Len(s) + more)
    BY <1>2, <2>1, <2>3, <2>4, <2>7, StoredBehind
  <2>9. CASE r.val < 0
    <3>1. Resized(r.fs, F, n, Sized(Len(s)))
      BY <1>2, <2>1, <2>4, <2>7, <2>9 DEF Resized
    <3>2. /\ Len(s) + more \in 0..Len(s \o data) /\ Len(s) \in 0..Len(s \o data)
          /\ Len(s) <= Len(s) + more /\ Len(s) + more < Len(s \o data)
      BY <1>1, <2>7, <2>9
    <3> QED
      BY <2>1, <2>3, <2>8, <2>9, <3>1, <3>2 DEF Transferred
  <2>10. CASE ~(r.val < 0)
    <3> DEFINE l == Len(s \o data)
    <3>1. more = Len(data) /\ r.val = Len(data) /\ l = Len(s) + more
      <4>1. ~(more < Len(data)) /\ r.val = Len(data)
        BY <2>6, <2>7, <2>10, Zenon
      <4>2. more = Len(data)
        BY <1>1, <4>1
      <4> QED
        BY <1>1, <4>1, <4>2
    <3>2. w.offset = offset + l
      <4>1. acc.offset + r.val = offset + l
        BY <1>1, <2>1, <3>1
      <4>2. offset + l \in 0..MaxSize
        BY <1>1, <3>1, Words
      <4> QED
        BY <2>3, <2>10, <4>1, <4>2, Words
    <3>3. (IF acc.offset + Len(data) > G.nodes[n].size
           THEN acc.offset + Len(data) ELSE G.nodes[n].size) = Sized(l)
      BY <1>1, <2>1, <2>4, <3>1
    <3>4. Resized(r.fs, G, n, Sized(l))
      BY <2>7, <2>10, <3>3
    <3> HIDE DEF Sized
    <3>5. Resized(r.fs, F, n, Sized(l))
      BY <1>2, <2>4, <3>4 DEF Resized
    <3>6. l \in 0..l /\ l <= l
      BY <1>1, <3>1
    <3> HIDE DEF l
    <3>7. w.straight => Overwritten(r.fs, F, n, s \o data, offset, l)
      BY <2>8, <3>1
    <3> QED
      BY <2>3, <2>10, <3>2, <3>5, <3>6, <3>7 DEF Transferred, Sized, l
  <2> QED
    BY <2>9, <2>10
<1> QED
  BY <1>3, <1>4

(* The positions that a transfer reaches are the ends of the joined        *)
(* buffers.                                                                *)
LEMMA JoinedReached ==
    ASSUME NEW buffers \in Seq(Seq(Nat)), NEW flat, Joined(buffers, flat), NEW offset \in Nat
    PROVE  \A k \in 0..Len(buffers) :
              Len(flat[k]) \in Nat /\ Reached(buffers, offset)[k] = offset + Len(flat[k])
<1> DEFINE len == Len(buffers)
           R == Reached(buffers, offset)
           B == {k \in 0..len : R[k] # offset + Len(flat[k])}
<1>1. len \in Nat /\ \A k \in 1..len : buffers[k] \in Seq(Nat)
  OBVIOUS
<1>2. R[0] = offset /\ \A k \in 1..len : R[k] = R[k - 1] + Len(buffers[k])
  BY <1>1, ReachedIs
<1>3. /\ \A k \in 0..len : flat[k] \in Seq(Nat)
      /\ flat[0] = <<>> /\ \A k \in 1..len : flat[k] = flat[k - 1] \o buffers[k]
  BY DEF Joined
<1> HIDE DEF R, len
<1>4. \A k \in 0..len : Len(flat[k]) \in Nat
  BY <1>3
<1>5. \A k \in 1..len : Len(flat[k]) = Len(flat[k - 1]) + Len(buffers[k])
                        /\ Len(buffers[k]) \in Nat
  <2> SUFFICES ASSUME NEW k \in 1..len
               PROVE  Len(flat[k]) = Len(flat[k - 1]) + Len(buffers[k])
                      /\ Len(buffers[k]) \in Nat
    OBVIOUS
  <2>1. k - 1 \in 0..len
    BY <1>1
  <2>2. flat[k - 1] \in Seq(Nat) /\ buffers[k] \in Seq(Nat) /\ flat[k] = flat[k - 1] \o buffers[k]
    BY <1>1, <1>3, <2>1
  <2> QED
    BY <2>2, Concat
<1>6. B = {}
  <2> SUFFICES ASSUME B # {} PROVE FALSE
    OBVIOUS
  <2>1. B \subseteq Nat
    BY <1>1
  <2>2. PICK k \in B : \A j \in B : k <= j
    BY <2>1, LeastElement
  <2>3. k # 0
    <3>1. Len(flat[0]) = 0
      BY <1>3
    <3>2. R[0] = offset + Len(flat[0])
      BY <1>2, <3>1
    <3> QED
      BY <3>2
  <2>4. k \in 1..len /\ k - 1 \in 0..len
    BY <1>1, <2>3
  <2>5. R[k - 1] = offset + Len(flat[k - 1])
    BY <2>2, <2>4
  <2>6. R[k] = R[k - 1] + Len(buffers[k])
    BY <1>2, <2>4
  <2>7. R[k] = offset + Len(flat[k])
    <3>1. Len(flat[k - 1]) \in Nat /\ Len(buffers[k]) \in Nat
      BY <1>4, <1>5, <2>4
    <3>2. Len(flat[k]) = Len(flat[k - 1]) + Len(buffers[k])
      BY <1>5, <2>4
    <3>3. \A a, b \in Nat : offset + a + b = offset + (a + b)
      OBVIOUS
    <3> QED
      BY <2>5, <2>6, <3>1, <3>2, <3>3, Zenon
  <2> QED
    BY <2>7
<1> QED
  BY <1>4, <1>6 DEF R, len

(* writev to a file: whatever it has stored when it ends is what a write   *)
(* of the joined buffers may store.                                        *)
LEMMA WriteBuffersBytes ==
    ASSUME FsOK(fs), NEW n, IsFile(fs, n), NEW buffers \in Seq(Seq(Nat)),
           NEW offset \in Nat,
           \A k \in 0..Len(buffers) : Reached(buffers, offset)[k] <= MaxSize,
           NEW w \in WriteBuffers(n, buffers, offset)
    PROVE  Transferred(w.fs, fs, n, FlattenSeq(buffers), offset, w.failed, w.offset,
                       w.straight)
<1>1. n \in DOMAIN fs.nodes /\ fs.nodes[n].size \in Nat
  <2>1. n \in DOMAIN fs.nodes
    BY DEF IsFile
  <2>2. fs.nodes[n] \in Nodes
    BY <2>1 DEF FsOK, FsTypes
  <2>3. fs.nodes[n].size \in 0..MaxSize
    BY <2>2 DEF Nodes
  <2> QED
    BY <2>1, <2>3, Words
<1>2. PICK flat : Joined(buffers, flat)
  BY FlattenIs
<1> DEFINE len == Len(buffers)
           Good(acc, k) ==
               /\ FsOK(acc.fs) /\ Extends(acc.fs.nodes, fs.nodes)
               /\ Transferred(acc.fs, fs, n, flat[k], offset, acc.failed, acc.offset,
                              acc.straight)
<1>3. len \in Nat /\ \A k \in 1..len : buffers[k] \in Seq(Nat)
  OBVIOUS
<1>4. PICK accs : Outcomes(n, buffers, offset, accs)
  BY <1>3, WriteBuffersIs
<1>5. WriteBuffers(n, buffers, offset) = accs[len] /\ accs[0] = {Started(offset)}
  BY <1>4 DEF Outcomes
<1>6. ASSUME NEW k \in 1..len
      PROVE  accs[k] = IF buffers[k] = <<>> THEN accs[k - 1]
                       ELSE UNION {WriteBuffer(n, acc, buffers[k]) : acc \in accs[k - 1]}
  BY <1>4, Zenon DEF Outcomes
<1>7. /\ \A k \in 0..len : flat[k] \in Seq(Nat)
      /\ flat[0] = <<>> /\ \A k \in 1..len : flat[k] = flat[k - 1] \o buffers[k]
      /\ FlattenSeq(buffers) = flat[len]
  BY <1>2 DEF Joined
<1>8. \A k \in 0..len : Len(flat[k]) \in Nat /\ offset + Len(flat[k]) <= MaxSize
  BY <1>2, JoinedReached
<1> HIDE DEF len
<1>9. \A acc \in accs[0] : Good(acc, 0)
  <2> SUFFICES ASSUME NEW acc \in accs[0] PROVE Good(acc, 0)
    OBVIOUS
  <2>1. acc = Started(offset)
    BY <1>5
  <2>2. acc.fs = fs /\ acc.offset = offset /\ ~acc.failed
    BY <2>1 DEF Started
  <2>3. Extends(fs.nodes, fs.nodes)
    <3>1. fs.nodes \in Seq(Nodes)
      BY DEF FsOK, FsTypes
    <3>2. Len(fs.nodes) \in Nat /\ \A m \in DOMAIN fs.nodes : Len(fs.nodes[m].children) \in Nat
      BY <3>1, NodeFacts
    <3> QED
      BY <3>2 DEF Extends
  <2> DEFINE s == flat[0]
  <2>4. Len(s) = 0
    BY <1>7
  <2>5. Overwritten(fs, fs, n, s, offset, 0)
    BY DEF Overwritten
  <2>6. Resized(fs, fs, n, fs.nodes[n].size)
    BY DEF Resized
  <2> HIDE DEF s
  <2>7. Transferred(fs, fs, n, s, offset, acc.failed, offset, acc.straight)
    <3>1. 0 \in 0..Len(s) /\ 0 <= 0 /\ 0 = Len(s) /\ offset = offset + 0 /\ ~(0 > 0)
      BY <2>4
    <3>2. Resized(fs, fs, n, IF 0 > 0 /\ offset + 0 > fs.nodes[n].size
                             THEN offset + 0 ELSE fs.nodes[n].size)
      BY <2>6, <3>1
    <3> QED
      BY <2>2, <2>5, <3>1, <3>2, Zenon DEF Transferred
  <2> QED
    BY <2>2, <2>3, <2>7 DEF s
<1>10. ASSUME NEW k \in 1..len, NEW acc, Good(acc, k - 1), buffers[k] # <<>>,
              NEW v \in WriteBuffer(n, acc, buffers[k])
       PROVE  Good(v, k)
  <2>1. k - 1 \in 0..len /\ k \in 0..len
    BY <1>3
  <2>2. /\ flat[k - 1] \in Seq(Nat) /\ buffers[k] \in Seq(Nat)
        /\ flat[k] = flat[k - 1] \o buffers[k]
    BY <1>3, <1>7, <2>1
  <2>3. Len(flat[k]) = Len(flat[k - 1]) + Len(buffers[k])
    BY <2>2, Concat
  <2>4. /\ Len(flat[k - 1]) \in Nat /\ Len(buffers[k]) \in Nat
        /\ offset + Len(flat[k - 1]) + Len(buffers[k]) <= MaxSize
    <3>1. Len(flat[k - 1]) \in Nat /\ offset + Len(flat[k]) <= MaxSize
      BY <1>8, <2>1
    <3>2. Len(buffers[k]) \in Nat
      BY <2>2
    <3>3. offset + (Len(flat[k - 1]) + Len(buffers[k])) <= MaxSize
      BY <2>3, <3>1
    <3>4. \A a, b \in Nat : offset + a + b = offset + (a + b)
      OBVIOUS
    <3> QED
      BY <3>1, <3>2, <3>3, <3>4, Zenon
  <2>5. /\ n \in DOMAIN acc.fs.nodes /\ IsFile(acc.fs, n)
    BY <1>1, <1>10, ExtendsKeeps
  <2>6. PICK done \in 0..Len(flat[k - 1]) : acc.offset = offset + done
    BY <1>10 DEF Transferred
  <2>7. /\ acc.offset \in 0..(Modulus - 1)
        /\ IsFile(acc.fs, n) /\ ~acc.failed => acc.offset + Len(buffers[k]) <= MaxSize
    <3> DEFINE l == Len(flat[k - 1])
               b == Len(buffers[k])
    <3>1. l \in Nat /\ b \in Nat /\ offset + l + b <= MaxSize /\ done \in 0..l
      BY <2>4
    <3> HIDE DEF l, b
    <3>2. acc.offset + b <= MaxSize /\ acc.offset \in Nat
      BY <2>6, <3>1, Words
    <3>3. acc.offset \in 0..(Modulus - 1)
      BY <3>1, <3>2, Words
    <3> QED
      BY <3>2, <3>3 DEF b
  <2>8. FsOK(v.fs) /\ Extends(v.fs.nodes, acc.fs.nodes)
    BY <1>10, <2>4, <2>5, <2>7, WriteBufferOK
  <2>9. Extends(v.fs.nodes, fs.nodes)
    <3>1. /\ fs.nodes \in Seq(Nodes) /\ acc.fs.nodes \in Seq(Nodes)
          /\ v.fs.nodes \in Seq(Nodes)
      BY <1>10, <2>8 DEF FsOK, FsTypes
    <3> QED
      BY <1>10, <2>8, <3>1, ExtendsTwice
  <2>10. Transferred(v.fs, fs, n, flat[k - 1] \o buffers[k], offset, v.failed, v.offset,
                     v.straight)
    BY <1>1, <1>10, <2>2, <2>4, <2>5, WriteBufferBytes
  <2> QED
    BY <2>2, <2>8, <2>9, <2>10
<1> HIDE DEF Good
<1> DEFINE B == {k \in 0..len : \E acc \in accs[k] : ~Good(acc, k)}
<1>11. B = {}
  <2> SUFFICES ASSUME B # {} PROVE FALSE
    OBVIOUS
  <2>1. B \subseteq Nat
    BY <1>3
  <2>2. PICK k \in B : \A j \in B : k <= j
    BY <2>1, LeastElement
  <2>3. k \in 1..len /\ k - 1 \in 0..len
    BY <1>3, <1>9
  <2>4. k - 1 \notin B
    BY <2>2, <2>3
  <2>5. \A acc \in accs[k - 1] : Good(acc, k - 1)
    BY <2>3, <2>4
  <2>6. PICK v \in accs[k] : ~Good(v, k)
    OBVIOUS
  <2>7. CASE buffers[k] = <<>>
    <3>1. v \in accs[k - 1]
      BY <1>6, <2>3, <2>6, <2>7
    <3>2. Good(v, k - 1)
      BY <2>5, <3>1
    <3>3. flat[k - 1] \in Seq(Nat) /\ buffers[k] \in Seq(Nat) /\ flat[k] = flat[k - 1] \o buffers[k]
      BY <1>3, <1>7, <2>3
    <3>4. flat[k] = flat[k - 1]
      BY <2>7, <3>3, Concat
    <3> QED
      BY <2>6, <3>2, <3>4 DEF Good
  <2>8. CASE buffers[k] # <<>>
    <3>1. \E acc \in accs[k - 1] : v \in WriteBuffer(n, acc, buffers[k])
      <4>1. accs[k] = UNION {WriteBuffer(n, acc, buffers[k]) : acc \in accs[k - 1]}
        BY <1>6, <2>3, <2>8, Zenon
      <4> QED
        BY <2>6, <4>1
    <3> QED
      BY <1>10, <2>3, <2>5, <2>6, <2>8, <3>1
  <2> QED
    BY <2>7, <2>8
<1>12. Good(w, len)
  <2>1. len \in 0..len /\ w \in accs[len]
    BY <1>3, <1>5
  <2> QED
    BY <1>11, <2>1
<1> QED
  BY <1>7, <1>12 DEF Good

-----------------------------------------------------------------------------
(* How many bytes a file has from a position on.                           *)
Left(n, offset) ==
    IF offset >= fs.nodes[n].size THEN 0 ELSE fs.nodes[n].size - offset
Least(a, b) == IF a < b THEN a ELSE b

(* A read that has come to count bytes.                                    *)
ReadTo(n, offset, count, short) ==
    [offset |-> offset + count,
     data |-> [i \in 1..count |-> ByteAt(fs, n, offset + i - 1)], short |-> short,
     fault |-> FALSE]

(* Two runs of values are one.                                             *)
LEMMA JoinRuns ==
    ASSUME NEW S, NEW c \in [Nat -> S], NEW a \in Nat, NEW b \in Nat
    PROVE  [i \in 1..a |-> c[i]] \o [i \in 1..b |-> c[a + i]] = [i \in 1..(a + b) |-> c[i]]
<1> DEFINE s == [i \in 1..a |-> c[i]]
           t == [i \in 1..b |-> c[a + i]]
           u == s \o t
<1>1. s \in Seq(S) /\ Len(s) = a /\ \A i \in 1..a : s[i] = c[i]
  OBVIOUS
<1>2. t \in Seq(S) /\ Len(t) = b /\ \A i \in 1..b : t[i] = c[a + i]
  OBVIOUS
<1> HIDE DEF s, t
<1>3. /\ u \in Seq(S) /\ Len(u) = a + b
      /\ \A i \in 1..a : u[i] = s[i]
      /\ \A i \in 1..b : u[a + i] = t[i]
  <2>1. /\ u \in Seq(S) /\ Len(u) = Len(s) + Len(t)
        /\ \A i \in 1..Len(s) : u[i] = s[i]
        /\ \A i \in 1..Len(t) : u[Len(s) + i] = t[i]
    <3>1. s \in Seq(S) /\ t \in Seq(S)
      BY <1>1, <1>2
    <3> QED
      BY <3>1
  <2> HIDE DEF u
  <2> QED
    BY <1>1, <1>2, <2>1
<1> HIDE DEF u
<1>4. \A i \in 1..(a + b) : u[i] = c[i]
  <2> SUFFICES ASSUME NEW i \in 1..(a + b) PROVE u[i] = c[i]
    OBVIOUS
  <2>1. CASE i <= a
    BY <1>1, <1>3, <2>1
  <2>2. CASE ~(i <= a)
    <3>1. i - a \in 1..b /\ a + (i - a) = i
      BY <2>2
    <3> QED
      BY <1>2, <1>3, <3>1
  <2> QED
    BY <2>1, <2>2
<1>5. u = [i \in 1..(a + b) |-> u[i]]
  BY <1>3
<1>6. u = [i \in 1..(a + b) |-> c[i]]
  BY <1>4, <1>5
<1> QED
  BY <1>6 DEF u, s, t

(* The positions up to the end of a file are machine words.                *)
LEMMA LeftOK ==
    ASSUME FsOK(fs), NEW n, IsFile(fs, n), NEW offset \in 0..(Modulus - 1)
    PROVE  /\ n \in DOMAIN fs.nodes /\ fs.nodes[n].size \in 0..MaxSize
           /\ Left(n, offset) \in Nat
           /\ \A c \in 0..Left(n, offset) :
                 offset + c \in 0..(Modulus - 1) /\ (offset + c) % Modulus = offset + c
<1>1. n \in DOMAIN fs.nodes
  BY DEF IsFile
<1>2. fs.nodes[n] \in Nodes
  BY <1>1 DEF FsOK, FsTypes
<1>3. fs.nodes[n].size \in 0..MaxSize
  BY <1>2 DEF Nodes
<1> DEFINE size == fs.nodes[n].size
<1>4. Modulus \in Nat /\ MaxSize \in Nat /\ MaxSize < Modulus
  BY Words
<1> HIDE DEF size
<1>5. Left(n, offset) = IF offset >= size THEN 0 ELSE size - offset
  BY DEF Left, size
<1>6. size \in 0..MaxSize
  BY <1>3 DEF size
<1>7. Left(n, offset) \in Nat
  BY <1>4, <1>5, <1>6
<1>8. ASSUME NEW c \in 0..Left(n, offset)
      PROVE  offset + c \in 0..(Modulus - 1) /\ (offset + c) % Modulus = offset + c
  <2>1. offset + c \in 0..(Modulus - 1)
    BY <1>4, <1>5, <1>6
  <2>2. ASSUME NEW m \in Nat, NEW x \in 0..(m - 1)
        PROVE  x % m = x
    OBVIOUS
  <2> QED
    BY <1>4, <2>1, <2>2
<1> QED
  BY <1>1, <1>3, <1>7, <1>8

(* The bytes there are from a position on, and the code's count of them.   *)
There(size, pos, len) ==
    IF pos >= size THEN 0 ELSE IF pos + len > size THEN size - pos ELSE len
CountOf(size, pos, len) ==
    IF pos >= size THEN 0
    ELSE IF (pos + len) % Modulus > size THEN size - pos ELSE len

(* The count of a read that fits some buffer is cut at the end of the      *)
(* file; one that does not has wrapped.                                    *)
LEMMA CountIs ==
    ASSUME NEW size \in 0..MaxSize, NEW pos \in 0..(Modulus - 1), NEW len \in Nat
    PROVE  /\ CountOf(size, pos, len) \in Nat
           /\ CountOf(size, pos, len) <= BufferMax =>
                 CountOf(size, pos, len) = There(size, pos, len)
           /\ CountOf(size, pos, len) > BufferMax => pos + len >= Modulus
<1> DEFINE count == CountOf(size, pos, len)
<1>1. /\ Modulus \in Nat /\ MaxSize \in Nat /\ BufferMax \in Nat
      /\ MaxSize <= BufferMax /\ MaxSize + BufferMax < Modulus
  BY RamFsAssumption, FileSystemAssumption
<1>2. ASSUME NEW m \in Nat, NEW x \in 0..(m - 1)
      PROVE  x % m = x
  OBVIOUS
<1>3. pos + len < Modulus => (pos + len) % Modulus = pos + len
  BY <1>1, <1>2
<1> DEFINE end == (pos + len) % Modulus
<1>4. count = IF pos >= size THEN 0 ELSE IF end > size THEN size - pos ELSE len
  BY DEF CountOf
<1>5. pos + len < Modulus => end = pos + len
  BY <1>3
<1> HIDE DEF end, count
<1>6. /\ count \in Nat
      /\ count <= BufferMax => count = There(size, pos, len)
      /\ count > BufferMax => pos + len >= Modulus
  BY <1>1, <1>4, <1>5 DEF There
<1> QED
  BY <1>6 DEF count

(* One more buffer of readv.                                               *)
LEMMA ReadMore ==
    ASSUME FsOK(fs), NEW n, IsFile(fs, n), NEW offset \in 0..(Modulus - 1),
           NEW a \in Nat, NEW len \in Nat
    PROVE  LET left == Left(n, offset)
               next == ReadBuffer(n, ReadTo(n, offset, Least(left, a), left < a), len)
           IN  \/ next = ReadTo(n, offset, Least(left, a + len), left < a + len)
               \/ next.fault = TRUE /\ offset + (a + len) >= Modulus
<1> DEFINE left == Left(n, offset)
           acc == ReadTo(n, offset, Least(left, a), left < a)
           goal == ReadTo(n, offset, Least(left, a + len), left < a + len)
           size == fs.nodes[n].size
<1>1. /\ left \in Nat /\ size \in 0..MaxSize /\ MaxSize \in Nat
      /\ left = IF offset >= size THEN 0 ELSE size - offset
      /\ \A c \in 0..left : (offset + c) % Modulus = offset + c
  BY LeftOK, Words DEF Left
<1> DEFINE next == ReadBuffer(n, acc, len)
<1> SUFFICES next = goal \/ (next.fault = TRUE /\ offset + (a + len) >= Modulus)
  OBVIOUS
<1>2. CASE left < a \/ len = 0
  <2>1. (acc.short <=> left < a) /\ ~acc.fault
    BY DEF ReadTo
  <2>2. ReadBuffer(n, acc, len) = acc
    <3> HIDE DEF acc
    <3> QED
      BY <1>2, <2>1 DEF ReadBuffer
  <2> HIDE DEF left
  <2>3. Least(left, a) = Least(left, a + len) /\ (left < a) = (left < a + len)
    BY <1>1, <1>2 DEF Least
  <2>4. acc = goal
    BY <2>3, Zenon
  <2> HIDE DEF acc, goal
  <2> QED
    BY <2>2, <2>4 DEF next
<1>3. CASE ~(left < a \/ len = 0)
  <2> DEFINE count == ReadCount(fs, n, len, offset + a)
             data == VnodeRead(fs, n, len, offset + a)
             c == [i \in Nat |-> ByteAt(fs, n, offset + i - 1)]
             S == {c[i] : i \in Nat}
  <2>1. Least(left, a) = a
    BY <1>3 DEF Least
  <2>2. acc = ReadTo(n, offset, a, left < a)
    BY <2>1
  <2>3. /\ acc.offset = offset + a /\ ~acc.short /\ ~acc.fault
        /\ acc = [offset |-> offset + a, data |-> acc.data, short |-> acc.short,
                  fault |-> FALSE]
        /\ acc.data = [i \in 1..a |-> ByteAt(fs, n, offset + i - 1)]
    BY <1>3, <2>2 DEF ReadTo
  <2>4. fs.nodes[n].ops = "ramfs"
    BY DEF IsFile
  <2>5. data = RamFsRead(fs, n, len, offset + a)
    BY <2>4 DEF VnodeRead
  <2>6. data = [i \in 1..count |-> ByteAt(fs, n, ((offset + a) + i - 1) % Modulus)]
    BY <2>5 DEF RamFsRead, Bytes
  <2>7. count = CountOf(size, offset + a, len)
    BY DEF ReadCount, CountOf
  <2>8. offset + a \in 0..(Modulus - 1)
    <3>1. a \in 0..left
      BY <1>1, <1>3
    <3> QED
      BY <3>1, LeftOK
  <2> HIDE DEF left, count, data, acc, size
  <2>9. /\ count \in Nat
        /\ count <= BufferMax => count = There(size, offset + a, len)
        /\ count > BufferMax => offset + a + len >= Modulus
    BY <1>1, <2>7, <2>8, CountIs
  <2>10. Len(data) = count
    BY <2>6, <2>9
  <2>11. data = VnodeRead(fs, n, len, acc.offset)
    BY <2>3 DEF data
  <2>12. CASE count > BufferMax
    <3>1. ReadBuffer(n, acc, len) = [acc EXCEPT !.fault = TRUE]
      BY <1>3, <2>3, <2>10, <2>11, <2>12 DEF ReadBuffer
    <3>2. [acc EXCEPT !.fault = TRUE].fault = TRUE
      BY <2>3
    <3>3. offset + (a + len) >= Modulus
      BY <2>9, <2>12
    <3> QED
      BY <3>1, <3>2, <3>3
  <2> SUFFICES ASSUME ~(count > BufferMax) PROVE ReadBuffer(n, acc, len) = goal
    BY <2>12
  <2>13. count = There(size, offset + a, len)
    <3>1. count <= BufferMax
      <4>1. BufferMax \in Nat /\ count \in Nat
        BY <2>9, FileSystemAssumption
      <4> HIDE DEF count
      <4> QED
        BY <4>1
    <3> QED
      BY <2>9, <3>1, Zenon
  <2>14. count \in Nat /\ a + count = Least(left, a + len) /\ (count < len <=> left < a + len)
         /\ a + count \in 0..left
    BY <1>1, <1>3, <2>13 DEF Least, There
  <2>15. data = [i \in 1..count |-> ByteAt(fs, n, (offset + a) + i - 1)]
    <3>1. ASSUME NEW i \in 1..count
          PROVE  ((offset + a) + i - 1) % Modulus = (offset + a) + i - 1
      <4>1. a + i - 1 \in 0..left /\ offset + (a + i - 1) = (offset + a) + i - 1
        BY <1>1, <2>14
      <4> QED
        BY <1>1, <4>1
    <3> QED
      BY <2>6, <3>1
  <2>16. ReadBuffer(n, acc, len)
           = [offset |-> (acc.offset + Len(data)) % Modulus,
              data |-> acc.data \o data, short |-> Len(data) < len, fault |-> FALSE]
    BY <1>3, <2>3, <2>10, <2>11 DEF ReadBuffer
  <2>17. (acc.offset + Len(data)) % Modulus = offset + (a + count)
    <3>1. acc.offset + Len(data) = offset + (a + count)
      BY <2>3, <2>14, <2>10
    <3> QED
      BY <1>1, <2>14, <3>1
  <2>18. acc.data \o data = [i \in 1..(a + count) |-> ByteAt(fs, n, offset + i - 1)]
    <3>1. c \in [Nat -> S]
      OBVIOUS
    <3>2. [i \in 1..a |-> c[i]] = acc.data
      BY <2>3
    <3>3. [i \in 1..count |-> c[a + i]] = data
      <4>1. \A i \in 1..count : c[a + i] = ByteAt(fs, n, (offset + a) + i - 1)
        <5> SUFFICES ASSUME NEW i \in 1..count
                     PROVE  c[a + i] = ByteAt(fs, n, (offset + a) + i - 1)
          OBVIOUS
        <5>1. a + i \in Nat /\ offset + (a + i) - 1 = (offset + a) + i - 1
          BY <2>14
        <5>2. c[a + i] = ByteAt(fs, n, offset + (a + i) - 1)
          BY <5>1
        <5> QED
          BY <5>1, <5>2
      <4> HIDE DEF c
      <4> QED
        BY <2>15, <4>1
    <3>4. [i \in 1..(a + count) |-> c[i]]
            = [i \in 1..(a + count) |-> ByteAt(fs, n, offset + i - 1)]
      BY <2>14
    <3> HIDE DEF c, S
    <3>5. [i \in 1..a |-> c[i]] \o [i \in 1..count |-> c[a + i]]
            = [i \in 1..(a + count) |-> c[i]]
      BY <2>14, <3>1, JoinRuns
    <3> QED
      BY <3>2, <3>3, <3>4, <3>5, Zenon
  <2>19. (Len(data) < len) = (left < a + len)
    BY <2>14, <2>10
  <2>20. ReadBuffer(n, acc, len) = ReadTo(n, offset, a + count, left < a + len)
    BY <2>16, <2>17, <2>18, <2>19 DEF ReadTo
  <2> QED
    BY <2>14, <2>20
<1> QED
  BY <1>2, <1>3

(* readv on a file reads all that is asked for, or all there is, however   *)
(* many buffers it is given, unless it runs off one of them.               *)
LEMMA ReadBuffersBytes ==
    ASSUME FsOK(fs), NEW n, IsFile(fs, n), NEW offset \in 0..(Modulus - 1),
           NEW lens \in Seq(Nat)
    PROVE  /\ Asked(lens) \in Nat
           /\ LET read == ReadBuffers(n, lens, offset)
              IN  \/ read = ReadTo(n, offset, Least(Left(n, offset), Asked(lens)),
                                   Left(n, offset) < Asked(lens))
                  \/ read.fault = TRUE /\ offset + Asked(lens) >= Modulus
<1> DEFINE len == Len(lens)
           left == Left(n, offset)
           start == [offset |-> offset, data |-> <<>>, short |-> FALSE, fault |-> FALSE]
           Rec(g) == g = [k \in 0..len |-> IF k = 0 THEN start
                                           ELSE ReadBuffer(n, g[k - 1], lens[k])]
           A == CHOOSE g : Rec(g)
<1>1. len \in Nat /\ \A k \in 1..len : lens[k] \in Nat
  OBVIOUS
<1>2. PICK sum : Summed(lens, sum)
  BY AskedIs
<1>3. /\ sum \in [0..len -> Nat] /\ sum[0] = 0 /\ Asked(lens) = sum[len]
      /\ \A k \in 1..len : sum[k] = sum[k - 1] + lens[k]
  BY <1>2 DEF Summed
<1>4. left \in Nat
  BY LeftOK
<1>5. ReadBuffers(n, lens, offset) = A[len]
  BY DEF ReadBuffers
<1> HIDE DEF len
<1> DEFINE At(k) == ReadTo(n, offset, Least(left, sum[k]), left < sum[k])
           Off == {k \in 1..len : At(k) # ReadBuffer(n, At(k - 1), lens[k])}
<1>6. At(0) = start
  <2> HIDE DEF left
  <2>1. Least(left, sum[0]) = 0 /\ (left < sum[0]) = FALSE
    BY <1>3, <1>4 DEF Least
  <2>2. offset + 0 = offset /\ 1..0 = {}
    OBVIOUS
  <2>3. [i \in 1..0 |-> ByteAt(fs, n, offset + i - 1)] = <<>>
    BY <2>2
  <2> QED
    BY <2>1, <2>2, <2>3 DEF ReadTo
<1>7. ASSUME NEW k \in Off
      PROVE  LET next == ReadBuffer(n, At(k - 1), lens[k])
             IN  next.fault = TRUE /\ offset + sum[k] >= Modulus
  <2>1. k - 1 \in 0..len
    BY <1>1
  <2>2. sum[k - 1] \in Nat /\ lens[k] \in Nat /\ sum[k] = sum[k - 1] + lens[k]
    BY <1>1, <1>3, <2>1
  <2> DEFINE a == sum[k - 1]
             b == lens[k]
  <2>3. a \in Nat /\ b \in Nat /\ sum[k] = a + b
    BY <2>2
  <2> HIDE DEF a, b
  <2> DEFINE next == ReadBuffer(n, ReadTo(n, offset, Least(left, a), left < a), b)
  <2>4. \/ next = ReadTo(n, offset, Least(left, a + b), left < a + b)
        \/ next.fault = TRUE /\ offset + (a + b) >= Modulus
    BY <2>3, ReadMore
  <2>5. At(k) = ReadTo(n, offset, Least(left, a + b), left < a + b)
    BY <2>3
  <2>6. At(k - 1) = ReadTo(n, offset, Least(left, a), left < a)
    BY DEF a
  <2>7. next = ReadBuffer(n, At(k - 1), lens[k])
    BY <2>6 DEF b
  <2>8. next # ReadTo(n, offset, Least(left, a + b), left < a + b)
    BY <2>5, <2>7
  <2> HIDE DEF next, At
  <2> QED
    BY <2>3, <2>4, <2>7, <2>8
<1> HIDE DEF At, start
<1>8. PICK f \in 1..(len + 1) : /\ \A k \in Off : f <= k
                                /\ f \in Off \/ (f = len + 1 /\ Off = {})
  <2>1. CASE Off = {}
    <3>1. len + 1 \in 1..(len + 1)
      BY <1>1
    <3> HIDE DEF Off
    <3> QED
      BY <2>1, <3>1
  <2>2. CASE Off # {}
    <3>1. Off \subseteq Nat
      BY <1>1
    <3>2. PICK f \in Off : \A k \in Off : f <= k
      BY <2>2, <3>1, LeastElement
    <3>3. f \in 1..(len + 1)
      BY <1>1, <3>2
    <3> QED
      BY <3>2, <3>3
  <2> QED
    BY <2>1, <2>2
<1> DEFINE X == ReadBuffer(n, At(f - 1), lens[f])
           h == [k \in 0..len |-> IF k < f THEN At(k) ELSE X]
<1>9. f <= len => f \in Off
  BY <1>1, <1>8
<1>10. f <= len => X.fault = TRUE /\ offset + sum[f] >= Modulus
  BY <1>7, <1>9
<1>11. ASSUME NEW k \in 1..len, k < f PROVE At(k) = ReadBuffer(n, At(k - 1), lens[k])
  <2>1. k \notin Off
    BY <1>1, <1>8, <1>11
  <2> QED
    BY <2>1
<1> HIDE DEF Off
<1>12. ASSUME f <= len, NEW l PROVE ReadBuffer(n, X, l) = X
  <2>1. X.fault
    BY <1>10, <1>12
  <2> HIDE DEF X
  <2> QED
    BY <2>1 DEF ReadBuffer
<1> HIDE DEF X
<1>13. ASSUME NEW k \in 0..len
       PROVE  h[k] = IF k = 0 THEN start ELSE ReadBuffer(n, h[k - 1], lens[k])
  <2>1. CASE k = 0
    BY <1>1, <1>6, <1>8, <2>1
  <2>2. CASE k # 0 /\ k < f
    <3>1. k \in 1..len /\ k - 1 \in 0..len /\ k - 1 < f
      BY <1>1, <1>8, <2>2
    <3> QED
      BY <1>11, <2>2, <3>1
  <2>3. CASE k # 0 /\ k = f
    <3>1. k - 1 \in 0..len /\ k - 1 < f
      BY <1>1, <1>8, <2>3
    <3> QED
      BY <1>8, <2>3, <3>1 DEF X
  <2>4. CASE k # 0 /\ f < k
    <3>1. k - 1 \in 0..len /\ ~(k - 1 < f) /\ f <= len /\ ~(k < f)
      BY <1>1, <1>8, <2>4
    <3> QED
      BY <1>12, <2>4, <3>1
  <2> QED
    BY <1>8, <2>1, <2>2, <2>3, <2>4
<1>14. Rec(h)
  <2>1. h = [k \in 0..len |-> h[k]]
    OBVIOUS
  <2>2. \A k \in 0..len : h[k] = IF k = 0 THEN start ELSE ReadBuffer(n, h[k - 1], lens[k])
    BY <1>13
  <2> HIDE DEF h
  <2> QED
    BY <2>1, <2>2
<1>15. Rec(A)
  BY <1>14
<1> HIDE DEF A
<1>16. A[0] = start /\ \A k \in 1..len : A[k] = ReadBuffer(n, A[k - 1], lens[k])
  BY <1>1, <1>15
<1> HIDE DEF Rec
<1>17. /\ h[0] = start /\ \A k \in 1..len : h[k] = ReadBuffer(n, h[k - 1], lens[k])
       /\ \A k \in 0..len : h[k] = IF k < f THEN At(k) ELSE X
  <2>1. 0 \in 0..len /\ \A k \in 1..len : k \in 0..len /\ k # 0
    BY <1>1
  <2>2. \A k \in 0..len : h[k] = IF k < f THEN At(k) ELSE X
    OBVIOUS
  <2> HIDE DEF h
  <2> QED
    BY <1>13, <2>1, <2>2
<1> HIDE DEF h
<1> DEFINE B == {k \in 0..len : A[k] # h[k] \/ (f <= k /\ ~(sum[f] <= sum[k]))}
<1>18. B = {}
  <2> SUFFICES ASSUME B # {} PROVE FALSE
    OBVIOUS
  <2>1. B \subseteq Nat
    BY <1>1
  <2>2. PICK k \in B : \A j \in B : k <= j
    BY <2>1, LeastElement
  <2>3. k \in 1..len /\ k - 1 \in 0..len /\ k \in Nat
    BY <1>1, <1>16, <1>8, <1>17
  <2>4. k - 1 \notin B
    BY <2>2, <2>3
  <2>5. A[k - 1] = h[k - 1] /\ (f <= k - 1 => sum[f] <= sum[k - 1])
    BY <2>3, <2>4
  <2>6. A[k] = h[k]
    BY <1>16, <1>17, <2>3, <2>5
  <2>7. f <= k => sum[f] <= sum[k]
    <3>1. /\ sum[k] = sum[k - 1] + lens[k] /\ sum[k - 1] \in Nat /\ lens[k] \in Nat
          /\ sum[k] \in Nat
      BY <1>1, <1>3, <2>3
    <3>2. CASE f <= k - 1
      <4>1. f \in 0..len
        BY <1>1, <1>8, <2>3, <3>2
      <4>2. sum[f] \in Nat
        BY <1>3, <4>1
      <4> QED
        BY <2>5, <3>1, <3>2, <4>2
    <3>3. CASE f = k
      BY <3>1, <3>3
    <3> QED
      BY <1>8, <2>3, <3>2, <3>3
  <2> QED
    BY <2>6, <2>7
<1>19. len \in 0..len
  BY <1>1
<1>20. A[len] = h[len] /\ (f <= len => sum[f] <= sum[len])
  BY <1>18, <1>19
<1>21. CASE len < f
  <2>1. A[len] = At(len)
    BY <1>19, <1>20, <1>17, <1>21
  <2> QED
    BY <1>3, <1>5, <1>19, <2>1 DEF At
<1>22. CASE f <= len
  <2>1. A[len] = X /\ X.fault = TRUE /\ offset + sum[f] >= Modulus /\ sum[f] <= sum[len]
    BY <1>1, <1>19, <1>20, <1>8, <1>10, <1>17, <1>22
  <2>2. sum[f] \in Nat /\ sum[len] \in Nat /\ Modulus \in Nat
    BY <1>1, <1>3, <1>19, <1>8, <1>22, Words
  <2>3. offset + sum[len] >= Modulus
    BY <2>1, <2>2
  <2> QED
    BY <1>3, <1>5, <1>19, <2>1, <2>3
<1>23. len < f \/ f <= len
  BY <1>1, <1>8
<1> QED
  BY <1>21, <1>22, <1>23, Zenon

-----------------------------------------------------------------------------
(* The files are among the vnodes that open makes.                         *)
FilesBehind(F) ==
    BootNodes <= Len(F.nodes) /\ \A n \in 1..BootNodes : ~IsFile(F, n)

(* They stay there.                                                        *)
LEMMA FilesStayBehind ==
    ASSUME NEW F, FsOK(F), NEW G, FsOK(G), Extends(G.nodes, F.nodes), FilesBehind(F)
    PROVE  FilesBehind(G)
<1>1. Len(F.nodes) \in Nat /\ Len(G.nodes) \in Nat /\ DOMAIN F.nodes = 1..Len(F.nodes)
  BY DEF FsOK, FsTypes
<1>2. BootNodes <= Len(G.nodes)
  BY <1>1 DEF Extends, FilesBehind, BootNodes
<1>3. 1..BootNodes \subseteq DOMAIN F.nodes
  BY <1>1 DEF FilesBehind, BootNodes
<1>4. \A n \in 1..BootNodes : ~IsFile(G, n)
  BY <1>3, ExtendsKeeps DEF FilesBehind
<1> QED
  BY <1>2, <1>4 DEF FilesBehind

(* What a byte file needs to know of a file.                               *)
LEMMA FileRange ==
    ASSUME NEW F, FsOK(F), FilesBehind(F), NEW n, IsFile(F, n)
    PROVE  n \in Files /\ n \in DOMAIN F.nodes /\ n # 0 /\ F.nodes[n].size \in 0..MaxSize
<1>1. n \in DOMAIN F.nodes /\ F.nodes \in Seq(Nodes) /\ Len(F.nodes) <= MaxNodes
  BY DEF FsOK, FsTypes, IsFile
<1>2. n \in 1..Len(F.nodes) /\ Len(F.nodes) \in Nat /\ F.nodes[n] \in Nodes
  BY <1>1
<1>3. n \notin 1..BootNodes
  BY DEF FilesBehind
<1>4. n \in Files
  BY <1>1, <1>2, <1>3, RamFsAssumption DEF Files, BootNodes
<1> QED
  BY <1>1, <1>2, <1>4 DEF Nodes

(* The invariant of the refinement.                                        *)
RInv == IInv /\ FilesBehind(fs)

(* It holds of the tree that start_kernel makes.                           *)
LEMMA InitRInv == Init => RInv
<1> SUFFICES ASSUME Init PROVE RInv
  OBVIOUS
<1>1. fs = Boot /\ IInv
  BY InitIInv DEF Init
<1>2. Len(Boot.nodes) = BootNodes
  BY FileSystemAssumption
<1>3. FilesBehind(fs)
  BY <1>1, <1>2, BootOK DEF FilesBehind, NoFiles, BootNodes
<1> QED
  BY <1>1, <1>3 DEF RInv

(* Every call keeps it.                                                    *)
LEMMA NextRInv == RInv /\ [Next]_vars => RInv'
<1> SUFFICES ASSUME RInv, [Next]_vars PROVE RInv'
  OBVIOUS
<1>1. IInv'
  BY NextIInv DEF RInv
<1>2. FilesBehind(fs')
  <2>1. CASE Next
    <3>1. FsOK(fs') /\ Extends(fs'.nodes, fs.nodes) /\ FsOK(fs) /\ FilesBehind(fs)
      BY <2>1, NextExtends DEF RInv, IInv
    <3> QED
      BY <3>1, FilesStayBehind
  <2>2. CASE UNCHANGED vars
    BY <2>2 DEF RInv, vars
  <2> QED
    BY <2>1, <2>2
<1> QED
  BY <1>1, <1>2 DEF RInv, FilesBehind, IsFile

(* It holds after every call, so open is the only call that makes a file.  *)
THEOREM FilesInvariance == Spec => []RInv
<1> QED
  BY InitRInv, NextRInv, PTL DEF Spec

-----------------------------------------------------------------------------
(* What a byte file sees of a file system F.                               *)
ContentOf(F) == [n \in Files |->
                    IF IsFile(F, n) THEN [pos \in 0..MaxSize |-> ByteAt(F, n, pos)]
                    ELSE [pos \in 0..MaxSize |-> 0]]
SizeOf(F) == [n \in Files |-> IF IsFile(F, n) THEN F.nodes[n].size ELSE 0]

(* That is what FileSystem maps to a byte file, before and after a step.   *)
LEMMA Seen ==
    /\ FileContent = ContentOf(fs) /\ FileContent' = ContentOf(fs')
    /\ FileSize = SizeOf(fs) /\ FileSize' = SizeOf(fs')
BY DEF FileContent, ContentOf, FileSize, SizeOf, IsFile, ByteAt

(* The positions of the descriptions that do not change.                   *)
LEMMA OnePosition ==
    ASSUME IInv, FsOK(fs'), Extends(fs'.nodes, fs.nodes), NEW d \in Descs,
           \A e \in Descs \ {d} : desc'[e] = desc[e]
    PROVE  /\ FileAt' = [FileAt EXCEPT ![d] = FileAt'[d]]
           /\ desc'[d] = desc[d] => FileAt' = FileAt
<1>1. ASSUME NEW e \in Descs, desc'[e] = desc[e]
      PROVE  FileAt'[e] = FileAt[e]
  <2>1. CASE Unused(fds, e)
    <3>1. desc[e].vnode = 0
      BY <2>1 DEF IInv, Slots, NoDesc
    <3>2. 0 \notin DOMAIN fs.nodes /\ 0 \notin DOMAIN fs'.nodes
      BY DEF IInv, FsOK, FsTypes
    <3> QED
      BY <1>1, <3>1, <3>2 DEF FileAt, IsFile
  <2>2. CASE ~Unused(fds, e)
    <3>1. desc[e].vnode \in DOMAIN fs.nodes
      BY <2>2 DEF IInv, Slots, DescOK
    <3>2. IsFile(fs', desc[e].vnode) <=> IsFile(fs, desc[e].vnode)
      BY <3>1, ExtendsKeeps DEF IInv
    <3> QED
      BY <1>1, <3>2 DEF FileAt, IsFile
  <2> QED
    BY <2>1, <2>2
<1>2. DOMAIN FileAt = Descs /\ DOMAIN FileAt' = Descs /\ FileAt = [e \in Descs |-> FileAt[e]]
      /\ FileAt' = [e \in Descs |-> FileAt'[e]]
  BY DEF FileAt
<1>3. \A e \in Descs \ {d} : FileAt'[e] = FileAt[e]
  BY <1>1
<1>4. desc'[d] = desc[d] => FileAt'[d] = FileAt[d]
  BY <1>1
<1> HIDE DEF FileAt
<1> QED
  BY <1>2, <1>3, <1>4

-----------------------------------------------------------------------------
(* A file system in which no byte and no size of a file changes, and where *)
(* a new file is empty, looks the same.                                    *)
LEMMA SameFiles ==
    ASSUME NEW F, FsOK(F), NEW G, FsOK(G), Extends(G.nodes, F.nodes),
           \A n \in DOMAIN F.nodes, pos \in Nat : ByteAt(G, n, pos) = ByteAt(F, n, pos),
           \A n \in (DOMAIN G.nodes) \ (DOMAIN F.nodes) :
               G.nodes[n].size = 0 /\ \A pos \in Nat : ByteAt(G, n, pos) = 0
    PROVE  /\ ContentOf(G) = ContentOf(F)
           /\ (\A n \in DOMAIN F.nodes : IsFile(F, n) => G.nodes[n].size = F.nodes[n].size)
                 => SizeOf(G) = SizeOf(F)
<1>1. 0..MaxSize \subseteq Nat
  BY Words
<1>2. \A n \in DOMAIN F.nodes : IsFile(G, n) <=> IsFile(F, n)
  BY ExtendsKeeps
<1>3. ASSUME NEW n \in Files PROVE ContentOf(G)[n] = ContentOf(F)[n]
  <2>1. CASE n \in DOMAIN F.nodes
    BY <1>1, <1>2, <2>1 DEF ContentOf
  <2>2. CASE n \notin DOMAIN F.nodes
    <3>1. ContentOf(F)[n] = [pos \in 0..MaxSize |-> 0]
      BY <2>2 DEF ContentOf, IsFile
    <3>2. CASE n \in DOMAIN G.nodes
      <4>1. \A pos \in 0..MaxSize : ByteAt(G, n, pos) = 0
        BY <1>1, <2>2, <3>2
      <4> QED
        BY <3>1, <4>1 DEF ContentOf
    <3>3. CASE n \notin DOMAIN G.nodes
      BY <3>1, <3>3 DEF ContentOf, IsFile
    <3> QED
      BY <3>2, <3>3
  <2> QED
    BY <2>1, <2>2
<1>4. ContentOf(G) = ContentOf(F)
  <2>1. /\ ContentOf(G) = [n \in Files |-> ContentOf(G)[n]]
        /\ ContentOf(F) = [n \in Files |-> ContentOf(F)[n]]
    BY DEF ContentOf
  <2> QED
    BY <1>3, <2>1
<1>5. ASSUME \A n \in DOMAIN F.nodes : IsFile(F, n) => G.nodes[n].size = F.nodes[n].size
      PROVE  SizeOf(G) = SizeOf(F)
  <2>1. ASSUME NEW n \in Files PROVE SizeOf(G)[n] = SizeOf(F)[n]
    <3>1. CASE n \in DOMAIN F.nodes
      BY <1>2, <1>5, <3>1 DEF SizeOf
    <3>2. CASE n \notin DOMAIN F.nodes
      BY <3>2 DEF SizeOf, IsFile
    <3> QED
      BY <3>1, <3>2
  <2>2. /\ SizeOf(G) = [n \in Files |-> SizeOf(G)[n]]
        /\ SizeOf(F) = [n \in Files |-> SizeOf(F)[n]]
    BY DEF SizeOf
  <2> QED
    BY <2>1, <2>2
<1> QED
  BY <1>4, <1>5

(* A new file is empty.                                                    *)
LEMMA GrownFiles ==
    ASSUME NEW F, FsOK(F), NEW G, FsOK(G), Extends(G.nodes, F.nodes),
           NEW node, Fresh(node), Grown(G.nodes, F.nodes, node), G.mem = F.mem
    PROVE  ContentOf(G) = ContentOf(F) /\ SizeOf(G) = SizeOf(F)
<1>1. /\ Len(F.nodes) \in Nat /\ DOMAIN F.nodes = 1..Len(F.nodes)
      /\ DOMAIN G.nodes = 1..(Len(F.nodes) + 1)
  BY DEF FsOK, FsTypes, Grown
<1>2. \A n \in DOMAIN F.nodes : G.nodes[n].vmo = F.nodes[n].vmo /\ G.nodes[n].size = F.nodes[n].size
  BY DEF Grown
<1>3. \A n \in DOMAIN F.nodes, pos \in Nat : ByteAt(G, n, pos) = ByteAt(F, n, pos)
  BY <1>2 DEF ByteAt
<1>4. ASSUME NEW n \in (DOMAIN G.nodes) \ (DOMAIN F.nodes)
      PROVE  G.nodes[n].size = 0 /\ \A pos \in Nat : ByteAt(G, n, pos) = 0
  <2>1. n = Len(F.nodes) + 1
    BY <1>1, <1>4
  <2>2. G.nodes[n].size = 0 /\ G.nodes[n].vmo = <<>>
    BY <2>1 DEF Grown, Fresh
  <2>3. ASSUME NEW pos \in Nat PROVE Page(pos) \notin DOMAIN <<>>
    OBVIOUS
  <2> QED
    BY <2>2, <2>3 DEF ByteAt
<1> QED
  BY <1>2, <1>3, <1>4, SameFiles

(* Another size for a file.                                                *)
LEMMA SizeOfResized ==
    ASSUME NEW F, FsOK(F), NEW G, FsOK(G), Extends(G.nodes, F.nodes), FilesBehind(F),
           NEW n, IsFile(F, n), NEW size \in Nat, Resized(G, F, n, size)
    PROVE  SizeOf(G) = [SizeOf(F) EXCEPT ![n] = size]
<1>1. n \in Files
  BY FileRange
<1>2. \A m \in DOMAIN F.nodes : IsFile(G, m) <=> IsFile(F, m)
  BY ExtendsKeeps
<1>3. ASSUME NEW m \in Files PROVE SizeOf(G)[m] = IF m = n THEN size ELSE SizeOf(F)[m]
  <2>1. CASE m \in DOMAIN F.nodes
    BY <1>2, <2>1 DEF SizeOf, Resized
  <2>2. CASE m \notin DOMAIN F.nodes
    BY <2>2 DEF SizeOf, IsFile, Resized
  <2> QED
    BY <2>1, <2>2
<1>4. /\ SizeOf(G) = [m \in Files |-> SizeOf(G)[m]]
      /\ SizeOf(F) = [m \in Files |-> SizeOf(F)[m]]
  BY DEF SizeOf
<1> QED
  BY <1>1, <1>3, <1>4

(* Truncation changes the size of a file and no byte.                      *)
LEMMA ResizedFiles ==
    ASSUME NEW F, FsOK(F), FilesBehind(F), NEW n \in DOMAIN F.nodes
    PROVE  LET G == [F EXCEPT !.nodes[n].size = 0]
           IN  /\ ContentOf(G) = ContentOf(F)
               /\ ~IsFile(F, n) => SizeOf(G) = SizeOf(F)
               /\ IsFile(F, n) => n \in Files /\ SizeOf(G) = [SizeOf(F) EXCEPT ![n] = 0]
<1> DEFINE G == [F EXCEPT !.nodes[n].size = 0]
<1>1. FsOK(G) /\ Extends(G.nodes, F.nodes) /\ DOMAIN G.nodes = DOMAIN F.nodes
  BY ResizeOK, Words
<1>2. /\ Resized(G, F, n, 0)
      /\ \A m \in DOMAIN F.nodes, pos \in Nat : ByteAt(G, m, pos) = ByteAt(F, m, pos)
  BY ResizeBytes
<1> HIDE DEF G
<1>3. /\ ContentOf(G) = ContentOf(F)
      /\ (\A m \in DOMAIN F.nodes : IsFile(F, m) => G.nodes[m].size = F.nodes[m].size)
            => SizeOf(G) = SizeOf(F)
  BY <1>1, <1>2, SameFiles
<1>4. ASSUME ~IsFile(F, n) PROVE SizeOf(G) = SizeOf(F)
  BY <1>2, <1>3, <1>4 DEF Resized
<1>5. ASSUME IsFile(F, n) PROVE n \in Files /\ SizeOf(G) = [SizeOf(F) EXCEPT ![n] = 0]
  BY <1>1, <1>2, <1>5, FileRange, SizeOfResized
<1> QED
  BY <1>3, <1>4, <1>5 DEF G

-----------------------------------------------------------------------------
(* A table in which one slot changes: at most the description that was in  *)
(* it, or one that is given, changes.                                      *)
LEMMA SlotChanges ==
    ASSUME IInv, NEW g \in Fds, NEW v, NEW d \in Descs, fds[g] \in {Closed, d},
           NEW descs, \A e \in Descs \ {d} : descs[e] = desc[e],
           SetTable([fds EXCEPT ![g] = v], descs)
    PROVE  \A e \in Descs \ {d} : desc'[e] = desc[e]
<1> DEFINE table == [fds EXCEPT ![g] = v]
<1>1. SUFFICES ASSUME NEW e \in Descs \ {d} PROVE desc'[e] = desc[e]
  OBVIOUS
<1>2. desc'[e] = IF Unused(table, e) THEN NoDesc ELSE desc[e]
  BY <1>1 DEF SetTable
<1>3. ASSUME Unused(table, e) PROVE desc[e] = NoDesc
  <2>1. fds \in [Fds -> Descs \cup {Closed}] /\ (Unused(fds, e) => desc[e] = NoDesc)
    BY DEF IInv, Slots
  <2>2. Closed \notin Descs
    BY FileSystemAssumption DEF Descs
  <2>3. ASSUME NEW fd \in Fds PROVE fds[fd] # e
    <3>1. CASE fd = g
      BY <2>2, <3>1, <1>1
    <3>2. CASE fd # g
      BY <1>3, <2>1, <2>3, <3>2 DEF Unused
    <3> QED
      BY <3>1, <3>2
  <2> QED
    BY <2>1, <2>3 DEF Unused
<1> QED
  BY <1>2, <1>3

(* close, dup and dup2 are moves.                                          *)
LEMMA SlotMove ==
    ASSUME IInv, NEW g \in Fds, NEW v, SetTable([fds EXCEPT ![g] = v], desc),
           io' = NoTransfer, UNCHANGED fs
    PROVE  BF!Move
<1>1. FsOK(fs') /\ Extends(fs'.nodes, fs.nodes)
  BY SameExtends
<1>2. PICK d \in Descs : fds[g] \in {Closed, d}
  <2>1. fds[g] \in Descs \cup {Closed}
    BY DEF IInv, Slots
  <2>2. 1 \in Descs
    BY FileSystemAssumption DEF Descs
  <2> QED
    BY <2>1, <2>2
<1>3. \A e \in Descs \ {d} : desc'[e] = desc[e]
  BY <1>2, SlotChanges
<1>4. FileAt' = [FileAt EXCEPT ![d] = FileAt'[d]]
  BY <1>1, <1>3, OnePosition
<1>5. FileContent' = FileContent /\ FileSize' = FileSize
  BY Seen
<1> QED
  BY <1>4, <1>5 DEF BF!Move, BF!NoTransfer, NoTransfer

-----------------------------------------------------------------------------
(* What open may do to the file system: nothing, make an empty file, or    *)
(* truncate what it finds.                                                 *)
Opened(G, F) ==
    \/ G = F
    \/ \E n \in DOMAIN F.nodes : G = [F EXCEPT !.nodes[n].size = 0]
    \/ G.mem = F.mem /\ \E node : Fresh(node) /\ Grown(G.nodes, F.nodes, node)

(* Create does that.                                                       *)
LEMMA CreateOpened ==
    ASSUME NEW F, FsOK(F), NEW dir \in DOMAIN F.nodes, NEW name \in Seq(Texts)
    PROVE  Opened(Create(F, dir, name).fs, F)
<1> DEFINE node == RamFsNode("Regular", name)
           G == InsertChild(F, dir, node).fs
<1>1. Fresh(node)
  BY ConstructorsFresh DEF Callbacks
<1>2. G.mem = F.mem /\ (G = F \/ Grown(G.nodes, F.nodes, node))
  BY <1>1, InsertChildKeeps
<1>3. Create(F, dir, name).fs = F \/ Create(F, dir, name).fs = G
  BY OkParts DEF Create
<1> HIDE DEF node, G
<1> QED
  BY <1>1, <1>2, <1>3 DEF Opened

(* So does open with O_CREAT, wherever the path leads.                     *)
LEMMA CreateAtOpened ==
    ASSUME NEW F, FsOK(F), NEW path \in Seq(Texts), path # <<>>
    PROVE  Opened(CreateAt(F, path).fs, F)
<1>1. Root \in DOMAIN F.nodes
  BY DEF Root, FsOK, FsTypes
<1>2. CASE Len(path) = 1 \/ (Len(path) = 2 /\ path[1] = "")
  BY <1>1, <1>2, CreateOpened DEF CreateAt
<1>3. CASE ~(Len(path) = 1 \/ (Len(path) = 2 /\ path[1] = ""))
  <2> DEFINE parent == PathToVnode(F, Front(path))
             name == <<Last(path)>>
  <2>1. Front(path) \in Seq(Texts) /\ name \in Seq(Texts)
    BY PathParts
  <2>2. IsVnode(F, parent)
    BY <2>1, PathToVnodeOK
  <2> HIDE DEF parent, name
  <2>3. CreateAt(F, path) = IF parent < 0 THEN Ok(F, parent) ELSE Create(F, parent, name)
    BY <1>3 DEF CreateAt, parent, name
  <2>4. CASE parent < 0
    BY <2>3, <2>4, OkParts DEF Opened
  <2>5. CASE ~(parent < 0)
    <3>1. parent \in DOMAIN F.nodes
      BY <2>2, <2>5 DEF IsVnode
    <3> QED
      BY <2>1, <2>3, <2>5, <3>1, CreateOpened
  <2> QED
    BY <2>4, <2>5
<1> QED
  BY <1>2, <1>3

(* And so does open.                                                       *)
LEMMA TargetOpened ==
    ASSUME NEW F, FsOK(F), NEW path \in Seq(Texts), path # <<>>, NEW flags
    PROVE  Opened(OpenTarget(F, path, flags).fs, F)
<1> DEFINE found == PathToVnode(F, path)
           G == [F EXCEPT !.nodes[found].size = 0]
<1>1. IsVnode(F, found)
  BY PathToVnodeOK
<1>2. CASE found > 0
  <2>1. found \in DOMAIN F.nodes
    BY <1>1, <1>2 DEF IsVnode
  <2>2. OpenTarget(F, path, flags) = Ok(IF "O_TRUNC" \in flags THEN G ELSE F, found)
    BY <1>2 DEF OpenTarget
  <2>3. Opened(G, F) /\ Opened(F, F)
    BY <2>1 DEF Opened
  <2> QED
    BY <2>2, <2>3, OkParts
<1>3. CASE ~(found > 0)
  <2>1. OpenTarget(F, path, flags)
          = IF "O_CREAT" \in flags THEN CreateAt(F, path) ELSE Ok(F, found)
    BY <1>3 DEF OpenTarget
  <2>2. Opened(Ok(F, found).fs, F)
    BY OkParts DEF Opened
  <2> QED
    BY <2>1, <2>2, CreateAtOpened
<1> QED
  BY <1>2, <1>3

(* open is a move or a truncation.                                         *)
LEMMA OpenBytes ==
    ASSUME RInv, NEW path \in Paths, NEW flags \in OpenFlags, SysOpen(path, flags)
    PROVE  BF!Move \/ BF!Truncate
<1> DEFINE target == OpenTarget(fs, path, flags)
           n == target.val
           x == [vnode |-> n, offset |-> IF "O_APPEND" \in flags THEN target.fs.nodes[n].size
                                         ELSE 0]
<1>1. path \in Seq(Texts) /\ path # <<>> /\ IInv /\ FsOK(fs) /\ FilesBehind(fs)
  BY PathTexts DEF RInv, IInv
<1>2. Answer(fs, target) /\ Opened(target.fs, fs)
  BY <1>1, OpenTargetOK, TargetOpened
<1>3. PICK d \in Descs :
        /\ Unused(fds, d)
        /\ fs' = target.fs
        /\ io' = NoTransfer
        /\ IF n < 0 \/ AllocateFd(fds, d) = {}
           THEN UNCHANGED <<fds, desc, seen>>
           ELSE \E table \in AllocateFd(fds, d) : SetTable(table, [desc EXCEPT ![d] = x])
  BY DEF SysOpen
<1>4. FsOK(fs') /\ Extends(fs'.nodes, fs.nodes) /\ Opened(fs', fs)
  BY <1>2, <1>3 DEF Answer
<1> HIDE DEF target, x
<1>5. \A e \in Descs \ {d} : desc'[e] = desc[e]
  <2>1. CASE UNCHANGED <<fds, desc, seen>>
    BY <2>1
  <2>2. CASE \E table \in AllocateFd(fds, d) : SetTable(table, [desc EXCEPT ![d] = x])
    <3>1. PICK g \in Fds : /\ fds[g] = Closed
                           /\ SetTable([fds EXCEPT ![g] = d], [desc EXCEPT ![d] = x])
      BY <2>2 DEF AllocateFd, FirstFreeFrom
    <3>2. \A e \in Descs \ {d} : [desc EXCEPT ![d] = x][e] = desc[e]
      BY <1>1 DEF IInv, Slots
    <3> QED
      BY <1>1, <3>1, <3>2, SlotChanges
  <2> QED
    BY <1>3, <2>1, <2>2
<1>6. FileAt' = [FileAt EXCEPT ![d] = FileAt'[d]]
  BY <1>1, <1>4, <1>5, OnePosition
<1>7. CASE FileContent' = FileContent /\ FileSize' = FileSize
  BY <1>3, <1>6, <1>7 DEF BF!Move, BF!NoTransfer, NoTransfer
<1>8. CASE fs' = fs
  BY <1>7, <1>8, Seen
<1>9. CASE \E m \in DOMAIN fs.nodes : fs' = [fs EXCEPT !.nodes[m].size = 0]
  <2>1. PICK m \in DOMAIN fs.nodes : fs' = [fs EXCEPT !.nodes[m].size = 0]
    BY <1>9
  <2>2. /\ ContentOf(fs') = ContentOf(fs)
        /\ ~IsFile(fs, m) => SizeOf(fs') = SizeOf(fs)
        /\ IsFile(fs, m) => m \in Files /\ SizeOf(fs') = [SizeOf(fs) EXCEPT ![m] = 0]
    BY <1>1, <2>1, ResizedFiles
  <2>3. CASE ~IsFile(fs, m)
    BY <1>7, <2>2, <2>3, Seen
  <2>4. CASE IsFile(fs, m)
    <3>1. FileContent' = FileContent /\ m \in Files /\ FileSize' = [FileSize EXCEPT ![m] = 0]
      BY <2>2, <2>4, Seen
    <3> QED
      BY <1>3, <1>6, <3>1 DEF BF!Truncate, BF!NoTransfer, NoTransfer
  <2> QED
    BY <2>3, <2>4
<1>10. CASE fs'.mem = fs.mem /\ \E node : Fresh(node) /\ Grown(fs'.nodes, fs.nodes, node)
  <2>1. PICK node : Fresh(node) /\ Grown(fs'.nodes, fs.nodes, node)
    BY <1>10
  <2>2. ContentOf(fs') = ContentOf(fs) /\ SizeOf(fs') = SizeOf(fs)
    BY <1>1, <1>4, <1>10, <2>1, GrownFiles
  <2> QED
    BY <1>7, <2>2, Seen
<1> QED
  BY <1>4, <1>8, <1>9, <1>10 DEF Opened

(* A call that only moves the position of a description.                   *)
LEMMA OffsetMove ==
    ASSUME IInv, NEW d \in Descs, NEW pos, desc' = [desc EXCEPT ![d].offset = pos],
           UNCHANGED fs, io' = NoTransfer
    PROVE  BF!Move
<1>1. FsOK(fs') /\ Extends(fs'.nodes, fs.nodes)
  BY SameExtends
<1>2. \A e \in Descs \ {d} : desc'[e] = desc[e]
  BY DEF IInv, Slots
<1>3. FileAt' = [FileAt EXCEPT ![d] = FileAt'[d]]
  BY <1>1, <1>2, OnePosition
<1>4. FileContent' = FileContent /\ FileSize' = FileSize
  BY Seen
<1> QED
  BY <1>3, <1>4 DEF BF!Move, BF!NoTransfer, NoTransfer

-----------------------------------------------------------------------------
(* readv reads a file as a byte file.                                      *)
LEMMA ReadvBytes ==
    ASSUME RInv, NEW fd \in Fds, NEW lens \in ReadLens, SysReadv(fd, lens)
    PROVE  BF!Move \/ \E d \in Descs : BF!Read(d)
<1> DEFINE d == fds[fd]
           n == desc[d].vnode
           pos == desc[d].offset
           read == ReadBuffers(n, lens, pos)
<1>1. IInv /\ FsOK(fs) /\ FilesBehind(fs)
  BY DEF RInv, IInv
<1>2. d \in Descs /\ pos \in 0..(Modulus - 1) /\ desc \in [Descs -> Descriptions]
  BY <1>1, OpenFd DEF SysReadv, Descriptions, IInv, Slots
<1>3. /\ desc' = [desc EXCEPT ![d].offset = read.offset] /\ UNCHANGED fs /\ ~read.fault
      /\ io' = IF IsFile(fs, n)
               THEN [op |-> "read", data |-> read.data, asked |-> Asked(lens)]
               ELSE NoTransfer
  BY DEF SysReadv, GetFd
<1>4. CASE ~IsFile(fs, n)
  <2>1. io' = NoTransfer
    BY <1>3, <1>4
  <2> HIDE DEF read, d
  <2> QED
    BY <1>1, <1>2, <1>3, <2>1, OffsetMove
<1>5. CASE IsFile(fs, n)
  <2> DEFINE count == Least(Left(n, pos), Asked(lens))
  <2>1. lens \in Seq(Nat)
    BY FileSystemAssumption
  <2>2. /\ Asked(lens) \in Nat
        /\ read = ReadTo(n, pos, count, Left(n, pos) < Asked(lens))
    BY <1>1, <1>2, <1>3, <1>5, <2>1, ReadBuffersBytes
  <2>3. read.offset = pos + count
        /\ read.data = [i \in 1..count |-> ByteAt(fs, n, pos + i - 1)]
    BY <2>2 DEF ReadTo
  <2>4. n \in Files /\ n # 0 /\ fs.nodes[n].size \in 0..MaxSize
    BY <1>1, <1>5, FileRange
  <2>5. FileAt[d] = <<n, pos>> /\ FileAt \in [Descs -> Int \X Int]
    <3>1. \A e \in Descs : desc[e].vnode \in Int /\ desc[e].offset \in Int
      BY <1>2, Words DEF Descriptions
    <3> QED
      BY <1>2, <1>5, <3>1 DEF FileAt
  <2>6. FileAt[d][1] = n /\ FileAt[d][2] = pos /\ FileAt[d] # BF!NoFile
    BY <2>4, <2>5 DEF BF!NoFile
  <2>7. FileSize[n] = fs.nodes[n].size
    BY <1>5, <2>4 DEF FileSize
  <2>8. FileContent[n] = [p \in 0..MaxSize |-> ByteAt(fs, n, p)]
    BY <1>5, <2>4 DEF FileContent
  <2>9. count \in Nat /\ \A i \in 1..count : pos + i - 1 \in 0..MaxSize
    <3>1. pos \in Nat /\ MaxSize \in Nat /\ Asked(lens) \in Nat /\ fs.nodes[n].size \in 0..MaxSize
      BY <1>2, <2>2, <2>4, Words
    <3> HIDE DEF pos, n
    <3>2. Left(n, pos) \in Nat
      BY <3>1 DEF Left
    <3>3. count \in Nat /\ count <= Left(n, pos)
      BY <3>1, <3>2 DEF Least
    <3>4. count > 0 => pos + count <= MaxSize
      BY <3>1, <3>3 DEF Left
    <3> HIDE DEF count
    <3> QED
      BY <3>1, <3>3, <3>4
  <2> HIDE DEF read
  <2>10. io'.asked = Asked(lens) /\ io'.op = "read"
         /\ io' = [op |-> "read", asked |-> io'.asked, data |-> read.data]
    BY <1>3, <1>5
  <2>11. read.data = [i \in 1..count |-> FileContent[n][pos + i - 1]]
    BY <2>3, <2>8, <2>9
  <2>12. FileAt' = [FileAt EXCEPT ![d][2] = pos + count]
    <3>1. FsOK(fs') /\ Extends(fs'.nodes, fs.nodes)
      BY <1>1, <1>3, SameExtends
    <3>2. \A e \in Descs \ {d} : desc'[e] = desc[e]
      BY <1>2, <1>3
    <3>3. FileAt' = [FileAt EXCEPT ![d] = FileAt'[d]]
      BY <1>1, <1>2, <3>1, <3>2, OnePosition
    <3>4. desc'[d].vnode = n /\ desc'[d].offset = pos + count
      BY <1>2, <1>3, <2>3 DEF Descriptions
    <3>5. FileAt'[d] = <<n, pos + count>>
      BY <1>2, <1>3, <1>5, <3>4 DEF FileAt, IsFile
    <3>6. [FileAt[d] EXCEPT ![2] = pos + count] = <<n, pos + count>>
      BY <2>5
    <3> HIDE DEF count, n, pos, d
    <3> QED
      BY <2>5, <3>3, <3>5, <3>6
  <2>13. FileContent' = FileContent /\ FileSize' = FileSize
    BY <1>3, Seen
  <2>14. count = LET left == IF pos >= FileSize[n] THEN 0 ELSE FileSize[n] - pos
                 IN  IF left < io'.asked THEN left ELSE io'.asked
    BY <2>7, <2>10 DEF Least, Left
  <2> HIDE DEF count, n, pos, d
  <2>15. BF!Read(d)
    BY <2>6, <2>10, <2>11, <2>12, <2>13, <2>14 DEF BF!Read
  <2> QED
    BY <1>2, <2>15
<1> QED
  BY <1>4, <1>5

(* A read of a file faults only if its end is past the last machine word.  *)
LEMMA ReadFaultsBytes ==
    ASSUME RInv, NEW fd \in Fds, NEW lens \in ReadLens, SysReadFaults(fd, lens)
    PROVE  BF!Hang
<1> DEFINE d == fds[fd]
           n == desc[d].vnode
           pos == desc[d].offset
           read == ReadBuffers(n, lens, pos)
<1>1. IInv /\ FsOK(fs) /\ FilesBehind(fs)
  BY DEF RInv, IInv
<1>2. d \in Descs /\ pos \in 0..(Modulus - 1) /\ lens \in Seq(Nat)
  BY <1>1, OpenFd, FileSystemAssumption DEF SysReadFaults, Descriptions
<1>3. /\ read.fault /\ UNCHANGED <<fs, desc>>
      /\ io' = [op |-> "hung", data |-> <<>>, file |-> IsFile(fs, n), asked |-> Asked(lens)]
  BY DEF SysReadFaults, GetFd
<1>4. io'.op = "hung" /\ io'.file = IsFile(fs, n) /\ io'.asked = Asked(lens)
  BY <1>3
<1>5. UNCHANGED <<FileContent, FileSize, FileAt>>
  BY <1>3, Seen DEF FileAt, IsFile
<1> HIDE DEF read, d
<1>6. ASSUME IsFile(fs, n)
      PROVE  FileAt[d] # BF!NoFile /\ FileAt[d][2] + Asked(lens) >= Modulus
  <2>1. pos + Asked(lens) >= Modulus
    <3>1. \A c, s : ReadTo(n, pos, c, s).fault = FALSE
      BY DEF ReadTo
    <3>2. \/ \E c, s : read = ReadTo(n, pos, c, s)
          \/ pos + Asked(lens) >= Modulus
      <4> HIDE DEF n, pos
      <4> QED
        BY <1>1, <1>2, <1>6, ReadBuffersBytes, Zenon DEF read
    <3> QED
      BY <1>3, <3>1, <3>2, Zenon
  <2>2. FileAt[d] = <<n, pos>>
    BY <1>2, <1>6 DEF FileAt
  <2>3. n # 0
    BY <1>1, <1>6, FileRange
  <2> QED
    BY <2>1, <2>2, <2>3 DEF BF!NoFile
<1> HIDE DEF n, pos
<1> QED
  BY <1>2, <1>4, <1>5, <1>6 DEF BF!Hang

-----------------------------------------------------------------------------
(* The files of a file system have the same positions as those of another. *)
LEMMA ContentShape ==
    ASSUME NEW F, NEW G
    PROVE  ContentOf(G) =
             [m \in Files |-> [p \in DOMAIN ContentOf(F)[m] |-> ContentOf(G)[m][p]]]
<1>1. ASSUME NEW H, NEW m \in Files
      PROVE  /\ DOMAIN ContentOf(H)[m] = 0..MaxSize
             /\ ContentOf(H)[m] = [p \in 0..MaxSize |-> ContentOf(H)[m][p]]
  BY DEF ContentOf
<1>2. ContentOf(G) = [m \in Files |-> ContentOf(G)[m]]
  BY DEF ContentOf
<1> QED
  BY <1>1, <1>2

(* A file of which some bytes are overwritten.                             *)
LEMMA ContentOfOverwritten ==
    ASSUME NEW F, FsOK(F), NEW G, FsOK(G), Extends(G.nodes, F.nodes), FilesBehind(F),
           NEW n, IsFile(F, n), DOMAIN G.nodes = DOMAIN F.nodes,
           NEW data, NEW offset \in Nat, NEW stored \in Nat,
           Overwritten(G, F, n, data, offset, stored)
    PROVE  ContentOf(G) = [ContentOf(F) EXCEPT ![n] = [p \in DOMAIN @ |->
               IF p \in offset..(offset + stored - 1) THEN data[p - offset + 1] ELSE @[p]]]
<1> DEFINE c == ContentOf(F)[n]
           new == [p \in DOMAIN c |-> IF p \in offset..(offset + stored - 1)
                                      THEN data[p - offset + 1] ELSE c[p]]
<1>1. n \in Files /\ n \in DOMAIN F.nodes
  BY FileRange
<1>2. 0..MaxSize \subseteq Nat
  BY Words
<1>3. \A m \in DOMAIN F.nodes : IsFile(G, m) <=> IsFile(F, m)
  BY ExtendsKeeps
<1>4. c = [p \in 0..MaxSize |-> ByteAt(F, n, p)]
  BY <1>1 DEF ContentOf
<1>5. ContentOf(G)[n] = new
  <2>1. ContentOf(G)[n] = [p \in 0..MaxSize |-> ByteAt(G, n, p)]
    BY <1>1, <1>3 DEF ContentOf
  <2>2. \A p \in 0..MaxSize : ByteAt(G, n, p)
            = IF p \in offset..(offset + stored - 1) THEN data[p - offset + 1]
              ELSE ByteAt(F, n, p)
    BY <1>1, <1>2 DEF Overwritten
  <2>3. new = [p \in 0..MaxSize |-> IF p \in offset..(offset + stored - 1)
                                    THEN data[p - offset + 1] ELSE ByteAt(F, n, p)]
    BY <1>4
  <2> QED
    BY <2>1, <2>2, <2>3
<1>6. ASSUME NEW m \in Files, m # n PROVE ContentOf(G)[m] = ContentOf(F)[m]
  <2>1. CASE m \in DOMAIN F.nodes
    <3>1. \A p \in 0..MaxSize : ByteAt(G, m, p) = ByteAt(F, m, p)
      BY <1>2, <1>6, <2>1 DEF Overwritten
    <3> QED
      BY <1>3, <2>1, <3>1 DEF ContentOf
  <2>2. CASE m \notin DOMAIN F.nodes
    BY <2>2 DEF ContentOf, IsFile
  <2> QED
    BY <2>1, <2>2
<1>7. /\ ContentOf(G) = [m \in Files |-> ContentOf(G)[m]]
      /\ ContentOf(F) = [m \in Files |-> ContentOf(F)[m]]
  BY DEF ContentOf
<1>8. ContentOf(G) = [ContentOf(F) EXCEPT ![n] = new]
  <2> HIDE DEF new
  <2> QED
    BY <1>1, <1>5, <1>6, <1>7
<1> QED
  BY <1>8

(* A transfer to a file writes a byte file.                                *)
LEMMA TransferBytes ==
    ASSUME RInv, NEW d \in Descs, FsOK(fs'), Extends(fs'.nodes, fs.nodes),
           IsFile(fs, desc[d].vnode), NEW data \in Seq(Nat), NEW failed, NEW to,
           NEW straight,
           Transferred(fs', fs, desc[d].vnode, data, desc[d].offset, failed, to, straight),
           desc' = [desc EXCEPT ![d].offset = to],
           io' = [op |-> "write", data |-> data, straight |-> straight]
    PROVE  \E stored, done \in 0..Len(io'.data) : BF!Write(d, stored, done)
<1> DEFINE n == desc[d].vnode
           pos == desc[d].offset
<1>1. IInv /\ FsOK(fs) /\ FilesBehind(fs) /\ desc \in [Descs -> Descriptions]
  BY DEF RInv, IInv, Slots
<1>2. pos \in Nat /\ n \in Files /\ n # 0 /\ n \in DOMAIN fs.nodes /\ fs.nodes[n].size \in Nat
  BY <1>1, FileRange, Words DEF Descriptions
<1> DEFINE size(done) == IF done > 0 /\ pos + done > fs.nodes[n].size THEN pos + done
                         ELSE fs.nodes[n].size
<1>3. PICK stored \in 0..Len(data), done \in 0..Len(data) :
        /\ done <= stored
        /\ failed => stored < Len(data)
        /\ ~failed => done = Len(data)
        /\ to = pos + done
        /\ straight => Overwritten(fs', fs, n, data, pos, stored)
        /\ Resized(fs', fs, n, size(done))
  BY Zenon DEF Transferred
<1>4. stored \in Nat /\ done \in Nat /\ Len(data) \in Nat
  OBVIOUS
<1>5. size(done) \in Nat
  BY <1>2, <1>4
<1>6. /\ io'.data = data /\ io'.straight = straight /\ io'.op = "write"
      /\ io' = [op |-> "write", data |-> io'.data, straight |-> io'.straight]
  OBVIOUS
<1>7. FileAt[d] = <<n, pos>> /\ FileAt \in [Descs -> Int \X Int]
  <2>1. \A e \in Descs : desc[e].vnode \in Int /\ desc[e].offset \in Int
    BY <1>1, Words DEF Descriptions
  <2> QED
    BY <2>1 DEF FileAt
<1>8. FileAt[d][1] = n /\ FileAt[d][2] = pos /\ FileAt[d] # BF!NoFile
  BY <1>2, <1>7 DEF BF!NoFile
<1>9. FileAt' = [FileAt EXCEPT ![d][2] = pos + done]
  <2>1. \A e \in Descs \ {d} : desc'[e] = desc[e]
    BY <1>1
  <2>2. FileAt' = [FileAt EXCEPT ![d] = FileAt'[d]]
    BY <1>1, <2>1, OnePosition
  <2>3. desc'[d].vnode = n /\ desc'[d].offset = pos + done
    BY <1>1, <1>3 DEF Descriptions
  <2>4. IsFile(fs', n)
    BY <1>1, <1>2, ExtendsKeeps
  <2>5. FileAt'[d] = <<n, pos + done>>
    BY <2>3, <2>4 DEF FileAt, IsFile
  <2>6. [FileAt[d] EXCEPT ![2] = pos + done] = <<n, pos + done>>
    BY <1>7
  <2> HIDE DEF n, pos
  <2> QED
    BY <1>7, <2>2, <2>5, <2>6
<1>10. ASSUME straight
       PROVE  FileContent' = [FileContent EXCEPT ![n] = BF!Overwritten(@, pos, data, stored)]
  <2>1. DOMAIN fs'.nodes = DOMAIN fs.nodes
    BY <1>3 DEF Resized
  <2>2. IsFile(fs, n) /\ pos \in Nat /\ Overwritten(fs', fs, n, data, pos, stored)
    BY <1>2, <1>3, <1>10
  <2> HIDE DEF size, n, pos
  <2>3. ContentOf(fs') = [ContentOf(fs) EXCEPT ![n] = [p \in DOMAIN @ |->
          IF p \in pos..(pos + stored - 1) THEN data[p - pos + 1] ELSE @[p]]]
    BY <1>1, <1>4, <2>1, <2>2, ContentOfOverwritten
  <2> QED
    BY <2>3, Seen DEF BF!Overwritten
<1>11. FileContent' =
         [m \in Files |-> [p \in DOMAIN FileContent[m] |-> FileContent'[m][p]]]
  BY ContentShape, Seen
<1>12. FileContent' = IF io'.straight
                      THEN [FileContent EXCEPT ![n] = BF!Overwritten(@, pos, data, stored)]
                      ELSE [m \in Files |-> [p \in DOMAIN FileContent[m] |-> FileContent'[m][p]]]
  BY <1>6, <1>10, <1>11
<1>13. FileSize' = [FileSize EXCEPT ![n] = IF done > 0 /\ pos + done > @ THEN pos + done ELSE @]
  <2>1. SizeOf(fs') = [SizeOf(fs) EXCEPT ![n] = size(done)]
    BY <1>1, <1>3, <1>5, SizeOfResized
  <2>2. FileSize[n] = fs.nodes[n].size
    BY <1>2 DEF FileSize
  <2>3. size(done) = IF done > 0 /\ pos + done > FileSize[n] THEN pos + done ELSE FileSize[n]
    BY <2>2
  <2> HIDE DEF size
  <2> QED
    BY <2>1, <2>3, Seen
<1>14. done <= stored /\ (done < Len(data) => stored < Len(data))
  BY <1>3, <1>4
<1> HIDE DEF n, pos
<1>15. BF!Write(d, stored, done)
  BY <1>6, <1>8, <1>9, <1>13, <1>14, <1>12 DEF BF!Write
<1> QED
  BY <1>6, <1>15

(* A write of no bytes.                                                    *)
LEMMA NothingBytes ==
    ASSUME RInv, NEW d \in Descs, FsOK(fs'), Extends(fs'.nodes, fs.nodes),
           IsFile(fs, desc[d].vnode),
           Wrote(fs', fs, desc[d].vnode, <<>>, desc[d].offset, FALSE, TRUE),
           desc' = desc, io' = [op |-> "write", data |-> <<>>, straight |-> TRUE]
    PROVE  BF!WriteNothing(d)
<1> DEFINE n == desc[d].vnode
           pos == desc[d].offset
           size == IF pos > fs.nodes[n].size THEN pos ELSE fs.nodes[n].size
<1>1. IInv /\ FsOK(fs) /\ FilesBehind(fs) /\ desc \in [Descs -> Descriptions]
  BY DEF RInv, IInv, Slots
<1>2. pos \in Nat /\ n \in Files /\ n # 0 /\ n \in DOMAIN fs.nodes /\ fs.nodes[n].size \in Nat
  BY <1>1, FileRange, Words DEF Descriptions
<1>3. Overwritten(fs', fs, n, <<>>, pos, 0) /\ Resized(fs', fs, n, size)
  <2>1. PICK stored \in 0..Len(<<>>) :
          /\ Overwritten(fs', fs, n, <<>>, pos, stored)
          /\ Resized(fs', fs, n, IF ~FALSE /\ pos + Len(<<>>) > fs.nodes[n].size
                                 THEN pos + Len(<<>>) ELSE fs.nodes[n].size)
    BY Zenon DEF Wrote
  <2>2. stored = 0 /\ pos + Len(<<>>) = pos
    BY <1>2
  <2> QED
    BY <2>1, <2>2
<1>4. \A m \in DOMAIN fs.nodes, p \in Nat : ByteAt(fs', m, p) = ByteAt(fs, m, p)
  <2>1. \A p \in Nat : p \notin pos..(pos + 0 - 1)
    BY <1>2
  <2> HIDE DEF n, pos
  <2> QED
    BY <1>3, <2>1 DEF Overwritten
<1>5. FileContent' = FileContent
  <2>1. DOMAIN fs'.nodes = DOMAIN fs.nodes
    BY <1>3 DEF Resized
  <2>2. ContentOf(fs') = ContentOf(fs)
    BY <1>1, <1>4, <2>1, SameFiles
  <2> QED
    BY <2>2, Seen
<1>6. FileAt' = FileAt
  BY <1>1, OnePosition
<1>7. FileAt[d] = <<n, pos>>
  BY DEF FileAt
<1>8. FileAt[d][1] = n /\ FileAt[d][2] = pos /\ FileAt[d] # BF!NoFile
  BY <1>2, <1>7 DEF BF!NoFile
<1>9. FileSize' = [FileSize EXCEPT ![n] = IF pos > @ THEN pos ELSE @]
  <2>1. size \in Nat
    BY <1>2
  <2>2. SizeOf(fs') = [SizeOf(fs) EXCEPT ![n] = size]
    BY <1>1, <1>3, <2>1, SizeOfResized
  <2>3. FileSize[n] = fs.nodes[n].size
    BY <1>2 DEF FileSize
  <2> QED
    BY <2>2, <2>3, Seen
<1> HIDE DEF n, pos
<1> QED
  BY <1>5, <1>6, <1>8, <1>9 DEF BF!WriteNothing

(* What is no file takes data without changing the file system.            *)
LEMMA NoFileWrite ==
    ASSUME NEW F, FsOK(F), NEW n \in DOMAIN F.nodes, ~IsFile(F, n), NEW data, NEW offset,
           NEW r \in VnodeWrite(F, n, data, offset)
    PROVE  r.fs = F
<1>1. /\ F.nodes[n].type \in {"Directory", "Regular", "CharDevice"}
      /\ F.nodes[n].ops \in Callbacks
      /\ F.nodes[n].type = "CharDevice" => F.nodes[n].ops # "ramfs"
  <2>1. F.nodes[n] \in Nodes
    BY DEF FsOK, FsTypes
  <2>2. F.nodes[n].type = "CharDevice" => F.nodes[n].ops # "ramfs"
    BY DEF FsOK, TreeOK
  <2> QED
    BY <2>1, <2>2 DEF Nodes
<1>2. r \in {Ok(F, Len(data)), Ok(F, EPERM), Ok(F, EISDIR)}
  BY <1>1 DEF VnodeWrite, IsDirectory, IsFile, Callbacks
<1> QED
  BY <1>2, OkParts

(* Nor does one buffer of a write.                                         *)
LEMMA NoFileBuffer ==
    ASSUME FsOK(fs), NEW n \in DOMAIN fs.nodes, ~IsFile(fs, n), NEW acc, acc.fs = fs,
           NEW data, NEW w \in WriteBuffer(n, acc, data)
    PROVE  w.fs = fs
<1>1. CASE acc.failed
  BY <1>1 DEF WriteBuffer
<1>2. CASE ~acc.failed
  <2>1. PICK r \in VnodeWrite(fs, n, data, acc.offset) : w.fs = r.fs
    BY <1>2 DEF WriteBuffer
  <2> QED
    BY <2>1, NoFileWrite
<1> QED
  BY <1>1, <1>2

(* Nor do any number of them.                                              *)
LEMMA NoFileBuffers ==
    ASSUME FsOK(fs), NEW n \in DOMAIN fs.nodes, ~IsFile(fs, n),
           NEW buffers \in Seq(Seq(Nat)), NEW offset,
           NEW w \in WriteBuffers(n, buffers, offset)
    PROVE  w.fs = fs
<1> DEFINE len == Len(buffers)
<1>1. len \in Nat
  OBVIOUS
<1>2. PICK accs : Outcomes(n, buffers, offset, accs)
  BY <1>1, WriteBuffersIs
<1>3. /\ WriteBuffers(n, buffers, offset) = accs[len]
      /\ accs[0] = {Started(offset)}
  BY <1>2 DEF Outcomes
<1>4. ASSUME NEW k \in 1..len, NEW v \in accs[k]
      PROVE  \/ v \in accs[k - 1]
             \/ \E acc \in accs[k - 1] : v \in WriteBuffer(n, acc, buffers[k])
  <2>1. accs[k] = IF buffers[k] = <<>> THEN accs[k - 1]
                  ELSE UNION {WriteBuffer(n, acc, buffers[k]) : acc \in accs[k - 1]}
    BY <1>2, Zenon DEF Outcomes
  <2> QED
    BY <2>1
<1> HIDE DEF len
<1> DEFINE B == {k \in 0..len : \E acc \in accs[k] : acc.fs # fs}
<1>5. B = {}
  <2> SUFFICES ASSUME B # {} PROVE FALSE
    OBVIOUS
  <2>1. B \subseteq Nat
    BY <1>1
  <2>2. PICK k \in B : \A j \in B : k <= j
    BY <2>1, LeastElement
  <2>3. PICK v \in accs[k] : v.fs # fs
    OBVIOUS
  <2>4. k # 0
    BY <1>3, <2>3 DEF Started
  <2>5. k \in 1..len /\ k - 1 \in 0..len
    BY <1>1, <2>4
  <2>6. k - 1 \notin B
    <3> HIDE DEF B
    <3> QED
      BY <2>2, <2>5
  <2>7. \A acc \in accs[k - 1] : acc.fs = fs
    BY <2>5, <2>6
  <2> QED
    BY <1>4, <2>3, <2>5, <2>7, NoFileBuffer
<1>6. len \in 0..len /\ w \in accs[len]
  BY <1>1, <1>3
<1> QED
  BY <1>5, <1>6

(* The transfer of no bytes.                                               *)
LEMMA NothingTransferred ==
    ASSUME FsOK(fs), NEW n \in DOMAIN fs.nodes, NEW offset \in Nat, NEW straight
    PROVE  Transferred(fs, fs, n, <<>>, offset, FALSE, offset, straight)
<1>1. \A pos \in Nat : pos \notin offset..(offset + 0 - 1)
  OBVIOUS
<1>2. Overwritten(fs, fs, n, <<>>, offset, 0)
  BY <1>1 DEF Overwritten
<1>3. Resized(fs, fs, n, fs.nodes[n].size)
  BY DEF Resized
<1>4. 0 \in 0..Len(<<>>) /\ 0 = Len(<<>>) /\ offset = offset + 0 /\ ~(0 > 0) /\ 0 <= 0
  OBVIOUS
<1> QED
  BY <1>2, <1>3, <1>4, Zenon DEF Transferred

(* A buffer that is the only one.                                          *)
LEMMA OneBuffer ==
    ASSUME NEW data \in Seq(Nat), NEW offset \in Nat
    PROVE  /\ FlattenSeq(<<data>>) = data
           /\ Reached(<<data>>, offset)[1] = offset + Len(data)
<1> DEFINE buffers == <<data>>
<1>1. buffers \in Seq(Seq(Nat)) /\ Len(buffers) = 1 /\ buffers[1] = data
  OBVIOUS
<1> HIDE DEF buffers
<1>2. PICK flat : Joined(buffers, flat)
  BY <1>1, FlattenIs
<1>3. flat[0] = <<>> /\ FlattenSeq(buffers) = flat[1]
      /\ \A k \in 1..1 : flat[k] = flat[k - 1] \o buffers[k]
  BY <1>1, <1>2 DEF Joined
<1>4. flat[1] = <<>> \o data
  <2>1. 1 \in 1..1 /\ 1 - 1 = 0
    OBVIOUS
  <2>2. flat[1] = flat[0] \o buffers[1]
    BY <1>3, <2>1
  <2> QED
    BY <1>1, <1>3, <2>2
<1>5. <<>> \o data = data
  BY Concat
<1>6. \A k \in 0..1 : Reached(buffers, offset)[k] = offset + Len(flat[k])
  BY <1>1, <1>2, JoinedReached
<1>7. FlattenSeq(buffers) = data
  BY <1>3, <1>4, <1>5
<1>8. Reached(buffers, offset)[1] = offset + Len(data)
  <2>1. 1 \in 0..1 /\ flat[1] = data
    BY <1>4, <1>5
  <2> QED
    BY <1>6, <2>1
<1> QED
  BY <1>7, <1>8 DEF buffers

(* What write and writev do with one outcome.                              *)
Outcome(d, buffers, w) ==
    /\ fs' = w.fs /\ desc' = [desc EXCEPT ![d].offset = w.offset]
    /\ io' = IF IsFile(fs, desc[d].vnode)
             THEN [op |-> "write", data |-> FlattenSeq(buffers), straight |-> w.straight]
             ELSE NoTransfer

(* A call that writes has one.                                             *)
LEMMA WriteOutcomeIs ==
    ASSUME NEW fd \in Fds, NEW buffers, NEW outcomes, WriteOut(fd, buffers, outcomes)
    PROVE  \E w \in outcomes : Outcome(fds[fd], buffers, w)
BY DEF WriteOut, GetFd, Outcome

(* writev writes a byte file.                                              *)
LEMMA WritevBytes ==
    ASSUME RInv, NEW fd \in Fds, NEW buffers \in WritevData, SysWritev(fd, buffers)
    PROVE  \/ BF!Move
           \/ \E d \in Descs : \E stored, done \in 0..Len(io'.data) : BF!Write(d, stored, done)
<1> DEFINE d == fds[fd]
           n == desc[d].vnode
           offset == desc[d].offset
           outcomes == WriteBuffers(n, buffers, offset)
<1>1. IInv /\ FsOK(fs) /\ Open(fd) /\ WriteOut(fd, buffers, outcomes)
  BY DEF SysWritev, GetFd, RInv, IInv
<1>2. FsOK(fs') /\ Extends(fs'.nodes, fs.nodes) /\ buffers \in Seq(Seq(Nat))
  BY <1>1, WritevStep, FileSystemAssumption
<1> HIDE DEF outcomes
<1>3. d \in Descs /\ n \in DOMAIN fs.nodes /\ offset \in 0..(Modulus - 1)
      /\ Followed(n, buffers, offset)
  BY <1>1, WriteFd
<1>4. PICK w \in outcomes : Outcome(d, buffers, w)
  BY <1>1, WriteOutcomeIs
<1>5. w \in WriteBuffers(n, buffers, offset)
  BY DEF outcomes
<1> HIDE DEF d
<1>6. CASE ~IsFile(fs, n)
  <2>1. w.fs = fs
    <3> HIDE DEF n, offset
    <3> QED
      BY <1>1, <1>2, <1>3, <1>5, <1>6, NoFileBuffers
  <2> QED
    BY <1>1, <1>3, <1>4, <1>6, <2>1, OffsetMove DEF Outcome
<1>7. CASE IsFile(fs, n)
  <2>1. offset \in Nat /\ \A k \in 0..Len(buffers) : Reached(buffers, offset)[k] <= MaxSize
    BY <1>3, <1>7, Words DEF Followed
  <2>2. Transferred(w.fs, fs, n, FlattenSeq(buffers), offset, w.failed, w.offset,
                    w.straight)
    <3> HIDE DEF n, offset
    <3> QED
      BY <1>1, <1>2, <1>5, <1>7, <2>1, WriteBuffersBytes
  <2>3. FlattenSeq(buffers) \in Seq(Nat)
    <3>1. PICK flat : Joined(buffers, flat)
      BY <1>2, FlattenIs
    <3>2. Len(buffers) \in 0..Len(buffers)
      BY <1>2
    <3> QED
      BY <3>1, <3>2 DEF Joined
  <2> QED
    BY <1>2, <1>3, <1>4, <1>7, <2>2, <2>3, TransferBytes DEF Outcome
<1> QED
  BY <1>6, <1>7

(* So does write, but for a write of no bytes.                             *)
LEMMA WriteBytes ==
    ASSUME RInv, NEW fd \in Fds, NEW data \in WriteData, SysWrite(fd, data)
    PROVE  \/ BF!Move
           \/ \E d \in Descs :
                 \/ \E stored, done \in 0..Len(io'.data) : BF!Write(d, stored, done)
                 \/ BF!WriteNothing(d)
<1> DEFINE d == fds[fd]
           n == desc[d].vnode
           offset == desc[d].offset
           acc == Started(offset)
           outcomes == WriteBuffer(n, acc, data)
<1>1. IInv /\ FsOK(fs) /\ Open(fd) /\ WriteOut(fd, <<data>>, outcomes)
  BY DEF SysWrite, GetFd, RInv, IInv
<1>2. FsOK(fs') /\ Extends(fs'.nodes, fs.nodes) /\ data \in Seq(Nat)
  BY <1>1, WriteStep, FileSystemAssumption
<1> HIDE DEF outcomes
<1>3. d \in Descs /\ n \in DOMAIN fs.nodes /\ offset \in 0..(Modulus - 1)
      /\ Followed(n, <<data>>, offset)
  BY <1>1, WriteFd
<1>4. PICK w \in outcomes : Outcome(d, <<data>>, w)
  BY <1>1, WriteOutcomeIs
<1>5. w \in WriteBuffer(n, acc, data)
  BY DEF outcomes
<1>6. acc.fs = fs /\ acc.failed = FALSE /\ acc.offset = offset /\ acc.straight = TRUE
  BY DEF Started
<1> HIDE DEF d, acc
<1>7. CASE ~IsFile(fs, n)
  <2>1. w.fs = fs
    <3> HIDE DEF n, offset
    <3> QED
      BY <1>1, <1>3, <1>5, <1>6, <1>7, NoFileBuffer
  <2> QED
    BY <1>1, <1>3, <1>4, <1>7, <2>1, OffsetMove DEF Outcome
<1>8. CASE IsFile(fs, n)
  <2>1. offset \in Nat /\ Len(data) \in Nat
    BY <1>2, <1>3, Words
  <2>2. FlattenSeq(<<data>>) = data /\ Reached(<<data>>, offset)[1] = offset + Len(data)
    BY <1>2, <2>1, OneBuffer
  <2>3. offset + Len(data) <= MaxSize
    <3>1. 1 \in 0..Len(<<data>>)
      OBVIOUS
    <3> QED
      BY <1>3, <1>8, <2>2, <3>1 DEF Followed
  <2>4. io' = [op |-> "write", data |-> data, straight |-> w.straight]
    BY <1>4, <1>8, <2>2 DEF Outcome
  <2>5. fs' = w.fs /\ desc' = [desc EXCEPT ![d].offset = w.offset]
    BY <1>4 DEF Outcome
  <2>6. CASE data # <<>>
    <3>1. fs.nodes[n].size \in Nat
      <4>1. FilesBehind(fs)
        BY DEF RInv
      <4> QED
        BY <1>1, <1>8, <4>1, FileRange, Words
    <3>2. Transferred(acc.fs, fs, n, <<>>, offset, acc.failed, acc.offset, acc.straight)
      BY <1>1, <1>3, <1>6, <2>1, NothingTransferred
    <3>3. <<>> \in Seq(Nat) /\ offset + Len(<<>>) + Len(data) <= MaxSize
      BY <2>1, <2>3
    <3>4. Transferred(w.fs, fs, n, <<>> \o data, offset, w.failed, w.offset, w.straight)
      <4> HIDE DEF n, offset
      <4> QED
        BY <1>1, <1>2, <1>3, <1>5, <1>6, <1>8, <2>1, <2>6, <3>1, <3>2, <3>3, WriteBufferBytes
    <3>5. <<>> \o data = data
      BY <1>2, Concat
    <3>6. Transferred(fs', fs, n, data, offset, w.failed, w.offset, w.straight)
      BY <2>5, <3>4, <3>5
    <3> QED
      BY <1>2, <1>3, <1>8, <2>4, <2>5, <3>6, TransferBytes
  <2>7. CASE data = <<>>
    <3>1. InPlace(fs, n, data, offset) = TRUE
      BY <2>7 DEF InPlace
    <3>2. PICK r \in RamFsWrite(fs, n, data, offset) :
            /\ w.fs = r.fs
            /\ w.offset = IF r.val < 0 THEN offset ELSE (offset + r.val) % Modulus
            /\ w.straight = TRUE
      <4>1. VnodeWrite(fs, n, data, offset) = RamFsWrite(fs, n, data, offset)
        BY <1>8, FileWrite
      <4>2. (acc.straight /\ InPlace(acc.fs, n, data, acc.offset)) = TRUE
        BY <1>6, <3>1, Zenon
      <4> HIDE DEF n, offset
      <4>3. PICK r \in RamFsWrite(fs, n, data, offset) :
              w = [fs |-> r.fs, failed |-> r.val < 0,
                   offset |-> IF r.val < 0 THEN offset ELSE (offset + r.val) % Modulus,
                   straight |-> acc.straight /\ InPlace(acc.fs, n, data, acc.offset)]
        BY <1>5, <1>6, <4>1, Zenon DEF WriteBuffer
      <4>4. w = [fs |-> r.fs, failed |-> r.val < 0,
                 offset |-> IF r.val < 0 THEN offset ELSE (offset + r.val) % Modulus,
                 straight |-> TRUE]
        BY <4>2, <4>3, Zenon
      <4> QED
        BY <4>4
    <3>3. /\ Wrote(r.fs, fs, n, data, offset, r.val < 0, TRUE)
          /\ r.val < 0 \/ r.val = Len(data)
      <4> HIDE DEF n, offset
      <4>1. /\ Wrote(r.fs, fs, n, data, offset, r.val < 0, InPlace(fs, n, data, offset))
            /\ r.val < 0 \/ r.val = Len(data)
        BY <1>1, <1>2, <1>3, <2>1, RamFsWriteBytes, Zenon
      <4> QED
        BY <3>1, <4>1, Zenon
    <3>4. ~(r.val < 0)
      <4>1. PICK stored \in 0..Len(data) : (r.val < 0) <=> stored < Len(data)
        BY <3>3 DEF Wrote
      <4> QED
        BY <2>7, <4>1
    <3>5. w.offset = offset
      <4>1. r.val = 0 /\ offset \in 0..MaxSize
        <5>1. Len(data) = 0
          BY <2>7
        <5>2. r.val = 0
          BY <3>3, <3>4, <5>1, Zenon
        <5> HIDE DEF offset
        <5>3. offset + 0 <= MaxSize
          BY <2>3, <5>1, Zenon
        <5> QED
          BY <2>1, <5>2, <5>3, Words
      <4> QED
        BY <2>1, <3>2, <3>4, <4>1, Words
    <3>6. desc' = desc
      BY <1>1, <1>3, <2>5, <3>5 DEF IInv, Slots, Descriptions
    <3>7. Wrote(fs', fs, n, <<>>, offset, FALSE, TRUE)
      <4>1. (r.val < 0) = FALSE
        BY <3>4
      <4>2. Wrote(r.fs, fs, n, data, offset, FALSE, TRUE)
        BY <3>3, <4>1
      <4> QED
        BY <2>5, <2>7, <3>2, <4>2
    <3> QED
      BY <1>2, <1>3, <1>8, <2>4, <2>7, <3>2, <3>6, <3>7, NothingBytes
  <2> QED
    BY <2>6, <2>7
<1> QED
  BY <1>7, <1>8

-----------------------------------------------------------------------------
(* The file system of start_kernel has no files, and nothing is open.      *)
LEMMA InitBytes == Init => BF!ByteInit
<1> SUFFICES ASSUME Init PROVE BF!ByteInit
  OBVIOUS
<1>1. /\ fs = Boot /\ io = NoTransfer
      /\ \A n : ~IsFile(fs, n)
  BY BootOK DEF Init, NoFiles
<1>2. FileContent = [n \in Files |-> [pos \in 0..MaxSize |-> 0]]
  BY <1>1 DEF FileContent
<1>3. FileContent = [n \in Files |-> [pos \in DOMAIN FileContent[n] |-> 0]]
  BY <1>2
<1>4. FileSize = [n \in Files |-> 0]
  BY <1>1 DEF FileSize
<1>5. FileAt = [d \in Descs |-> <<0, 0>>]
  BY <1>1 DEF FileAt
<1> QED
  BY <1>1, <1>3, <1>4, <1>5 DEF BF!ByteInit, BF!NoTransfer, BF!NoFile, NoTransfer

(* Every call is a step of the byte files.                                 *)
LEMMA NextBytes == RInv /\ [Next]_vars => [BF!ByteNext]_(BF!vars)
<1> SUFFICES ASSUME RInv, [Next]_vars PROVE [BF!ByteNext]_(BF!vars)
  OBVIOUS
<1>1. IInv
  BY DEF RInv
<1>2. ASSUME NEW path \in Paths, NEW flags \in OpenFlags, SysOpen(path, flags)
      PROVE  BF!ByteNext
  BY <1>2, OpenBytes DEF BF!ByteNext
<1>3. ASSUME UNCHANGED vars PROVE UNCHANGED BF!vars
  <2>1. FileContent' = FileContent /\ FileSize' = FileSize /\ io' = io
    BY <1>3, Seen DEF vars
  <2>2. FileAt' = FileAt
    BY <1>3 DEF vars, FileAt, IsFile
  <2> QED
    BY <2>1, <2>2 DEF BF!vars
<1>4. ASSUME NEW path \in Paths, SysStat(path) PROVE UNCHANGED BF!vars
  BY <1>3, <1>4 DEF SysStat
<1>5. ASSUME NEW fd \in Fds, SysClose(fd) PROVE BF!ByteNext
  BY <1>1, <1>5, SlotMove DEF SysClose, FreeFd, BF!ByteNext
<1>6. ASSUME NEW fd \in Fds, NEW g \in Fds, SysDup(fd, g) PROVE BF!ByteNext
  <2>1. PICK new \in FirstFreeFrom(fds, g) :
          SetTable(AllocateFdAt(fds, new, fds[fd]), desc) /\ UNCHANGED fs /\ io' = NoTransfer
    BY <1>6 DEF SysDup
  <2>2. new \in Fds
    BY <2>1 DEF FirstFreeFrom
  <2> QED
    BY <1>1, <2>1, <2>2, SlotMove DEF AllocateFdAt, BF!ByteNext
<1>7. ASSUME NEW fd \in Fds, NEW g \in Fds, SysDup2(fd, g) PROVE BF!ByteNext
  BY <1>1, <1>7, SlotMove DEF SysDup2, AllocateFdAt, BF!ByteNext
<1>8. ASSUME NEW fd \in Fds, NEW off \in Seeks,
             NEW whence \in {"SEEK_SET", "SEEK_CUR", "SEEK_END"}, SysLseek(fd, off, whence)
      PROVE  BF!ByteNext
  <2>1. PICK pos : desc' = [desc EXCEPT ![fds[fd]].offset = pos]
    BY <1>8 DEF SysLseek, GetFd
  <2>2. UNCHANGED fs /\ io' = NoTransfer /\ fds[fd] \in Descs
    BY <1>1, <1>8, OpenFd DEF SysLseek
  <2> QED
    BY <1>1, <2>1, <2>2, OffsetMove DEF BF!ByteNext
<1>9. ASSUME NEW fd \in Fds, NEW lens \in ReadLens, SysReadv(fd, lens) PROVE BF!ByteNext
  BY <1>9, ReadvBytes DEF BF!ByteNext
<1>10. ASSUME NEW fd \in Fds, NEW lens \in ReadLens, SysReadFaults(fd, lens)
       PROVE  BF!ByteNext
  BY <1>10, ReadFaultsBytes DEF BF!ByteNext
<1>11. ASSUME NEW fd \in Fds, NEW data \in WriteData, SysWrite(fd, data) PROVE BF!ByteNext
  BY <1>11, WriteBytes DEF BF!ByteNext
<1>12. ASSUME NEW fd \in Fds, NEW buffers \in WritevData, SysWritev(fd, buffers)
       PROVE  BF!ByteNext
  BY <1>12, WritevBytes DEF BF!ByteNext
<1>13. ASSUME NEW fd \in Fds, NEW room \in Rooms, SysGetdents64(fd, room) PROVE BF!ByteNext
  <2>1. PICK pos : desc' = [desc EXCEPT ![fds[fd]].offset = pos]
    BY <1>13 DEF SysGetdents64, GetFd
  <2>2. UNCHANGED fs /\ io' = NoTransfer /\ fds[fd] \in Descs
    BY <1>1, <1>13, OpenFd DEF SysGetdents64
  <2> QED
    BY <1>1, <2>1, <2>2, OffsetMove DEF BF!ByteNext
<1> QED
  BY <1>2, <1>3, <1>4, <1>5, <1>6, <1>7, <1>8, <1>9, <1>11, <1>12, <1>13, <1>10
     DEF Next, Calls, FaultAgain

(* The calls implement byte files: whatever pages and frames a file is in, *)
(* however a write is cut into buffers, and when frames run out in the     *)
(* middle of one, sizes and positions are right, and a read returns what   *)
(* the file holds.  A write that begins a page or fills a new one stores   *)
(* its bytes and changes no other, in any file; truncation and descriptors *)
(* that share a position change nothing.  Of a write that begins inside a  *)
(* page it finds nothing is claimed but the size and the position: there   *)
(* the code is wrong (see WriteStores).                                    *)
THEOREM IsByteFile == Spec => ImplementsByteFile
<1> QED
  BY InitBytes, NextBytes, FilesInvariance, PTL DEF Spec, ImplementsByteFile, BF!ByteSpec
=============================================================================
