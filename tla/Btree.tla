------------------------------- MODULE Btree -------------------------------
(* The B+tree of vaisdb (storage/btree): keys are put and taken out one call   *)
(* at a time; leaves and inner nodes split, underfull leaves merge or borrow,  *)
(* and a root that lost its last separator gives way to its child. What fits   *)
(* on a page follows the sizes the code computes with; all keys of a tree have *)
(* the same length. A node is written by flush(), which clears the buffer the  *)
(* keys are in before it copies them out of it: every key on a page is Zero.   *)
(* The pages are the pool's, which is not in the way here.                     *)
EXTENDS Integers, Sequences, FiniteSets, SequencesExt

CONSTANTS Keys,         \* the keys that may be put, numbers in their order
          MaxEntries,   \* bound: how many entries a tree may get
          PageBodies,   \* how many bytes a page may have after its header
          KeySizes,     \* how many bytes the keys of a tree may have
          PageIds       \* what allocate_page may hand out

NullPage == 0
Zero == 0               \* the key of zero bytes only, as encode_i64_key makes of the least i64
Directory == 8          \* bytes of an entry beside its key, in both kinds of node

ASSUME GeometryAssumption ==
  /\ Keys \subseteq Nat /\ MaxEntries \in Nat /\ PageIds \subseteq Nat \ {NullPage}
  /\ PageBodies \subseteq Nat /\ KeySizes \subseteq Nat

VARIABLES geometry,     \* the sizes this tree was made with
          nodes,        \* page id -> the node on it, for every allocated page
          tree,         \* root_page_id, height and entry_count
          indexed       \* the keys put and not taken out since
tvars == <<geometry, nodes, tree, indexed>>

Leaf(keys, prev, next, is_root) ==
  [kind |-> "leaf", entries |-> keys, prev |-> prev, next |-> next, is_root |-> is_root]

Inner(leftmost, entries, is_root) ==
  [kind |-> "inner", leftmost |-> leftmost, entries |-> entries, is_root |-> is_root]

\* Two separators fit on an inner page: with a single one the halves of a split are bare.
TwoFit(size) == 2 * (Directory + size.key) <= size.body - 4

BtreeInit ==
  /\ geometry \in {size \in [body : PageBodies, key : KeySizes] : TwoFit(size)}
  /\ \E root \in PageIds :
       /\ \A p \in PageIds : root <= p
       /\ nodes = [p \in {root} |-> Leaf(<<>>, NullPage, NullPage, TRUE)]
       /\ tree = [root |-> root, height |-> 1, entry_count |-> 0]
  /\ indexed = {}

----------------------------------------------------------------------------
(* Nodes.                                                                     *)

\* An entry takes its directory slot and its key; an inner node has one more child.
Room(node) == IF node.kind = "leaf" THEN geometry.body ELSE geometry.body - 4
Fits(node, n) == n * (Directory + geometry.key) <= Room(node)
CanFit(node) == Fits(node, Len(node.entries) + 1)

\* An entry of an inner node was removed from its sorted position and the page not
\* rebuilt: the bytes of its key are free only if they were the last ones.
CanReplace(node, i) ==
  \/ i = Len(node.entries)
  \/ Len(node.entries) * (Directory + geometry.key) + geometry.key <= Room(node)

Before(keys, k) == Cardinality({i \in DOMAIN keys : keys[i] < k})
PutKey(keys, k) == InsertAt(keys, Before(keys, k) + 1, k)

\* How many separators are at most k: the child to descend to, the leftmost being 0.
ChildIndex(node, k) == Cardinality({i \in DOMAIN node.entries : node.entries[i].key <= k})
Child(node, i) == IF i = 0 THEN node.leftmost ELSE node.entries[i].child

PutEntry(node, key, child) ==
  [node EXCEPT !.entries = InsertAt(@, ChildIndex(node, key) + 1, [key |-> key, child |-> child])]

\* The pages from the root to the leaf for k, and at each the child that was followed.
Descent(k) ==
  LET page[level \in 1..tree.height] ==
        IF level = 1 THEN tree.root
        ELSE LET above == nodes[page[level - 1]] IN Child(above, ChildIndex(above, k))
  IN page
LeafFor(k) == Descent(k)[tree.height]
Search(k) == k \in ToSet(nodes[LeafFor(k)].entries)

\* The page allocate_page gives, the lowest that is free.
FreshPage(ns) == CHOOSE p \in PageIds \ DOMAIN ns : \A q \in PageIds \ DOMAIN ns : p <= q

\* What flush() makes of a node: the directory is right, and every key reads as zeros.
FlushNode(node) ==
  [node EXCEPT !.entries =
     [i \in DOMAIN node.entries |-> IF node.kind = "leaf" THEN Zero
                                    ELSE [node.entries[i] EXCEPT !.key = Zero]]]

\* A node written to its page, which may be a new one.
Written(ns, page, node) == [p \in DOMAIN ns \cup {page} |-> IF p = page THEN FlushNode(node) ELSE ns[p]]
\* Broken variant: the page is not given back.
KeptPage(ns, page) == ns
Freed(ns, page) == [p \in DOMAIN ns \ {page} |-> ns[p]]
LinkBack(ns, page, prev) ==
  IF page = NullPage THEN ns ELSE Written(ns, page, [ns[page] EXCEPT !.prev = prev])

----------------------------------------------------------------------------
(* Insert.                                                                    *)

\* The upper half goes to a new page; the lower half is a new node on the old page,
\* whose link to the leaf before it is not carried over.
SplitLeaf(ns, page, k) ==
  LET leaf  == ns[page]
      all   == PutKey(leaf.entries, k)
      at    == Len(all) \div 2
      new   == FreshPage(ns)
      left  == Leaf(SubSeq(all, 1, at), NullPage, new, leaf.is_root)
      right == Leaf(SubSeq(all, at + 1, Len(all)), page, leaf.next, FALSE)
  IN [nodes |-> Written(Written(LinkBack(ns, leaf.next, new), page, left), new, right),
      separator |-> all[at + 1], child |-> new, done |-> FALSE]

\* The middle separator moves up, into neither half.
SplitInner(ns, page, key, child) ==
  LET full  == PutEntry(ns[page], key, child)
      mid   == Len(full.entries) \div 2 + 1
      new   == FreshPage(ns)
      left  == [full EXCEPT !.entries = SubSeq(@, 1, mid - 1)]
      right == Inner(full.entries[mid].child,
                     SubSeq(full.entries, mid + 1, Len(full.entries)), FALSE)
  IN [nodes |-> Written(Written(ns, page, left), new, right),
      separator |-> full.entries[mid].key, child |-> new, done |-> FALSE]

\* The separator of a split goes into the parent, which may split in turn.
Propagate(split, page) ==
  LET parent == split.nodes[page] IN
  IF split.done THEN split
  ELSE IF CanFit(parent)
  THEN [split EXCEPT !.done = TRUE,
                     !.nodes = Written(@, page, PutEntry(parent, split.separator, split.child))]
  ELSE SplitInner(split.nodes, page, split.separator, split.child)

\* The root itself was split: a new one above both halves.
NewRoot(split) ==
  LET new == FreshPage(split.nodes) IN
  /\ nodes' = Written([split.nodes EXCEPT ![tree.root].is_root = FALSE], new,
                   Inner(tree.root, <<[key |-> split.separator, child |-> split.child]>>, TRUE))
  /\ tree' = [root |-> new, height |-> tree.height + 1, entry_count |-> tree.entry_count + 1]

\* btree_insert. A key that is found is refused, which changes nothing.
InsertKey(k) ==
  /\ ~Search(k) /\ tree.entry_count < MaxEntries
  /\ LET path  == Descent(k)
         page  == path[tree.height]
         above == [i \in 1..(tree.height - 1) |-> path[tree.height - i]]
         split == FoldLeft(Propagate, SplitLeaf(nodes, page, k), above)
     IN IF CanFit(nodes[page])
        THEN /\ nodes' = Written(nodes, page, [nodes[page] EXCEPT !.entries = PutKey(@, k)])
             /\ tree' = [tree EXCEPT !.entry_count = @ + 1]
        ELSE IF split.done
        THEN nodes' = split.nodes /\ tree' = [tree EXCEPT !.entry_count = @ + 1]
        ELSE NewRoot(split)
  /\ indexed' = indexed \cup {k}
  /\ UNCHANGED geometry

----------------------------------------------------------------------------
(* Delete.                                                                    *)

\* Fewer than two fifths of the page are directory entries.
Underfull(node) == 5 * Directory * Len(node.entries) < 2 * geometry.body

\* The rough estimate: sixteen bytes for each entry, however long the keys are.
CanMerge(left, right) == 16 * (Len(left.entries) + Len(right.entries)) < geometry.body

\* remove_from_parent: separator i goes, with the child behind it. A root without
\* separators gives way to its child, which is not marked as the root; an inner node
\* below the root may stay without any.
RemoveSeparator(ns, page, i, t) ==
  LET parent == [ns[page] EXCEPT !.entries = RemoveAt(@, i)] IN
  IF parent.is_root /\ parent.entries = <<>>
  THEN [nodes |-> Freed(ns, page),
        tree |-> [t EXCEPT !.root = parent.leftmost, !.height = @ - 1]]
  ELSE [nodes |-> Written(ns, page, parent), tree |-> t]

\* The leaf behind separator i of the parent merges into the one before it. When its
\* keys do not fit after all the call fails here, with the key it was for gone.
Merge(ns, parent, i, t) ==
  LET left  == Child(ns[parent], i - 1)
      right == Child(ns[parent], i)
      after == ns[right].next
      all   == ns[left].entries \o ns[right].entries
      one   == Written(ns, left, [ns[left] EXCEPT !.entries = all, !.next = after])
  IN IF Fits(ns[left], Len(all))
     THEN RemoveSeparator(Freed(LinkBack(one, after, left), right), parent, i, t)
     ELSE [nodes |-> ns, tree |-> t]

\* The separator before child i becomes the first key of that child.
Separate(ns, parent, i) ==
  LET child == Child(ns[parent], i)
      rest  == [ns[parent] EXCEPT !.entries = RemoveAt(@, i)]
  IN Written(ns, parent, PutEntry(rest, Head(ns[child].entries), child))

\* One key moves over separator i, to the leaf behind it or to the one before it; the keys
\* of a page being alike, it does not matter which. The call fails here when the new
\* separator does not fit beside the bytes of the old.
Borrow(ns, parent, i, to, t) ==
  LET left  == Child(ns[parent], i - 1)
      right == Child(ns[parent], i)
      from  == IF to = right THEN left ELSE right
      moved == Last(ns[from].entries)
      both  == Written(Written(ns, from, [ns[from] EXCEPT !.entries = Front(@)]),
                       to, [ns[to] EXCEPT !.entries = PutKey(@, moved)])
  IN [nodes |-> IF CanReplace(ns[parent], i) THEN Separate(both, parent, i) ELSE ns, tree |-> t]

\* handle_leaf_underflow: the sibling before is tried first, then the one behind;
\* neither can merge or spare a key: the leaf is left as it is.
Rebalance(ns, parent, i, t) ==
  LET here     == Child(ns[parent], i)
      Left     == ns[Child(ns[parent], i - 1)]
      Right    == ns[Child(ns[parent], i + 1)]
      hasLeft  == i > 0
      hasRight == i < Len(ns[parent].entries)
  IN IF hasLeft /\ CanMerge(Left, ns[here]) THEN Merge(ns, parent, i, t)
     ELSE IF hasLeft /\ Len(Left.entries) > 1 THEN Borrow(ns, parent, i, here, t)
     ELSE IF hasRight /\ CanMerge(ns[here], Right) THEN Merge(ns, parent, i + 1, t)
     ELSE IF hasRight /\ Len(Right.entries) > 1 THEN Borrow(ns, parent, i + 1, here, t)
     ELSE [nodes |-> ns, tree |-> t]

\* btree_delete. A key that is not found changes nothing.
DeleteKey(k) ==
  LET path   == Descent(k)
      page   == path[tree.height]
      less   == Written(nodes, page, [nodes[page] EXCEPT !.entries = RemoveFirst(@, k)])
      count  == [tree EXCEPT !.entry_count = IF @ > 0 THEN @ - 1 ELSE 0]
      parent == path[tree.height - 1]
      new    == IF ~less[page].is_root /\ Underfull(less[page]) /\ tree.height > 1
                THEN Rebalance(less, parent, ChildIndex(nodes[parent], k), count)
                ELSE [nodes |-> less, tree |-> count]
  IN /\ Search(k)
     /\ nodes' = new.nodes /\ tree' = new.tree
     /\ indexed' = indexed \ {k}
     /\ UNCHANGED geometry

BtreeNext == \E k \in Keys : InsertKey(k) \/ DeleteKey(k)

BtreeSpec == BtreeInit /\ [][BtreeNext]_tvars

----------------------------------------------------------------------------
(* Reading.                                                                   *)

\* The leaves met from a page by the links to the next one, at most every page once.
Follow(page) ==
  LET Next(met, n) ==
        IF nodes[Last(met)].next = NullPage THEN met ELSE Append(met, nodes[Last(met)].next)
  IN FoldLeft(Next, <<page>>, [n \in 1..(Cardinality(DOMAIN nodes) - 1) |-> n])

\* The leaves a cursor goes through: it becomes invalid on an empty one.
CursorLeaves(leaves) ==
  LET empty == {i \in DOMAIN leaves : nodes[leaves[i]].entries = <<>>}
  IN IF empty = {} THEN leaves
     ELSE SubSeq(leaves, 1, (CHOOSE i \in empty : \A j \in empty : i <= j) - 1)

FirstLeaf ==
  LET first[level \in 1..tree.height] ==
        IF level = 1 THEN tree.root ELSE nodes[first[level - 1]].leftmost
  IN first[tree.height]

\* search_first, then BTreeCursor.next until the cursor is invalid.
FullScan ==
  LET leaves == CursorLeaves(Follow(FirstLeaf))
  IN FlattenSeq([i \in DOMAIN leaves |-> nodes[leaves[i]].entries])

----------------------------------------------------------------------------
(* Properties.                                                                *)

BtreeTypeOK ==
  /\ geometry \in [body : PageBodies, key : KeySizes]
  /\ DOMAIN nodes \subseteq PageIds /\ tree.root \in DOMAIN nodes
  /\ indexed \subseteq Keys
  /\ \A p \in DOMAIN nodes : Fits(nodes[p], Len(nodes[p].entries))

\* The pages of a level of the tree from left to right, the root's being the first.
Level ==
  LET Children(page) == [i \in 1..(Len(nodes[page].entries) + 1) |-> Child(nodes[page], i - 1)]
      level[n \in 1..tree.height] ==
        IF n = 1 THEN <<tree.root>>
        ELSE FlattenSeq([i \in DOMAIN level[n - 1] |-> Children(level[n - 1][i])])
  IN level

\* Every page that is allocated is in the tree, nothing being leaked or freed while it is
\* in use, and the links from leaf to leaf follow the tree: a page that was split, merged
\* or emptied is neither skipped nor met again (insert.vais, delete.vais: allocate_page,
\* deallocate_page, set_next_leaf).
TreeWhole ==
  /\ DOMAIN nodes = UNION {ToSet(Level[n]) : n \in 1..tree.height}
  /\ Follow(FirstLeaf) = Level[tree.height]

\* The count of the tree is that of the entries in its leaves, and a cursor from the first
\* one meets every entry before it stops at an empty leaf (tree.vais: inc_entries,
\* dec_entries; search.vais: search_first; cursor.vais: next).
EntriesCounted ==
  /\ tree.entry_count =
       MapThenSumSet(LAMBDA p : Len(nodes[p].entries), {p \in DOMAIN nodes : nodes[p].kind = "leaf"})
  /\ Len(FullScan) = tree.entry_count

\* What was put and not taken out since is found (tree.vais:54, search). It is not: what
\* flush() leaves of a key is zeros (node.vais:580).
KeysFound == \A k \in indexed : Search(k)
=============================================================================
