---------------------------- MODULE MirrorProofs ----------------------------
(***************************************************************************)
(* That Drive mirrors the watched folder, when the windows are ones that   *)
(* Watcher gives (PlainWindows, WindowsLeadOn).                            *)
(*                                                                         *)
(* CourseInv: the actions that are left, what is parked, what runs and     *)
(* what waits in the chain, each done at once and in this order, lead from *)
(* what is on Drive to the folder as it is.  A call leaves as much to do   *)
(* as there was, or has done the action.                                   *)
(***************************************************************************)
EXTENDS WindowProofs, WellFoundedInduction

(* The course of a list of actions *)

\* A set of numbers has a least one.
LEMMA LeastNumber ==
  ASSUME NEW T, T \subseteq Nat, T # {}
  PROVE  \E x \in T : \A y \in T : x <= y
<1>1. PICK x \in T : \A y \in T : ~(<<y, x>> \in OpToRel(<, Nat))
  BY WFMin, NatLessThanWellFounded
<1>2. ASSUME NEW y \in T PROVE x <= y
  <2>1. ~(y < x)
    BY <1>1 DEF OpToRel
  <2> QED BY <2>1
<1> QED BY <1>2

\* The trees of a course: each is what the next action makes of the one before.
Follow(c, now, acts) == \A n \in 1..Len(acts) : c[n] = Performed(c[n - 1], now, acts[n])

\* The course of Effects is one.
LEMMA CourseFollows ==
  ASSUME NEW tree, NEW now, NEW acts, Len(acts) \in Nat
  PROVE  Course(tree, now, acts)[0] = tree /\ Follow(Course(tree, now, acts), now, acts)
<1> DEFINE L == Len(acts)
           Grown(g, n) == IF n = 0 THEN tree ELSE Performed(g[n - 1], now, acts[n])
           Upto(m) == \E g : DOMAIN g = 0..m /\ \A n \in 0..m : g[n] = Grown(g, n)
           T == {m \in Nat : m <= L /\ ~Upto(m)}
<1>1. Upto(0)
  <2>1. PICK g : g = [n \in 0..0 |-> tree]
    OBVIOUS
  <2>2. DOMAIN g = 0..0 /\ \A n \in 0..0 : g[n] = Grown(g, n)
    BY <2>1
  <2> QED BY <2>2
<1>2. ASSUME NEW m \in Nat, Upto(m) PROVE Upto(m + 1)
  <2>1. PICK g : DOMAIN g = 0..m /\ \A n \in 0..m : g[n] = Grown(g, n)
    BY <1>2
  <2>2. PICK h : h = [n \in 0..m + 1 |-> IF n = m + 1 THEN Grown(g, m + 1) ELSE g[n]]
    OBVIOUS
  <2>3. DOMAIN h = 0..m + 1
    BY <2>2
  <2>4. ASSUME NEW n \in 0..m + 1 PROVE h[n] = Grown(h, n)
    <3>1. CASE n = m + 1
      <4>1. h[n] = Grown(g, m + 1) /\ h[m] = g[m]
        BY <2>2, <3>1
      <4>2. n - 1 = m /\ n # 0
        BY <3>1
      <4> QED BY <3>1, <4>1, <4>2
    <3>2. CASE n # m + 1
      <4>1. n \in 0..m
        BY <3>2
      <4>2. h[n] = Grown(g, n)
        BY <2>1, <2>2, <3>2, <4>1
      <4>3. n # 0 => h[n - 1] = g[n - 1]
        <5>1. n # 0 => n - 1 \in 0..m + 1 /\ n - 1 # m + 1
          BY <4>1
        <5> QED BY <2>2, <5>1
      <4> QED BY <4>2, <4>3
    <3> QED BY <3>1, <3>2
  <2> QED BY <2>3, <2>4
<1>3. Upto(L)
  <2> HIDE DEF Upto
  <2> SUFFICES ASSUME ~Upto(L) PROVE FALSE
    OBVIOUS
  <2>1. T \subseteq Nat /\ L \in T
    OBVIOUS
  <2>2. PICK m \in T : \A y \in T : m <= y
    BY <2>1, LeastNumber
  <2>3. m # 0 /\ m \in Nat
    BY <1>1, <2>2
  <2>4. m - 1 \in Nat /\ m - 1 <= L /\ m - 1 \notin T
    BY <2>2, <2>3
  <2>5. Upto((m - 1) + 1)
    BY <1>2, <2>4
  <2> QED BY <2>2, <2>3, <2>5
<1>4. PICK g : DOMAIN g = 0..L /\ \A n \in 0..L : g[n] = Grown(g, n)
  BY <1>3
<1>5. PICK c : c = [n \in 0..L |-> Grown(g, n)]
  OBVIOUS
<1>6. \A n \in 0..L : c[n] = g[n]
  BY <1>4, <1>5
<1>7. \A n \in 0..L : Grown(g, n) = Grown(c, n)
  <2> SUFFICES ASSUME NEW n \in 0..L, n # 0 PROVE g[n - 1] = c[n - 1]
    OBVIOUS
  <2> QED BY <1>6
<1>8. c = [n \in 0..L |-> Grown(c, n)]
  BY <1>5, <1>7
<1>9. Course(tree, now, acts) = [n \in 0..L |-> Grown(Course(tree, now, acts), n)]
  BY <1>8 DEF Course
<1>10. PICK d : d = Course(tree, now, acts)
  OBVIOUS
<1>11. d = [n \in 0..L |-> Grown(d, n)]
  BY <1>9, <1>10
<1>12. d[0] = tree
  BY <1>11
<1>13. ASSUME NEW n \in 1..L PROVE d[n] = Performed(d[n - 1], now, acts[n])
  <2>1. n \in 0..L /\ n # 0
    OBVIOUS
  <2> QED BY <1>11, <2>1
<1> QED BY <1>10, <1>12, <1>13 DEF Follow

\* The actions lead from the tree to the folder as it is.
LeadBy(c, now, acts) ==
  /\ Follow(c, now, acts) /\ c[Len(acts)] = TreeOf(now)
  /\ \A n \in 0..Len(acts) : PathsOf(c[n]) \subseteq Paths
Reaches(tree, now, acts) == \E c : c[0] = tree /\ LeadBy(c, now, acts)

\* A window leads on.
LEMMA LeadsOnReaches ==
  ASSUME NEW before, NEW w, Len(w.actions) \in Nat, LeadsOn(before, w)
  PROVE  Reaches(TreeOf(before), w.after, w.actions)
<1>1. PICK c : c = Course(TreeOf(before), w.after, w.actions)
  OBVIOUS
<1>2. c[0] = TreeOf(before) /\ Follow(c, w.after, w.actions)
  BY <1>1, CourseFollows
<1>3. LeadBy(c, w.after, w.actions)
  BY <1>1, <1>2 DEF LeadsOn, LeadBy
<1> QED BY <1>2, <1>3 DEF Reaches

\* No actions lead nowhere.
LEMMA NoneReach ==
  ASSUME NEW tree, NEW now, NEW acts, Len(acts) = 0, Reaches(tree, now, acts)
  PROVE  tree = TreeOf(now)
<1>1. PICK c : c[0] = tree /\ LeadBy(c, now, acts)
  BY DEF Reaches
<1> QED BY <1>1 DEF LeadBy

\* No action is needed where the folder is on Drive already.
LEMMA NowReaches ==
  ASSUME NEW now, PathsOf(TreeOf(now)) \subseteq Paths
  PROVE  Reaches(TreeOf(now), now, << >>)
<1>1. PICK c : c = [n \in {0} |-> TreeOf(now)]
  OBVIOUS
<1>2. c[0] = TreeOf(now)
  BY <1>1
<1>3. LeadBy(c, now, << >>)
  BY <1>2 DEF LeadBy, Follow
<1> QED BY <1>2, <1>3 DEF Reaches

\* A sequence without one of its elements.
Short(s, r, m) ==
  /\ Len(s) \in Nat /\ m \in 0..Len(s) - 1 /\ Len(r) = Len(s) - 1
  /\ \A n \in 1..m : r[n] = s[n]
  /\ \A n \in m + 1..Len(r) : r[n] = s[n + 1]

\* An action that makes nothing else of the tree it meets is left out.
LEMMA ReachShort ==
  ASSUME NEW tree, NEW now, NEW s, NEW r, NEW m, Short(s, r, m),
         NEW c, c[0] = tree, LeadBy(c, now, s), c[m + 1] = c[m]
  PROVE  Reaches(tree, now, r)
<1>1. PICK l \in Nat : l = Len(r) /\ Len(s) = l + 1 /\ m \in 0..l
  BY DEF Short
<1>2. PICK d : d = [n \in 0..l |-> IF n <= m THEN c[n] ELSE c[n + 1]]
  OBVIOUS
<1>3. d[0] = tree
  BY <1>1, <1>2
<1>4. d[l] = c[l + 1]
  <2>1. l = m => c[l] = c[l + 1]
    OBVIOUS
  <2> QED BY <1>1, <1>2, <2>1
<1>5. ASSUME NEW n \in 1..l PROVE d[n] = Performed(d[n - 1], now, r[n])
  <2>1. CASE n <= m
    <3>1. d[n] = c[n] /\ d[n - 1] = c[n - 1] /\ r[n] = s[n]
      BY <1>1, <1>2, <2>1 DEF Short
    <3>2. n \in 1..l + 1
      OBVIOUS
    <3> QED BY <1>1, <3>1, <3>2 DEF LeadBy, Follow
  <2>2. CASE n > m
    <3>1. d[n] = c[n + 1] /\ r[n] = s[n + 1]
      BY <1>1, <1>2, <2>2 DEF Short
    <3>2. d[n - 1] = c[n]
      <4>1. CASE n - 1 = m
        <5>1. n = m + 1 /\ d[n - 1] = c[m]
          BY <1>1, <1>2, <4>1
        <5> QED BY <5>1
      <4>2. CASE n - 1 # m
        <5>1. ~(n - 1 <= m) /\ n - 1 \in 0..l /\ (n - 1) + 1 = n
          BY <1>1, <2>2, <4>2
        <5> QED BY <1>2, <5>1
      <4> QED BY <4>1, <4>2
    <3>3. n + 1 \in 1..l + 1 /\ (n + 1) - 1 = n
      OBVIOUS
    <3> QED BY <1>1, <3>1, <3>2, <3>3 DEF LeadBy, Follow
  <2> QED BY <1>1, <2>1, <2>2
<1>6. ASSUME NEW n \in 0..l PROVE PathsOf(d[n]) \subseteq Paths
  <2>1. n \in 0..l + 1 /\ n + 1 \in 0..l + 1 /\ (d[n] = c[n] \/ d[n] = c[n + 1])
    BY <1>2
  <2> QED BY <1>1, <2>1 DEF LeadBy
<1>7. LeadBy(d, now, r)
  BY <1>1, <1>4, <1>5, <1>6 DEF LeadBy, Follow
<1> QED BY <1>3, <1>7 DEF Reaches

\* The first action is done, in part or as a whole.
LEMMA FirstDone ==
  ASSUME NEW tree, NEW now, NEW s, Len(s) \in Nat, Len(s) # 0, Reaches(tree, now, s)
  PROVE  /\ PathsOf(Performed(tree, now, s[1])) \subseteq Paths
         /\ \A new : /\ PathsOf(new) \subseteq Paths
                     /\ Performed(new, now, s[1]) = Performed(tree, now, s[1])
                     => Reaches(new, now, s)
         /\ \A r : Short(s, r, 0) => Reaches(Performed(tree, now, s[1]), now, r)
<1>1. PICK c : c[0] = tree /\ LeadBy(c, now, s)
  BY DEF Reaches
<1>2. PICK l \in Nat : Len(s) = l + 1
  <2>1. PICK k \in Nat : k = Len(s)
    OBVIOUS
  <2>2. k - 1 \in Nat /\ k = (k - 1) + 1
    BY <2>1
  <2> QED BY <2>1, <2>2
<1>3. c[1] = Performed(tree, now, s[1]) /\ PathsOf(c[1]) \subseteq Paths
  <2>1. 1 \in 1..l + 1 /\ 1 \in 0..l + 1 /\ 1 - 1 = 0
    OBVIOUS
  <2> QED BY <1>1, <1>2, <2>1 DEF LeadBy, Follow
<1>4. ASSUME NEW new, PathsOf(new) \subseteq Paths,
             Performed(new, now, s[1]) = Performed(tree, now, s[1])
      PROVE  Reaches(new, now, s)
  <2>1. PICK d : d = [n \in 0..l + 1 |-> IF n = 0 THEN new ELSE c[n]]
    OBVIOUS
  <2>2. d[0] = new /\ \A n \in 1..l + 1 : d[n] = c[n]
    BY <2>1
  <2>3. ASSUME NEW n \in 1..l + 1 PROVE d[n] = Performed(d[n - 1], now, s[n])
    <3>1. c[n] = Performed(c[n - 1], now, s[n])
      BY <1>1, <1>2 DEF LeadBy, Follow
    <3>2. CASE n = 1
      BY <1>3, <1>4, <2>2, <3>2
    <3>3. CASE n # 1
      <4>1. n - 1 \in 1..l + 1
        BY <3>3
      <4> QED BY <2>2, <3>1, <4>1
    <3> QED BY <3>2, <3>3
  <2>4. LeadBy(d, now, s)
    <3>1. \A n \in 0..l + 1 : PathsOf(d[n]) \subseteq Paths
      BY <1>1, <1>2, <1>4, <2>1 DEF LeadBy
    <3>2. d[l + 1] = TreeOf(now)
      BY <1>1, <1>2, <2>2 DEF LeadBy
    <3> QED BY <1>2, <2>3, <3>1, <3>2 DEF LeadBy, Follow
  <2> QED BY <2>2, <2>4 DEF Reaches
<1>5. ASSUME NEW r, Short(s, r, 0) PROVE Reaches(c[1], now, r)
  <2>1. Len(r) = l /\ \A n \in 1..l : r[n] = s[n + 1]
    BY <1>2, <1>5 DEF Short
  <2>2. PICK d : d = [n \in 0..l |-> c[n + 1]]
    OBVIOUS
  <2>3. d[0] = c[1]
    BY <2>2
  <2>4. ASSUME NEW n \in 1..l PROVE d[n] = Performed(d[n - 1], now, r[n])
    <3>1. n + 1 \in 1..l + 1 /\ (n + 1) - 1 = n /\ n - 1 \in 0..l /\ (n - 1) + 1 = n
      OBVIOUS
    <3>2. c[n + 1] = Performed(c[n], now, s[n + 1])
      BY <1>1, <1>2, <3>1 DEF LeadBy, Follow
    <3> QED BY <2>1, <2>2, <3>1, <3>2
  <2>5. LeadBy(d, now, r)
    <3>1. ASSUME NEW n \in 0..l PROVE PathsOf(d[n]) \subseteq Paths
      <4>1. n + 1 \in 0..l + 1
        OBVIOUS
      <4> QED BY <1>1, <1>2, <2>2, <4>1 DEF LeadBy
    <3>2. d[l] = TreeOf(now)
      BY <1>1, <1>2, <2>2 DEF LeadBy
    <3> QED BY <2>1, <2>4, <3>1, <3>2 DEF LeadBy, Follow
  <2> QED BY <2>3, <2>5 DEF Reaches
<1> QED BY <1>3, <1>4, <1>5

-----------------------------------------------------------------------------
(* What an action does to a tree *)

IsPairs(tree) == \A x \in tree : x = <<x[1], x[2]>>

\* Trees with the same pairs are the same.
LEMMA SamePairs ==
  ASSUME NEW a, IsPairs(a), NEW b, IsPairs(b),
         \A p, c : <<p, c>> \in a <=> <<p, c>> \in b
  PROVE  a = b
<1>1. ASSUME NEW x \in a PROVE x \in b
  BY <1>1 DEF IsPairs
<1>2. ASSUME NEW x \in b PROVE x \in a
  BY <1>2 DEF IsPairs
<1> QED BY <1>1, <1>2

\* A path of a tree is that of a pair.
LEMMA PairHasPath ==
  ASSUME NEW tree, IsPairs(tree), NEW p
  PROVE  p \in PathsOf(tree) <=> \E c : <<p, c>> \in tree
<1>1. ASSUME p \in PathsOf(tree) PROVE \E c : <<p, c>> \in tree
  <2>1. PICK x \in tree : p = x[1]
    BY <1>1 DEF PathsOf
  <2>2. x = <<p, x[2]>>
    BY <2>1 DEF IsPairs
  <2> QED BY <2>1, <2>2
<1>2. ASSUME NEW c, <<p, c>> \in tree PROVE p \in PathsOf(tree)
  <2>1. <<p, c>>[1] = p
    OBVIOUS
  <2> QED BY <1>2, <2>1 DEF PathsOf
<1> QED BY <1>1, <1>2

\* What a removal leaves.
LEMMA GoneIs ==
  ASSUME NEW tree, IsPairs(tree), NEW path
  PROVE  /\ IsPairs(Gone(tree, path))
         /\ \A p, c : <<p, c>> \in Gone(tree, path) <=> <<p, c>> \in tree /\ ~IsPrefix(path, p)
<1>1. ASSUME NEW p, NEW c
      PROVE  <<p, c>> \in Gone(tree, path) <=> <<p, c>> \in tree /\ ~IsPrefix(path, p)
  <2>1. <<p, c>>[1] = p
    OBVIOUS
  <2> QED BY <2>1 DEF Gone
<1>2. IsPairs(Gone(tree, path))
  BY DEF IsPairs, Gone
<1> QED BY <1>1, <1>2

\* What is written over a tree replaces what has its path.
LEMMA OverIs ==
  ASSUME NEW tree, IsPairs(tree), NEW new, IsPairs(new)
  PROVE  /\ IsPairs(Over(tree, new))
         /\ \A p, c : <<p, c>> \in Over(tree, new) <=>
                        <<p, c>> \in new \/ (<<p, c>> \in tree /\ p \notin PathsOf(new))
         /\ PathsOf(tree) \subseteq PathsOf(Over(tree, new))
<1>1. ASSUME NEW p, NEW c
      PROVE  <<p, c>> \in Over(tree, new) <=>
               <<p, c>> \in new \/ (<<p, c>> \in tree /\ p \notin PathsOf(new))
  <2>1. <<p, c>>[1] = p
    OBVIOUS
  <2> QED BY <2>1 DEF Over
<1>2. IsPairs(Over(tree, new))
  BY DEF IsPairs, Over
<1>3. ASSUME NEW p \in PathsOf(tree) PROVE p \in PathsOf(Over(tree, new))
  <2>1. PICK c : <<p, c>> \in tree
    BY PairHasPath
  <2>2. \E d : <<p, d>> \in Over(tree, new)
    <3>1. CASE p \in PathsOf(new)
      BY <1>1, <3>1, PairHasPath
    <3>2. CASE p \notin PathsOf(new)
      BY <1>1, <2>1, <3>2
    <3> QED BY <3>1, <3>2
  <2> QED BY <1>2, <2>2, PairHasPath
<1> QED BY <1>1, <1>2, <1>3

\* The folders above a path are added where there is nothing.
LEMMA WithFoldersIs ==
  ASSUME NEW tree, IsPairs(tree), NEW path
  PROVE  /\ IsPairs(WithFolders(tree, path))
         /\ \A p, c : <<p, c>> \in WithFolders(tree, path) <=>
              \/ <<p, c>> \in tree
              \/ p \in Ancestors(path) /\ p \notin PathsOf(tree) /\ c = Folder
         /\ tree \subseteq WithFolders(tree, path)
         /\ PathsOf(tree) \subseteq PathsOf(WithFolders(tree, path))
         /\ Ancestors(path) \subseteq PathsOf(tree) => WithFolders(tree, path) = tree
<1>1. PICK W : W = WithFolders(tree, path)
  OBVIOUS
<1>2. W = tree \union {<<p, Folder>> : p \in Ancestors(path) \ PathsOf(tree)}
  BY <1>1 DEF WithFolders
<1>3. IsPairs(W)
  BY <1>2 DEF IsPairs
<1>4. ASSUME NEW p, NEW c
      PROVE  <<p, c>> \in W <=>
               \/ <<p, c>> \in tree
               \/ p \in Ancestors(path) /\ p \notin PathsOf(tree) /\ c = Folder
  BY <1>2
<1>5. PathsOf(tree) \subseteq PathsOf(W)
  BY <1>2 DEF PathsOf
<1>6. Ancestors(path) \subseteq PathsOf(tree) => W = tree
  BY <1>2
<1> QED BY <1>1, <1>2, <1>3, <1>4, <1>5, <1>6

\* A single pair.
LEMMA OneIs ==
  ASSUME NEW p, NEW c
  PROVE  /\ IsPairs({<<p, c>>}) /\ PathsOf({<<p, c>>}) = {p}
         /\ \A q, d : <<q, d>> \in {<<p, c>>} <=> q = p /\ d = c
<1>1. IsPairs({<<p, c>>}) /\ \A q, d : <<q, d>> \in {<<p, c>>} <=> q = p /\ d = c
  BY DEF IsPairs
<1>2. PathsOf({<<p, c>>}) = {p}
  <2>1. \A q : q \in PathsOf({<<p, c>>}) <=> q = p
    BY <1>1, PairHasPath
  <2> QED BY <2>1
<1> QED BY <1>1, <1>2

\* A file that is brought, or a folder that is not there yet, when the folders above it are.
LEMMA BroughtIs ==
  ASSUME NEW tree, IsPairs(tree), NEW now, NEW path \in DOMAIN now
  PROVE  /\ IsPairs(Brought(tree, now, path))
         /\ now[path] = Folder /\ path \in PathsOf(tree) => Brought(tree, now, path) = tree
         /\ ~(now[path] = Folder /\ path \in PathsOf(tree)) =>
              Brought(tree, now, path) = Over(WithFolders(tree, path), {<<path, now[path]>>})
         /\ PathsOf(tree) \subseteq PathsOf(Brought(tree, now, path))
<1>1. CASE now[path] = Folder /\ path \in PathsOf(tree)
  BY <1>1 DEF Brought
<1>2. CASE ~(now[path] = Folder /\ path \in PathsOf(tree))
  <2>1. Brought(tree, now, path) = Over(WithFolders(tree, path), {<<path, now[path]>>})
    BY <1>2 DEF Brought
  <2>2. IsPairs(WithFolders(tree, path)) /\ PathsOf(tree) \subseteq PathsOf(WithFolders(tree, path))
    BY WithFoldersIs
  <2>3. PICK w, new : w = WithFolders(tree, path) /\ new = {<<path, now[path]>>}
    OBVIOUS
  <2>4. IsPairs(new)
    BY <2>3, OneIs
  <2>6. IsPairs(w)
    BY <2>2, <2>3
  <2>5. IsPairs(Over(w, new)) /\ PathsOf(w) \subseteq PathsOf(Over(w, new))
    BY <2>4, <2>6, OverIs
  <2> QED BY <1>2, <2>1, <2>2, <2>3, <2>5
<1> QED BY <1>1, <1>2

\* What is moved, seen from its new place.
MovedPart(tree, from, to) == {<<to \o x[1], x[2]>> : x \in Part(tree, from)}

\* This was at, or below, `from', and is seen from `to' now.
CameFrom(tree, from, to, p, c) == \E y : IsPath(y) /\ p = to \o y /\ <<from \o y, c>> \in tree

\* A part that is moved is the part at its old path.
LEMMA MovedPartIs ==
  ASSUME NEW tree, IsPairs(tree), NEW from, IsPath(from), NEW to,
         \A x \in tree : IsPath(x[1])
  PROVE  /\ IsPairs(MovedPart(tree, from, to))
         /\ \A p, c : <<p, c>> \in MovedPart(tree, from, to) <=> CameFrom(tree, from, to, p, c)
<1>1. IsPairs(MovedPart(tree, from, to))
  BY DEF MovedPart, IsPairs
<1>2. ASSUME NEW p, NEW c, <<p, c>> \in MovedPart(tree, from, to)
      PROVE  \E y : IsPath(y) /\ p = to \o y /\ <<from \o y, c>> \in tree
  <2>1. PICK x \in Part(tree, from) : <<p, c>> = <<to \o x[1], x[2]>>
    BY <1>2 DEF MovedPart
  <2>2. PICK z \in tree : /\ IsPrefix(from, z[1])
                          /\ x = <<SubSeq(z[1], Len(from) + 1, Len(z[1])), z[2]>>
    BY <2>1 DEF Part
  <2>3. PICK q : q = z[1] /\ IsPath(q) /\ z = <<q, z[2]>> /\ IsPrefix(from, q)
    BY <2>2 DEF IsPairs
  <2>4. PICK y : y = SubSeq(q, Len(from) + 1, Len(q))
    OBVIOUS
  <2>5. IsPath(y) /\ q = from \o y
    BY <2>3, <2>4, PrefixGoesOn
  <2>6. x = <<y, z[2]>> /\ x[1] = y /\ x[2] = z[2]
    BY <2>2, <2>3, <2>4
  <2>7. p = to \o y /\ c = z[2]
    BY <2>1, <2>6
  <2> QED BY <2>3, <2>5, <2>7
<1>3. ASSUME NEW c, NEW y, IsPath(y), <<from \o y, c>> \in tree
      PROVE  <<to \o y, c>> \in MovedPart(tree, from, to)
  <2>1. IsPrefix(from, from \o y) /\ SubSeq(from \o y, Len(from) + 1, Len(from \o y)) = y
    BY <1>3, ConcatIs
  <2>2. PICK z : z = <<from \o y, c>> /\ z \in tree
    BY <1>3
  <2>3. z[1] = from \o y /\ z[2] = c
    BY <2>2
  <2>4. PICK x : x = <<SubSeq(z[1], Len(from) + 1, Len(z[1])), z[2]>>
    OBVIOUS
  <2>5. x \in Part(tree, from)
    BY <2>1, <2>2, <2>3, <2>4 DEF Part
  <2>6. x[1] = y /\ x[2] = c
    BY <2>1, <2>3, <2>4
  <2> QED BY <2>5, <2>6 DEF MovedPart
<1> QED BY <1>1, <1>2, <1>3 DEF CameFrom

\* A move takes a part away, and puts it over what is there.
LEMMA MovedToIs ==
  ASSUME NEW tree, IsPairs(tree), NEW from, IsPath(from), NEW to,
         \A x \in tree : IsPath(x[1])
  PROVE  /\ IsPairs(MovedTo(tree, from, to))
         /\ MovedTo(tree, from, to) =
              Over(WithFolders(Gone(tree, from), to), MovedPart(tree, from, to))
         /\ PathsOf(Gone(tree, from)) \subseteq PathsOf(MovedTo(tree, from, to))
<1>1. /\ IsPairs(WithFolders(Gone(tree, from), to)) /\ IsPairs(MovedPart(tree, from, to))
      /\ PathsOf(Gone(tree, from)) \subseteq PathsOf(WithFolders(Gone(tree, from), to))
  BY GoneIs, WithFoldersIs, MovedPartIs
<1>2. MovedTo(tree, from, to) = Over(WithFolders(Gone(tree, from), to), MovedPart(tree, from, to))
  BY DEF MovedTo, MovedPart
<1> QED BY <1>1, <1>2, OverIs

\* Which effect an action has.
LEMMA PerformedIs ==
  ASSUME NEW tree, NEW now, NEW act, act.kind \in ActionKinds
  PROVE  /\ Deletes(act) => Performed(tree, now, act) = Gone(tree, act.to)
         /\ ~Deletes(act) /\ (act.kind \in {"Upload", "EnsureFolder"} \/ act.from \notin PathsOf(tree))
              => Performed(tree, now, act) = Brought(tree, now, act.to)
         /\ act.kind \in {"Move", "MoveFolder"} /\ act.from \in PathsOf(tree)
              => Performed(tree, now, act) = MovedTo(tree, act.from, act.to)
         /\ act.kind = "MoveAndUpload" /\ act.from \in PathsOf(tree)
              => Performed(tree, now, act) = Brought(MovedTo(tree, act.from, act.to), now, act.to)
BY DEF Performed, Deletes, ActionKinds

\* Trees of paths.
IsNamed(tree) == IsPairs(tree) /\ \A x \in tree : IsPath(x[1])

\* Plain actions leave what the folder has.
LEMMA PerformedKeeps ==
  ASSUME PlainWindows, TypeOK, NEW act \in Acts, NEW tree, IsNamed(tree),
         NEW p \in PathsOf(tree), p \in DOMAIN Local
  PROVE  p \in PathsOf(Performed(tree, Local, act))
<1>1. /\ act \in SyncActions /\ IsPath(act.from) /\ IsPairs(tree) /\ \A x \in tree : IsPath(x[1])
  BY PlainAct, PlainPaths DEF IsNamed, IsPath
<1>5. act.kind \in ActionKinds
  BY <1>1 DEF SyncActions
<1>2. CASE Deletes(act)
  <2>1. act.kind \in {"Delete", "RemoveFolder"} /\ act.from = act.to
    BY <1>1, <1>2 DEF Deletes, SyncActions
  <2>2. ~IsPrefix(act.to, p)
    BY <2>1, PlainAct
  <2>3. Performed(tree, Local, act) = Gone(tree, act.to)
    BY <1>2, <1>5, PerformedIs
  <2> QED BY <1>1, <2>2, <2>3, GoneIs, PairHasPath
<1>3. CASE ~Deletes(act) /\ (act.kind \in {"Upload", "EnsureFolder"} \/ act.from \notin PathsOf(tree))
  <2>1. Performed(tree, Local, act) = Brought(tree, Local, act.to)
    BY <1>3, <1>5, PerformedIs
  <2>2. act.to \in DOMAIN Local
    BY <1>3, PlainAct
  <2> QED BY <1>1, <2>1, <2>2, BroughtIs
<1>4. CASE ~Deletes(act) /\ act.kind \notin {"Upload", "EnsureFolder"} /\ act.from \in PathsOf(tree)
  <2>1. act.to \in DOMAIN Local /\ ~IsPrefix(act.from, p)
    BY <1>4, PlainAct
  <2>2. p \in PathsOf(Gone(tree, act.from))
    BY <1>1, <2>1, GoneIs, PairHasPath
  <2>3. PICK m : m = MovedTo(tree, act.from, act.to)
    OBVIOUS
  <2>4. IsPairs(m) /\ p \in PathsOf(m)
    BY <1>1, <2>2, <2>3, MovedToIs
  <2>5. Performed(tree, Local, act) = m \/ Performed(tree, Local, act) = Brought(m, Local, act.to)
    <3>1. CASE act.kind \in {"Move", "MoveFolder"}
      BY <1>4, <1>5, <2>3, <3>1, PerformedIs
    <3>2. CASE act.kind = "MoveAndUpload"
      BY <1>4, <1>5, <2>3, <3>2, PerformedIs
    <3>3. act.kind \in {"Move", "MoveFolder"} \/ act.kind = "MoveAndUpload"
      BY <1>4, <1>5 DEF Deletes, ActionKinds
    <3> QED BY <3>1, <3>2, <3>3
  <2>6. PathsOf(m) \subseteq PathsOf(Brought(m, Local, act.to))
    BY <2>1, <2>4, BroughtIs
  <2> QED BY <2>4, <2>5, <2>6
<1> QED BY <1>2, <1>3, <1>4

\* What an action makes of a tree is a tree.
LEMMA PerformedIsPairs ==
  ASSUME NEW tree, IsNamed(tree), NEW now, NEW act \in SyncActions
  PROVE  IsPairs(Performed(tree, now, act))
<1>1. /\ IsPairs(tree) /\ \A x \in tree : IsPath(x[1])
      /\ act.kind \in ActionKinds /\ IsPath(act.from)
  BY DEF IsNamed, SyncActions, Paths, IsPath
<1>2. ASSUME NEW u, IsPairs(u) PROVE IsPairs(Brought(u, now, act.to))
  <2>1. CASE act.to \in DOMAIN now
    BY <1>2, <2>1, BroughtIs
  <2>2. CASE act.to \notin DOMAIN now
    BY <1>2, <2>2 DEF Brought
  <2> QED BY <2>1, <2>2
<1>3. PICK m : m = MovedTo(tree, act.from, act.to)
  OBVIOUS
<1>4. IsPairs(m)
  BY <1>1, <1>3, MovedToIs
<1>5. IsPairs(Gone(tree, act.to)) /\ IsPairs(Brought(tree, now, act.to)) /\ IsPairs(Brought(m, now, act.to))
  BY <1>1, <1>2, <1>4, GoneIs
<1>6. Performed(tree, now, act) \in
        {Gone(tree, act.to), Brought(tree, now, act.to), m, Brought(m, now, act.to)}
  BY <1>3 DEF Performed
<1> QED BY <1>4, <1>5, <1>6

\* The trees of a course have what the folder has and the first one has.
LEMMA CourseKeeps ==
  ASSUME PlainWindows, TypeOK, NEW s, Len(s) \in Nat, \A j \in 1..Len(s) : s[j] \in Acts,
         NEW c, IsPairs(c[0]), LeadBy(c, Local, s), NEW p \in PathsOf(c[0]), p \in DOMAIN Local,
         NEW n \in 0..Len(s)
  PROVE  p \in PathsOf(c[n]) /\ IsNamed(c[n])
<1> DEFINE Bad(k) == ~(p \in PathsOf(c[k]) /\ IsPairs(c[k]))
           T == {k \in 0..Len(s) : Bad(k)}
<1>1. ASSUME NEW k \in 0..Len(s), IsPairs(c[k]) PROVE IsNamed(c[k])
  <2>1. PathsOf(c[k]) \subseteq Paths
    BY DEF LeadBy
  <2>2. ASSUME NEW x \in c[k] PROVE IsPath(x[1])
    <3>1. x[1] \in Paths
      BY <2>1, <2>2 DEF PathsOf
    <3> QED BY <3>1 DEF Paths, IsPath
  <2> QED BY <1>1, <2>2 DEF IsNamed
<1>2. ASSUME NEW k \in T, \A y \in T : k <= y PROVE FALSE
  <2>1. k # 0 /\ k \in 1..Len(s)
    OBVIOUS
  <2>2. k - 1 \in 0..Len(s) /\ k - 1 \notin T
    BY <1>2, <2>1
  <2>3. PICK u : u = c[k - 1]
    OBVIOUS
  <2>4. p \in PathsOf(u) /\ IsNamed(u) /\ s[k] \in Acts
    BY <1>1, <2>1, <2>2, <2>3
  <2>5. c[k] = Performed(u, Local, s[k])
    BY <2>1, <2>3 DEF LeadBy, Follow
  <2>6. p \in PathsOf(Performed(u, Local, s[k]))
    BY <2>4, PerformedKeeps
  <2>7. s[k] \in SyncActions
    BY <2>4, PlainAct
  <2>8. IsPairs(Performed(u, Local, s[k]))
    BY <2>4, <2>7, PerformedIsPairs
  <2> QED BY <2>5, <2>6, <2>8
<1>3. T = {}
  <2> SUFFICES ASSUME T # {} PROVE FALSE
    OBVIOUS
  <2>1. T \subseteq Nat
    OBVIOUS
  <2> HIDE DEF T
  <2>2. PICK k \in T : \A y \in T : k <= y
    BY <2>1, LeastNumber
  <2> QED BY <1>2, <2>2
<1>4. p \in PathsOf(c[n]) /\ IsPairs(c[n])
  BY <1>3
<1> QED BY <1>1, <1>4

\* A folder that is there already need not be asked for.
LEMMA FolderLeftOut ==
  ASSUME PlainWindows, TypeOK, NEW tree, IsPairs(tree), NEW s, Len(s) \in Nat,
         \A j \in 1..Len(s) : s[j] \in Acts, Reaches(tree, Local, s),
         NEW m, NEW r, Short(s, r, m), s[m + 1].kind = "EnsureFolder",
         s[m + 1].to \in PathsOf(tree)
  PROVE  Reaches(tree, Local, r)
<1>1. PICK c : c[0] = tree /\ LeadBy(c, Local, s)
  BY DEF Reaches
<1>2. m \in 0..Len(s) /\ m + 1 \in 1..Len(s) /\ (m + 1) - 1 = m
  BY DEF Short
<1>3. PICK act : act = s[m + 1]
  OBVIOUS
<1>4. act \in Acts /\ act.kind = "EnsureFolder" /\ act.to \in PathsOf(tree)
  BY <1>2, <1>3
<1>5. act.to \in DOMAIN Local /\ Local[act.to] = Folder /\ act \in SyncActions
  BY <1>4, PlainAct DEF Deletes
<1>6. act.to \in PathsOf(c[m]) /\ IsPairs(c[m])
  BY <1>1, <1>2, <1>4, <1>5, CourseKeeps DEF IsNamed
<1>7. c[m + 1] = Performed(c[m], Local, act)
  BY <1>1, <1>2, <1>3 DEF LeadBy, Follow
<1>8. Performed(c[m], Local, act) = Brought(c[m], Local, act.to)
  BY <1>4, PerformedIs DEF Deletes, ActionKinds
<1>9. Brought(c[m], Local, act.to) = c[m]
  <2>1. PICK u, now, p : u = c[m] /\ now = Local /\ p = act.to
    OBVIOUS
  <2>2. IsPairs(u) /\ p \in DOMAIN now /\ now[p] = Folder /\ p \in PathsOf(u)
    BY <1>5, <1>6, <2>1
  <2>3. Brought(u, now, p) = u
    BY <2>2, BroughtIs
  <2> QED BY <2>1, <2>3
<1> QED BY <1>1, <1>7, <1>8, <1>9, ReachShort

-----------------------------------------------------------------------------
(* The tree of the objects on Drive *)

TreeOn(ds) == {<<x[1], ds[x[2]].content>> : x \in Reached(ds, Root) \ {<< << >>, Root >>}}

\* What is on Drive is the tree of its objects.
LEMMA OnDriveIsTree == OnDrive = TreeOn(drive)
BY DEF OnDrive, TreeOn

\* The tree of the objects has those that are reached, each with its content.
LEMMA TreeOnIs ==
  ASSUME NEW ds
  PROVE  /\ IsNamed(TreeOn(ds))
         /\ \A p, c : <<p, c>> \in TreeOn(ds) <=> HasAt(ds, p, c)
         /\ \A p : p \in PathsOf(TreeOn(ds)) <=> p # << >> /\ \E o : <<p, o>> \in Reached(ds, Root)
<1>1. ASSUME NEW y \in TreeOn(ds) PROVE y = <<y[1], y[2]>> /\ IsPath(y[1])
  <2>1. PICK x \in Reached(ds, Root) : y = <<x[1], ds[x[2]].content>>
    BY <1>1 DEF TreeOn
  <2>2. y[1] = x[1] /\ y = <<y[1], y[2]>>
    BY <2>1
  <2>3. PICK p, o : p = x[1] /\ x = <<p, o>>
    BY ReachedSteps
  <2>5. <<p, o>> \in Reached(ds, Root)
    BY <2>3
  <2>4. IsPath(p)
    BY <2>5, ReachedSteps
  <2> QED BY <2>2, <2>3, <2>4
<1>2. ASSUME NEW p, NEW c, <<p, c>> \in TreeOn(ds) PROVE HasAt(ds, p, c)
  <2>1. PICK x \in Reached(ds, Root) : x # << << >>, Root >> /\ <<p, c>> = <<x[1], ds[x[2]].content>>
    BY <1>2 DEF TreeOn
  <2>2. PICK q, o : q = x[1] /\ o = x[2] /\ x = <<q, o>>
    BY ReachedSteps
  <2>3. p = q /\ c = ds[o].content /\ <<q, o>> \in Reached(ds, Root) /\ <<q, o>> # << << >>, Root >>
    BY <2>1, <2>2
  <2>4. q # << >>
    BY <2>3, ReachedSteps
  <2> QED BY <2>3, <2>4 DEF HasAt
<1>3. ASSUME NEW p, NEW o, <<p, o>> \in Reached(ds, Root), p # << >>
      PROVE  <<p, ds[o].content>> \in TreeOn(ds)
  <2>1. PICK x : x = <<p, o>>
    OBVIOUS
  <2>2. x \in Reached(ds, Root) /\ x # << << >>, Root >> /\ x[1] = p /\ x[2] = o
    BY <1>3, <2>1
  <2> QED BY <2>2 DEF TreeOn
<1>4. IsPairs(TreeOn(ds)) /\ IsNamed(TreeOn(ds))
  BY <1>1 DEF IsNamed, IsPairs
<1>5. ASSUME NEW p PROVE p \in PathsOf(TreeOn(ds)) <=> p # << >> /\ \E o : <<p, o>> \in Reached(ds, Root)
  <2>1. ASSUME p \in PathsOf(TreeOn(ds)) PROVE p # << >> /\ \E o : <<p, o>> \in Reached(ds, Root)
    <3>1. PICK c : <<p, c>> \in TreeOn(ds)
      BY <1>4, <2>1, PairHasPath
    <3> QED BY <1>2, <3>1 DEF HasAt
  <2>2. ASSUME p # << >>, NEW o, <<p, o>> \in Reached(ds, Root) PROVE p \in PathsOf(TreeOn(ds))
    BY <1>3, <1>4, <2>2, PairHasPath
  <2> QED BY <2>1, <2>2
<1> QED BY <1>2, <1>3, <1>4, <1>5 DEF HasAt

\* What is below an object is what is reached from it.
LEMMA UnderIs ==
  ASSUME NEW es, NEW id, NEW o
  PROVE  o \in Under(es, id) <=> \E p : <<p, o>> \in Reached(es, id)
<1>1. ASSUME o \in Under(es, id) PROVE \E p : <<p, o>> \in Reached(es, id)
  <2>1. PICK x \in Reached(es, id) : o = x[2]
    BY <1>1 DEF Under
  <2>2. x = <<x[1], o>>
    BY <2>1, ReachedSteps
  <2> QED BY <2>1, <2>2
<1>2. ASSUME NEW p, <<p, o>> \in Reached(es, id) PROVE o \in Under(es, id)
  <2>1. <<p, o>>[2] = o
    OBVIOUS
  <2> QED BY <1>2, <2>1 DEF Under
<1> QED BY <1>1, <1>2

\* A path ends with a name.
LEMMA LongerPath ==
  ASSUME NEW x, IsPath(x), NEW n \in Nat, Len(x) = n + 1
  PROVE  IsPath(Front(x)) /\ x = Append(Front(x), Last(x)) /\ Len(Front(x)) = n /\ x # << >>
<1>1. PICK S : x \in Seq(S)
  BY DEF IsPath
<1>2. x # << >>
  BY <1>1
<1>3. /\ x = Append(Front(x), Last(x)) /\ Front(x) \in Seq(S)
      /\ Len(x) \in Nat \ {0} /\ Len(Front(x)) = Len(x) - 1
  BY <1>1, <1>2, FrontAndLast
<1>4. Len(Front(x)) = n
  BY <1>3
<1> QED BY <1>2, <1>3, <1>4 DEF IsPath

\* Only the empty path has no names.
LEMMA ShortestPath ==
  ASSUME NEW x, IsPath(x)
  PROVE  Len(x) = 0 <=> x = << >>
<1>1. PICK S : x \in Seq(S)
  BY DEF IsPath
<1> QED BY <1>1, EmptySeq

\* What is below an object in the tree is reached from it.
LEMMA BelowIsUnder ==
  ASSUME NEW es, NoTwin(es), NEW to, NEW a, <<to, a>> \in Reached(es, Root),
         NEW x, IsPath(x), NEW o, <<to \o x, o>> \in Reached(es, Root)
  PROVE  <<x, o>> \in Reached(es, a)
<1> DEFINE R == Reached(es, Root)
           P(n) == \A y, q : IsPath(y) /\ Len(y) = n /\ <<to \o y, q>> \in R
                               => <<y, q>> \in Reached(es, a)
<1>1. IsPath(to)
  BY ReachedSteps
<1>2. P(0)
  <2> SUFFICES ASSUME NEW y, NEW q, IsPath(y), Len(y) = 0, <<to \o y, q>> \in R
               PROVE  <<y, q>> \in Reached(es, a)
    OBVIOUS
  <2>1. y = << >>
    BY ShortestPath
  <2>2. to \o y = to
    BY <1>1, <2>1, ConcatIs
  <2>3. q = a
    BY <2>2, OneIdAtPath
  <2> QED BY <2>1, <2>3, ReachedIsRooted
<1>3. ASSUME NEW n \in 0..2, P(n) PROVE P(n + 1)
  <2> SUFFICES ASSUME NEW y, NEW q, IsPath(y), Len(y) = n + 1, <<to \o y, q>> \in R
               PROVE  <<y, q>> \in Reached(es, a)
    OBVIOUS
  <2>0. IsPath(Front(y)) /\ y = Append(Front(y), Last(y)) /\ Len(Front(y)) = n
    <3>1. n \in Nat
      OBVIOUS
    <3> QED BY <3>1, LongerPath
  <2>1. PICK z, e : IsPath(z) /\ y = Append(z, e) /\ Len(z) = n
    BY <2>0
  <2>2. PICK w : w = to \o z /\ IsPath(w) /\ to \o y = Append(w, e)
    <3>1. IsPath(to \o z)
      BY <1>1, <2>1, ConcatIs
    <3>2. to \o y = Append(to \o z, e)
      BY <1>1, <2>1, ConcatAppend
    <3> QED BY <3>1, <3>2
  <2>3. Append(w, e) # << >> /\ Front(Append(w, e)) = w /\ Last(Append(w, e)) = e
    BY <2>2, FrontOfLonger, LastOfLonger
  <2>4. <<Append(w, e), q>> \in R
    BY <2>2
  <2>5. /\ q \in DOMAIN es /\ <<w, es[q].parent>> \in R
        /\ Append(w, e) = Append(w, es[q].name)
    <3>1. PICK v : v = Append(w, e)
      OBVIOUS
    <3>2. v # << >> /\ <<v, q>> \in R /\ Front(v) = w
      BY <2>3, <2>4, <3>1
    <3>3. q \in DOMAIN es /\ <<Front(v), es[q].parent>> \in R /\ v = Append(Front(v), es[q].name)
      BY <3>2, ReachedSteps
    <3> QED BY <3>1, <3>2, <3>3
  <2>6. e = es[q].name
    <3>1. Last(Append(w, es[q].name)) = es[q].name
      BY <2>2, LastOfLonger
    <3> QED BY <2>3, <2>5, <3>1
  <2>7. <<z, es[q].parent>> \in Reached(es, a)
    BY <1>3, <2>1, <2>2, <2>5
  <2>8. Len(z) <= 2
    BY <2>1
  <2> QED BY <2>1, <2>5, <2>6, <2>7, <2>8, ReachedSteps
<1>4. Len(x) \in 0..3
  <2>1. Len(to \o x) \in 0..3
    BY ReachedSteps
  <2>2. Len(to \o x) = Len(to) + Len(x) /\ Len(to) \in Nat /\ Len(x) \in Nat
    BY <1>1, ConcatIs
  <2>3. PICK k, l, n : k = Len(to \o x) /\ l = Len(to) /\ n = Len(x)
    OBVIOUS
  <2>4. k \in 0..3 /\ k = l + n /\ l \in Nat /\ n \in Nat
    BY <2>1, <2>2, <2>3
  <2>5. n \in 0..3
    BY <2>4
  <2> QED BY <2>3, <2>5
<1> HIDE DEF P
<1>5. P(1) /\ P(2) /\ P(3)
  <2>1. P(0 + 1)
    BY <1>2, <1>3
  <2>2. P(1 + 1)
    BY <1>3, <2>1
  <2>3. P(2 + 1)
    BY <1>3, <2>2
  <2> QED BY <2>1, <2>2, <2>3
<1>6. P(Len(x))
  <2>1. Len(x) = 0 \/ Len(x) = 1 \/ Len(x) = 2 \/ Len(x) = 3
    BY <1>4
  <2> QED BY <1>2, <1>5, <2>1
<1> QED BY <1>6 DEF P

\* Every object is somewhere below the watched folder.
AllRooted(es) == DOMAIN es \subseteq Under(es, Root)

\* What is reached from an object is below it in the tree.
LEMMA UnderIsDown ==
  ASSUME NEW es, Root \notin DOMAIN es, AllRooted(es), NEW from, NEW s,
         <<from, s>> \in Reached(es, Root), NEW x, NEW o, <<x, o>> \in Reached(es, s)
  PROVE  <<from \o x, o>> \in Reached(es, Root)
<1> DEFINE R == Reached(es, Root)
           P(n) == \A y, q : Len(y) = n /\ <<y, q>> \in Reached(es, s) => <<from \o y, q>> \in R
<1>1. IsPath(from)
  BY ReachedSteps
<1>2. P(0)
  <2> SUFFICES ASSUME NEW y, NEW q, Len(y) = 0, <<y, q>> \in Reached(es, s)
               PROVE  <<from \o y, q>> \in R
    OBVIOUS
  <2>0. IsPath(y)
    BY ReachedSteps
  <2>1. y = << >>
    BY <2>0, ShortestPath
  <2>2. from \o y = from
    BY <1>1, <2>1, ConcatIs
  <2>3. q = s
    <3>1. PICK w : w = <<y, q>> /\ w[1] = << >> /\ w[2] = q /\ w \in Reached(es, s)
      BY <2>1
    <3> QED BY <3>1, ReachedIsRooted
  <2> QED BY <2>2, <2>3
<1>3. ASSUME NEW n \in 0..2, P(n) PROVE P(n + 1)
  <2> SUFFICES ASSUME NEW y, NEW q, Len(y) = n + 1, <<y, q>> \in Reached(es, s)
               PROVE  <<from \o y, q>> \in R
    OBVIOUS
  <2>0. IsPath(y)
    BY ReachedSteps
  <2>1. PICK z : IsPath(z) /\ Len(z) = n /\ z = Front(y)
    <3>1. n \in Nat
      OBVIOUS
    <3> QED BY <2>0, <3>1, LongerPath
  <2>9. y # << >>
    BY <2>0, ShortestPath
  <2>2. /\ q \in DOMAIN es /\ <<z, es[q].parent>> \in Reached(es, s)
        /\ y = Append(z, es[q].name)
    BY <2>1, <2>9, ReachedSteps
  <2>3. <<from \o z, es[q].parent>> \in R
    BY <1>3, <2>1, <2>2
  <2>4. PICK p : <<p, q>> \in R
    BY <2>2, UnderIs DEF AllRooted
  <2>5. p # << >>
    BY <2>2, <2>4, ReachedSteps
  <2>6. <<Front(p), es[q].parent>> \in R /\ p = Append(Front(p), es[q].name)
    BY <2>4, <2>5, ReachedSteps
  <2>7. Front(p) = from \o z
    BY <2>3, <2>6, OnePathOfId
  <2>8. from \o y = Append(from \o z, es[q].name)
    BY <1>1, <2>1, <2>2, ConcatAppend
  <2> QED BY <2>4, <2>6, <2>7, <2>8
<1>4. Len(x) \in 0..3
  BY ReachedSteps
<1> HIDE DEF P
<1>5. P(1) /\ P(2) /\ P(3)
  <2>1. P(0 + 1)
    BY <1>2, <1>3
  <2>2. P(1 + 1)
    BY <1>3, <2>1
  <2>3. P(2 + 1)
    BY <1>3, <2>2
  <2> QED BY <2>1, <2>2, <2>3
<1>6. P(Len(x))
  <2>1. Len(x) = 0 \/ Len(x) = 1 \/ Len(x) = 2 \/ Len(x) = 3
    BY <1>4
  <2> QED BY <1>2, <1>5, <2>1
<1> QED BY <1>6 DEF P

\* Something is created.
Adds(ds, es, id, at, name, content) ==
  /\ Root \notin DOMAIN ds /\ id # Root /\ id \notin DOMAIN ds
  /\ \A o \in DOMAIN ds : ds[o].parent # id
  /\ DOMAIN es = DOMAIN ds \union {id} /\ \A o \in DOMAIN ds : es[o] = ds[o]
  /\ es[id].parent = at /\ es[id].name = name /\ es[id].content = content

\* A call that creates puts one object in the tree, at its path.
LEMMA TreeAfterNew ==
  ASSUME NEW ds, NEW es, NEW id, NEW at, NEW name, NEW content,
         Adds(ds, es, id, at, name, content),
         NEW top, IsPath(top), Len(top) <= 2, <<top, at>> \in Reached(ds, Root),
         NEW to, to = Append(top, name)
  PROVE  /\ \A p, c : HasAt(es, p, c) <=> HasAt(ds, p, c) \/ (p = to /\ c = content)
         /\ AllRooted(ds) => AllRooted(es)
<1> DEFINE P(n) == \A p, o : Len(p) = n /\ <<p, o>> \in Reached(es, Root)
                               => (o = id /\ p = to) \/ <<p, o>> \in Reached(ds, Root)
<1>1. /\ Root \notin DOMAIN ds /\ id # Root /\ id \notin DOMAIN ds
      /\ \A o \in DOMAIN ds : ds[o].parent # id
      /\ DOMAIN es = DOMAIN ds \union {id} /\ \A o \in DOMAIN ds : es[o] = ds[o]
      /\ es[id].parent = at /\ es[id].name = name /\ es[id].content = content
  BY DEF Adds
<1>2. to # << >>
  BY FrontOfLonger
<1>3. at # id
  BY <1>1, ReachedSteps
<1>4. << << >>, Root >> \in Reached(ds, Root)
  BY ReachedIsRooted
<1>5. P(0)
  <2> SUFFICES ASSUME NEW p, NEW o, Len(p) = 0, <<p, o>> \in Reached(es, Root)
               PROVE  <<p, o>> \in Reached(ds, Root)
    OBVIOUS
  <2>1. p = << >>
    BY ReachedSteps, ShortestPath
  <2>2. PICK w : w = <<p, o>> /\ w[1] = << >> /\ w[2] = o /\ w \in Reached(es, Root)
    BY <2>1
  <2>3. o = Root
    BY <2>2, ReachedIsRooted
  <2> QED BY <1>4, <2>1, <2>3
<1>6. ASSUME NEW n \in 0..2, P(n) PROVE P(n + 1)
  <2> SUFFICES ASSUME NEW p, NEW o, Len(p) = n + 1, <<p, o>> \in Reached(es, Root)
               PROVE  (o = id /\ p = to) \/ <<p, o>> \in Reached(ds, Root)
    OBVIOUS
  <2>1. IsPath(p)
    BY ReachedSteps
  <2>2. PICK z : z = Front(p) /\ Len(z) = n /\ p # << >>
    <3>1. n \in Nat
      OBVIOUS
    <3> QED BY <2>1, <3>1, LongerPath
  <2>3. /\ o \in DOMAIN es /\ <<z, es[o].parent>> \in Reached(es, Root)
        /\ p = Append(z, es[o].name)
    BY <2>2, ReachedSteps
  <2>4. es[o].parent # id
    BY <1>1, <1>3, <2>3
  <2>5. <<z, es[o].parent>> \in Reached(ds, Root)
    BY <1>6, <2>2, <2>3, <2>4
  <2>6. CASE o = id
    <3>1. <<z, at>> \in Reached(ds, Root)
      BY <1>1, <2>5, <2>6
    <3>2. z = top
      BY <1>1, <3>1, OnePathOfId
    <3> QED BY <1>1, <2>3, <2>6, <3>2
  <2>7. CASE o # id
    <3>1. o \in DOMAIN ds /\ es[o] = ds[o]
      BY <1>1, <2>3, <2>7
    <3>2. Len(z) <= 2
      BY <2>2
    <3> QED BY <2>3, <2>5, <3>1, <3>2, ReachedSteps
  <2> QED BY <2>6, <2>7
<1>7. P(1) /\ P(2) /\ P(3)
  <2> HIDE DEF P
  <2>1. P(0 + 1)
    BY <1>5, <1>6
  <2>2. P(1 + 1)
    BY <1>6, <2>1
  <2>3. P(2 + 1)
    BY <1>6, <2>2
  <2> QED BY <2>1, <2>2, <2>3
<1>8. ASSUME NEW p, NEW o, <<p, o>> \in Reached(es, Root)
      PROVE  (o = id /\ p = to) \/ <<p, o>> \in Reached(ds, Root)
  <2>1. Len(p) \in 0..3
    BY <1>8, ReachedSteps
  <2>2. Len(p) = 0 \/ Len(p) = 1 \/ Len(p) = 2 \/ Len(p) = 3
    BY <2>1
  <2> QED BY <1>5, <1>7, <1>8, <2>2
<1>9. ASSUME NEW p, NEW c, HasAt(es, p, c) PROVE HasAt(ds, p, c) \/ (p = to /\ c = content)
  <2>1. PICK o : <<p, o>> \in Reached(es, Root) /\ p # << >> /\ es[o].content = c
    BY <1>9 DEF HasAt
  <2>2. CASE o = id /\ p = to
    BY <1>1, <2>1, <2>2
  <2>3. CASE <<p, o>> \in Reached(ds, Root)
    <3>1. o \in DOMAIN ds
      BY <2>1, <2>3, ReachedSteps
    <3> QED BY <1>1, <2>1, <2>3, <3>1 DEF HasAt
  <2> QED BY <1>8, <2>1, <2>2, <2>3
<1> HIDE DEF P
<1>14. ASSUME NEW p, NEW o, <<p, o>> \in Reached(ds, Root) PROVE <<p, o>> \in Reached(es, Root)
  <2>1. \A q \in DOMAIN ds : q \in DOMAIN es /\ es[q].parent = ds[q].parent /\ es[q].name = ds[q].name
    BY <1>1
  <2> QED BY <1>14, <2>1, ReachedGrows
<1>10. ASSUME NEW p, NEW c, HasAt(ds, p, c) PROVE HasAt(es, p, c)
  <2>1. PICK o : <<p, o>> \in Reached(ds, Root) /\ p # << >> /\ ds[o].content = c
    BY <1>10 DEF HasAt
  <2>2. o \in DOMAIN ds
    BY <2>1, ReachedSteps
  <2> QED BY <1>1, <1>14, <2>1, <2>2 DEF HasAt
<1>13. <<to, id>> \in Reached(es, Root)
  <2>1. <<top, es[id].parent>> \in Reached(es, Root) /\ id \in DOMAIN es
    BY <1>1, <1>14
  <2> QED BY <1>1, <2>1, ReachedSteps
<1>11. HasAt(es, to, content)
  BY <1>1, <1>2, <1>13 DEF HasAt
<1>12. ASSUME AllRooted(ds), NEW o \in DOMAIN es PROVE o \in Under(es, Root)
  <2>1. CASE o = id
    BY <1>13, <2>1, UnderIs
  <2>2. CASE o # id
    <3>1. o \in DOMAIN ds
      BY <1>1, <2>2
    <3>2. PICK p : <<p, o>> \in Reached(ds, Root)
      BY <1>12, <3>1, UnderIs DEF AllRooted
    <3>3. <<p, o>> \in Reached(es, Root)
      BY <1>14, <3>2
    <3> QED BY <3>3, UnderIs
  <2> QED BY <2>1, <2>2
<1> QED BY <1>9, <1>10, <1>11, <1>12 DEF AllRooted

\* The content of a file is replaced.
Rewrites(ds, es, a, content) ==
  /\ DOMAIN es = DOMAIN ds
  /\ \A o \in DOMAIN ds : es[o].parent = ds[o].parent /\ es[o].name = ds[o].name
  /\ \A o \in DOMAIN ds : es[o].content = IF o = a THEN content ELSE ds[o].content

\* A call that writes a file changes one content in the tree.
LEMMA TreeAfterUpdate ==
  ASSUME NEW ds, Root \notin DOMAIN ds, NoTwin(ds), NEW to, NEW a, <<to, a>> \in Reached(ds, Root),
         to # << >>, NEW content, NEW es, Rewrites(ds, es, a, content)
  PROVE  /\ \A p, c : HasAt(es, p, c) <=>
                        (p = to /\ c = content) \/ (p # to /\ HasAt(ds, p, c))
         /\ AllRooted(ds) => AllRooted(es)
<1>1. Reached(es, Root) = Reached(ds, Root) /\ Under(es, Root) = Under(ds, Root)
  <2>1. Alike(es, ds)
    BY DEF Alike, Rewrites
  <2> QED BY <2>1, AlikeReached
<1>2. ASSUME NEW p, NEW o, <<p, o>> \in Reached(ds, Root), p # << >>
      PROVE  o \in DOMAIN ds /\ (o = a <=> p = to)
  <2>1. o \in DOMAIN ds
    BY <1>2, ReachedSteps
  <2>2. o = a => p = to
    BY <1>2, OnePathOfId
  <2>3. p = to => o = a
    BY <1>2, OneIdAtPath
  <2> QED BY <2>1, <2>2, <2>3
<1>3. ASSUME NEW p, NEW c, HasAt(es, p, c)
      PROVE  (p = to /\ c = content) \/ (p # to /\ HasAt(ds, p, c))
  <2>1. PICK o : <<p, o>> \in Reached(ds, Root) /\ p # << >> /\ es[o].content = c
    BY <1>1, <1>3 DEF HasAt
  <2>2. o \in DOMAIN ds /\ (o = a <=> p = to)
    BY <1>2, <2>1
  <2> QED BY <2>1, <2>2 DEF HasAt, Rewrites
<1>4. HasAt(es, to, content)
  <2>1. a \in DOMAIN ds
    BY <1>2
  <2>2. es[a].content = content /\ <<to, a>> \in Reached(es, Root)
    BY <1>1, <2>1 DEF Rewrites
  <2> QED BY <2>2 DEF HasAt
<1>5. ASSUME NEW p, NEW c, p # to, HasAt(ds, p, c) PROVE HasAt(es, p, c)
  <2>1. PICK o : <<p, o>> \in Reached(ds, Root) /\ p # << >> /\ ds[o].content = c
    BY <1>5 DEF HasAt
  <2>2. o \in DOMAIN ds /\ o # a
    BY <1>2, <1>5, <2>1
  <2>3. es[o].content = c
    BY <2>1, <2>2 DEF Rewrites
  <2> QED BY <1>1, <2>1, <2>3 DEF HasAt
<1> QED BY <1>1, <1>3, <1>4, <1>5 DEF AllRooted, Rewrites

\* An object is deleted, with all that is below it.
LEMMA TreeAfterCut ==
  ASSUME NEW ds, Root \notin DOMAIN ds, NoTwin(ds), NEW to, NEW a, <<to, a>> \in Reached(ds, Root),
         NEW es, es = Cut(ds, a)
  PROVE  /\ \A p, c : HasAt(es, p, c) <=> HasAt(ds, p, c) /\ ~IsPrefix(to, p)
         /\ AllRooted(ds) => AllRooted(es)
<1>1. DOMAIN es = DOMAIN ds \ Under(ds, a) /\ \A o \in DOMAIN es : es[o] = ds[o]
  BY DEF Cut, Restrict
<1>2. ASSUME NEW p, NEW o, <<p, o>> \in Reached(es, Root) PROVE <<p, o>> \in Reached(ds, Root)
  <2>1. \A q \in DOMAIN es : q \in DOMAIN ds /\ ds[q].parent = es[q].parent /\ ds[q].name = es[q].name
    BY <1>1
  <2>2. PICK fs : fs = es
    OBVIOUS
  <2>3. <<p, o>> \in Reached(fs, Root)
    BY <1>2, <2>2
  <2>4. \A q \in DOMAIN fs : q \in DOMAIN ds /\ ds[q].parent = fs[q].parent /\ ds[q].name = fs[q].name
    BY <2>1, <2>2
  <2> QED BY <2>3, <2>4, ReachedGrows
<1>3. ASSUME NEW p, NEW c, HasAt(es, p, c) PROVE HasAt(ds, p, c) /\ ~IsPrefix(to, p)
  <2>1. PICK o : <<p, o>> \in Reached(es, Root) /\ p # << >> /\ es[o].content = c
    BY <1>3 DEF HasAt
  <2>2. PICK fs : fs = es /\ <<p, o>> \in Reached(fs, Root)
    BY <2>1
  <2>3. o \in DOMAIN fs
    BY <2>1, <2>2, ReachedSteps
  <2>4. o \in DOMAIN ds /\ o \notin Under(ds, a) /\ es[o] = ds[o]
    BY <1>1, <2>2, <2>3
  <2>5. <<p, o>> \in Reached(ds, Root)
    BY <1>2, <2>1
  <2>6. ASSUME IsPrefix(to, p) PROVE FALSE
    <3>1. IsPath(to) /\ IsPath(p)
      BY <2>5, ReachedSteps
    <3>2. PICK x : IsPath(x) /\ p = to \o x
      BY <2>6, <3>1, PrefixGoesOn
    <3>3. <<x, o>> \in Reached(ds, a)
      BY <2>5, <3>2, BelowIsUnder
    <3> QED BY <2>4, <3>3, UnderIs
  <2> QED BY <2>1, <2>4, <2>5, <2>6 DEF HasAt
<1>4. ASSUME NEW p, NEW c, HasAt(ds, p, c), ~IsPrefix(to, p) PROVE HasAt(es, p, c)
  BY <1>4, DeletedKeeps
<1>5. ASSUME AllRooted(ds), NEW o \in DOMAIN es PROVE o \in Under(es, Root)
  <2>1. o \in DOMAIN ds /\ o \notin Under(ds, a)
    BY <1>1, <1>5
  <2>2. PICK p : <<p, o>> \in Reached(ds, Root)
    BY <1>5, <2>1, UnderIs DEF AllRooted
  <2>3. ASSUME IsPrefix(to, p) PROVE FALSE
    <3>1. IsPath(to) /\ IsPath(p)
      BY <2>2, ReachedSteps
    <3>2. PICK x : IsPath(x) /\ p = to \o x
      BY <2>3, <3>1, PrefixGoesOn
    <3>3. <<x, o>> \in Reached(ds, a)
      BY <2>2, <3>2, BelowIsUnder
    <3> QED BY <2>1, <3>3, UnderIs
  <2>4. <<p, o>> \in Reached(Cut(ds, a), Root)
    BY <2>2, <2>3, SurvivesCut
  <2>5. <<p, o>> \in Reached(es, Root)
    BY <2>4
  <2> QED BY <2>5, UnderIs
<1> QED BY <1>3, <1>4, <1>5 DEF AllRooted

\* What is at, or below, `from' is not too deep for a path when it is at, or below, `to'.
Fits(es, from, to) ==
  \A y, o : <<from \o y, o>> \in Reached(es, Root) /\ IsPath(y) => Len(to) + Len(y) <= 3

\* This was on Drive at, or below, `from', and is seen from `to' now.
WasAt(es, from, to, p, c) == \E y : IsPath(y) /\ p = to \o y /\ HasAt(es, from \o y, c)

\* An object is moved to a free name, with all that is below it.
LEMMA TreeAfterMove ==
  ASSUME NEW es, NEW ds, NEW s, NEW from, NEW a, NEW top, NEW name,
         Relocates(es, ds, s, from, a, top, name), NEW to, to = Append(top, name),
         AllRooted(es), \A o \in DOMAIN es : ds[o].content = es[o].content,
         Fits(es, from, to), from # << >>
  PROVE  /\ \A p, c : HasAt(ds, p, c) <=>
              (HasAt(es, p, c) /\ ~IsPrefix(from, p)) \/ WasAt(es, from, to, p, c)
         /\ AllRooted(ds)
<1>1. /\ Root \notin DOMAIN es /\ NoTwin(es) /\ s \in DOMAIN es
      /\ <<from, s>> \in Reached(es, Root) /\ <<top, a>> \in Reached(es, Root)
      /\ DOMAIN ds = DOMAIN es
  BY DEF Relocates
<1>2. IsPath(from) /\ IsPath(top) /\ IsPath(to) /\ to # << >>
  <2>1. IsPath(from) /\ IsPath(top)
    BY <1>1, ReachedSteps
  <2> QED BY <2>1, FrontOfLonger
<1>3. ASSUME NEW p, NEW o, <<p, o>> \in Reached(ds, Root)
      PROVE  \/ <<p, o>> \in Reached(es, Root) /\ ~IsPrefix(from, p)
             \/ \E y : IsPath(y) /\ p = to \o y /\ <<from \o y, o>> \in Reached(es, Root)
  <2>1. CASE Carried(es, s, to, p, o)
    <3>1. PICK y : p = to \o y /\ <<y, o>> \in Reached(es, s)
      BY <2>1 DEF Carried
    <3>2. IsPath(y)
      BY <3>1, ReachedSteps
    <3>3. <<from \o y, o>> \in Reached(es, Root)
      BY <1>1, <3>1, UnderIsDown
    <3> QED BY <3>1, <3>2, <3>3
  <2>2. CASE <<p, o>> \in Reached(es, Root) /\ ~IsPrefix(from, p)
    BY <2>2
  <2> QED BY <1>3, <2>1, <2>2, AfterMove
<1>4. ASSUME NEW p, NEW o, <<p, o>> \in Reached(es, Root), ~IsPrefix(from, p)
      PROVE  <<p, o>> \in Reached(ds, Root)
  BY <1>4, AfterMove
<1>5. ASSUME NEW y, IsPath(y), NEW o, <<from \o y, o>> \in Reached(es, Root)
      PROVE  <<to \o y, o>> \in Reached(ds, Root)
  <2>1. <<y, o>> \in Reached(es, s)
    BY <1>1, <1>5, BelowIsUnder
  <2>2. Len(to) + Len(y) <= 3
    BY <1>5 DEF Fits
  <2> QED BY <2>1, <2>2, AfterMove
<1>6. ASSUME NEW y, IsPath(y) PROVE to \o y # << >> /\ from \o y # << >>
  <2>1. ASSUME NEW p, IsPath(p), p # << >> PROVE p \o y # << >>
    <3>1. PICK S : p \in Seq(S) /\ y \in Seq(S)
      BY <1>6, <2>1, CommonNames
    <3> QED BY <2>1, <3>1
  <2> QED BY <1>2, <2>1
<1>7. ASSUME NEW p, NEW o, <<p, o>> \in Reached(es, Root), p # << >>
      PROVE  ds[o].content = es[o].content
  <2>1. o \in DOMAIN es
    BY <1>7, ReachedSteps
  <2> QED BY <2>1
<1>8. ASSUME NEW p, NEW c, HasAt(ds, p, c)
      PROVE  \/ HasAt(es, p, c) /\ ~IsPrefix(from, p)
             \/ \E y : IsPath(y) /\ p = to \o y /\ HasAt(es, from \o y, c)
  <2>1. PICK o : <<p, o>> \in Reached(ds, Root) /\ p # << >> /\ ds[o].content = c
    BY <1>8 DEF HasAt
  <2>2. CASE <<p, o>> \in Reached(es, Root) /\ ~IsPrefix(from, p)
    BY <1>7, <2>1, <2>2 DEF HasAt
  <2>3. CASE \E y : IsPath(y) /\ p = to \o y /\ <<from \o y, o>> \in Reached(es, Root)
    <3>1. PICK y : IsPath(y) /\ p = to \o y /\ <<from \o y, o>> \in Reached(es, Root)
      BY <2>3
    <3>2. HasAt(es, from \o y, c)
      BY <1>6, <1>7, <2>1, <3>1 DEF HasAt
    <3> QED BY <3>1, <3>2
  <2> QED BY <1>3, <2>1, <2>2, <2>3
<1>9. ASSUME NEW p, NEW c, HasAt(es, p, c), ~IsPrefix(from, p) PROVE HasAt(ds, p, c)
  BY <1>4, <1>7, <1>9 DEF HasAt
<1>10. ASSUME NEW y, IsPath(y), NEW c, HasAt(es, from \o y, c) PROVE HasAt(ds, to \o y, c)
  <2>1. PICK o : <<from \o y, o>> \in Reached(es, Root) /\ es[o].content = c
    BY <1>10 DEF HasAt
  <2>2. ds[o].content = c
    BY <1>6, <1>7, <1>10, <2>1
  <2> QED BY <1>5, <1>6, <1>10, <2>1, <2>2 DEF HasAt
<1>11. ASSUME NEW o \in DOMAIN ds PROVE o \in Under(ds, Root)
  <2>1. PICK p : <<p, o>> \in Reached(es, Root)
    BY <1>1, <1>11, UnderIs DEF AllRooted
  <2>2. CASE ~IsPrefix(from, p)
    BY <1>4, <2>1, <2>2, UnderIs
  <2>3. CASE IsPrefix(from, p)
    <3>1. IsPath(p)
      BY <2>1, ReachedSteps
    <3>2. PICK y : IsPath(y) /\ p = from \o y
      BY <1>2, <2>3, <3>1, PrefixGoesOn
    <3>3. <<to \o y, o>> \in Reached(ds, Root)
      BY <1>5, <2>1, <3>2
    <3> QED BY <3>3, UnderIs
  <2> QED BY <2>2, <2>3
<1>12. ASSUME NEW p, NEW c, NEW y, IsPath(y), p = to \o y, HasAt(es, from \o y, c)
       PROVE  HasAt(ds, p, c)
  BY <1>10, <1>12
<1>13. ASSUME NEW p, NEW c
       PROVE  HasAt(ds, p, c) <=>
                (HasAt(es, p, c) /\ ~IsPrefix(from, p)) \/ WasAt(es, from, to, p, c)
  BY <1>8, <1>9, <1>12 DEF WasAt
<1>14. AllRooted(ds)
  BY <1>11 DEF AllRooted
<1> QED BY <1>13, <1>14

-----------------------------------------------------------------------------
(* What the calls of an action leave for it to do *)

\* Folders of a path are as missing for an action when one of them has been made.
LEMMA MadeFolders ==
  ASSUME NEW tree, IsPairs(tree), NEW to, NEW make, make \in Ancestors(to),
         make \notin PathsOf(tree), NEW new, IsPairs(new),
         \A p, c : <<p, c>> \in new <=> <<p, c>> \in tree \/ (p = make /\ c = Folder)
  PROVE  WithFolders(new, to) = WithFolders(tree, to)
<1>1. \A p : p \in PathsOf(new) <=> p \in PathsOf(tree) \/ p = make
  BY PairHasPath
<1>2. ASSUME NEW p, NEW c
      PROVE  <<p, c>> \in WithFolders(new, to) <=> <<p, c>> \in WithFolders(tree, to)
  <2>1. <<p, c>> \in WithFolders(new, to) <=>
          <<p, c>> \in new \/ (p \in Ancestors(to) /\ p \notin PathsOf(new) /\ c = Folder)
    BY WithFoldersIs
  <2>2. <<p, c>> \in WithFolders(tree, to) <=>
          <<p, c>> \in tree \/ (p \in Ancestors(to) /\ p \notin PathsOf(tree) /\ c = Folder)
    BY WithFoldersIs
  <2> QED BY <1>1, <2>1, <2>2
<1>3. IsPairs(WithFolders(new, to)) /\ IsPairs(WithFolders(tree, to))
  BY WithFoldersIs
<1> QED BY <1>2, <1>3, SamePairs

\* An action has the same effect when one of the folders it needs has been made.
LEMMA MadeForAction ==
  ASSUME NEW tree, IsNamed(tree), NEW now, NEW act, act.kind \in ActionKinds, ~Deletes(act),
         IsPath(act.from), NEW to, to = act.to, to \in DOMAIN now, to \notin PathsOf(tree),
         NEW make, IsPath(make), make \notin PathsOf(tree), NEW new, IsNamed(new),
         \A p, c : <<p, c>> \in new <=> <<p, c>> \in tree \/ (p = make /\ c = Folder),
         Moves(act) => make # act.from,
         \/ make \in Ancestors(to) /\ make # to /\ (Moves(act) => ~IsPrefix(act.from, make))
         \/ /\ make = to /\ now[to] = Folder /\ Ancestors(to) \subseteq PathsOf(tree)
            /\ Moves(act) => act.from \notin PathsOf(tree)
  PROVE  Performed(new, now, act) = Performed(tree, now, act)
<1>1. /\ IsPairs(tree) /\ \A x \in tree : IsPath(x[1])
      /\ IsPairs(new) /\ \A x \in new : IsPath(x[1])
  BY DEF IsNamed
<1>2. \A p : p \in PathsOf(new) <=> p \in PathsOf(tree) \/ p = make
  BY <1>1, PairHasPath
<1>3. Brought(new, now, to) = Brought(tree, now, to)
  <2>1. PICK one : one = {<<to, now[to]>>}
    OBVIOUS
  <2>2. Brought(tree, now, to) = Over(WithFolders(tree, to), one)
    BY <1>1, <2>1, BroughtIs
  <2>3. CASE make \in Ancestors(to) /\ make # to
    <3>1. Brought(new, now, to) = Over(WithFolders(new, to), one)
      BY <1>1, <1>2, <2>1, <2>3, BroughtIs
    <3>2. WithFolders(new, to) = WithFolders(tree, to)
      BY <1>1, <2>3, MadeFolders
    <3> QED BY <2>2, <3>1, <3>2
  <2>4. CASE make = to /\ now[to] = Folder /\ Ancestors(to) \subseteq PathsOf(tree)
    <3>1. Brought(new, now, to) = new
      BY <1>1, <1>2, <2>4, BroughtIs
    <3>2. WithFolders(tree, to) = tree
      BY <1>1, <2>4, WithFoldersIs
    <3>3. /\ IsPairs(one) /\ PathsOf(one) = {to}
          /\ \A p, c : <<p, c>> \in one <=> p = to /\ c = now[to]
      BY <2>1, OneIs
    <3>4. IsPairs(Over(tree, one)) /\ \A p, c : <<p, c>> \in Over(tree, one) <=>
                        <<p, c>> \in one \/ (<<p, c>> \in tree /\ p \notin PathsOf(one))
      BY <1>1, <3>3, OverIs
    <3>5. ASSUME NEW p, NEW c PROVE <<p, c>> \in Over(tree, one) <=> <<p, c>> \in new
      <4>1. <<p, c>> \in tree => p # to
        BY <1>1, PairHasPath
      <4> QED BY <2>4, <3>3, <3>4, <4>1
    <3>6. Over(tree, one) = new
      BY <1>1, <3>4, <3>5, SamePairs
    <3> QED BY <2>2, <3>1, <3>2, <3>6
  <2> QED BY <2>3, <2>4
<1>4. CASE Moves(act) /\ act.from \in PathsOf(tree)
  <2>1. make \in Ancestors(to) /\ ~IsPrefix(act.from, make)
    BY <1>4
  <2>2. PICK from, a, b : from = act.from /\ a = Gone(tree, from) /\ b = Gone(new, from)
    OBVIOUS
  <2>3. /\ IsPairs(a) /\ \A p, c : <<p, c>> \in a <=> <<p, c>> \in tree /\ ~IsPrefix(from, p)
        /\ IsPairs(b) /\ \A p, c : <<p, c>> \in b <=> <<p, c>> \in new /\ ~IsPrefix(from, p)
    BY <1>1, <2>2, GoneIs
  <2>12. ~IsPrefix(from, make) /\ IsPath(from)
    BY <2>1, <2>2
  <2>13. ASSUME NEW p, NEW c
         PROVE  <<p, c>> \in b <=> <<p, c>> \in a \/ (p = make /\ c = Folder)
    <3>1. <<p, c>> \in new <=> <<p, c>> \in tree \/ (p = make /\ c = Folder)
      OBVIOUS
    <3>2. p = make => ~IsPrefix(from, p)
      BY <2>12
    <3> QED BY <2>3, <3>1, <3>2
  <2>4. \A p, c : <<p, c>> \in b <=> <<p, c>> \in a \/ (p = make /\ c = Folder)
    BY <2>13, Zenon
  <2>5. make \notin PathsOf(a)
    BY <1>1, <2>3, PairHasPath
  <2>6. WithFolders(b, to) = WithFolders(a, to)
    BY <2>1, <2>3, <2>4, <2>5, MadeFolders
  <2>7. MovedPart(new, from, to) = MovedPart(tree, from, to)
    <3>1. IsPairs(MovedPart(new, from, to)) /\ IsPairs(MovedPart(tree, from, to))
      BY <1>1, <2>12, MovedPartIs
    <3>2. ASSUME NEW p, NEW c
          PROVE  <<p, c>> \in MovedPart(new, from, to) <=> <<p, c>> \in MovedPart(tree, from, to)
      <4>1. <<p, c>> \in MovedPart(new, from, to) <=> CameFrom(new, from, to, p, c)
        BY <1>1, <2>12, MovedPartIs
      <4>2. <<p, c>> \in MovedPart(tree, from, to) <=> CameFrom(tree, from, to, p, c)
        BY <1>1, <2>12, MovedPartIs
      <4>3. ASSUME NEW y, IsPath(y) PROVE <<from \o y, c>> \in new <=> <<from \o y, c>> \in tree
        <5>1. IsPrefix(from, from \o y)
          BY <2>12, <4>3, ConcatIs
        <5>2. from \o y # make
          BY <2>12, <5>1
        <5> QED BY <5>2
      <4> QED BY <4>1, <4>2, <4>3 DEF CameFrom
    <3> QED BY <3>1, <3>2, SamePairs
  <2>8. MovedTo(new, from, to) = MovedTo(tree, from, to)
    BY <2>2, <2>6, <2>7 DEF MovedTo, MovedPart
  <2>9. from \in PathsOf(new)
    BY <1>2, <1>4, <2>2
  <2>10. CASE act.kind \in {"Move", "MoveFolder"}
    BY <1>4, <2>2, <2>8, <2>9, <2>10, PerformedIs
  <2>11. CASE act.kind = "MoveAndUpload"
    BY <1>4, <2>2, <2>8, <2>9, <2>11, PerformedIs
  <2> QED BY <1>4, <2>10, <2>11 DEF Moves
<1>5. CASE ~(Moves(act) /\ act.from \in PathsOf(tree))
  <2>1. act.kind \in {"Upload", "EnsureFolder"} \/ (Moves(act) /\ act.from \notin PathsOf(tree))
    BY <1>5 DEF Moves, Deletes, ActionKinds
  <2>2. act.kind \in {"Upload", "EnsureFolder"} \/ act.from \notin PathsOf(new)
    BY <1>2, <2>1
  <2>3. Performed(tree, now, act) = Brought(tree, now, to)
    BY <2>1, PerformedIs
  <2>4. Performed(new, now, act) = Brought(new, now, to)
    BY <2>2, PerformedIs
  <2> QED BY <1>3, <2>3, <2>4
<1> QED BY <1>4, <1>5

\* A file is at its path, with the content it has in the folder.
LEMMA FileBrought ==
  ASSUME NEW tree, IsPairs(tree), NEW now, NEW to \in DOMAIN now, now[to] # Folder,
         Ancestors(to) \subseteq PathsOf(tree), NEW new, IsPairs(new),
         \A p, c : <<p, c>> \in new <=> (p = to /\ c = now[to]) \/ (p # to /\ <<p, c>> \in tree)
  PROVE  /\ Brought(tree, now, to) = new /\ Brought(new, now, to) = new
         /\ \A p : p \in PathsOf(new) <=> p \in PathsOf(tree) \/ p = to
<1>1. \A p : p \in PathsOf(new) <=> p \in PathsOf(tree) \/ p = to
  BY PairHasPath
<1>2. PICK one : one = {<<to, now[to]>>}
  OBVIOUS
<1>3. /\ IsPairs(one) /\ PathsOf(one) = {to}
      /\ \A p, c : <<p, c>> \in one <=> p = to /\ c = now[to]
  BY <1>2, OneIs
<1>4. ASSUME NEW u, IsPairs(u), Ancestors(to) \subseteq PathsOf(u),
             \A p, c : p # to => (<<p, c>> \in u <=> <<p, c>> \in tree)
      PROVE  Brought(u, now, to) = new
  <2>1. Brought(u, now, to) = Over(WithFolders(u, to), one)
    BY <1>2, <1>4, BroughtIs
  <2>2. WithFolders(u, to) = u
    BY <1>4, WithFoldersIs
  <2>3. IsPairs(Over(u, one)) /\ \A p, c : <<p, c>> \in Over(u, one) <=>
                      <<p, c>> \in one \/ (<<p, c>> \in u /\ p \notin PathsOf(one))
    BY <1>3, <1>4, OverIs
  <2>4. ASSUME NEW p, NEW c PROVE <<p, c>> \in Over(u, one) <=> <<p, c>> \in new
    <3>1. CASE p = to
      BY <1>3, <2>3, <3>1
    <3>2. CASE p # to
      BY <1>3, <1>4, <2>3, <3>2
    <3> QED BY <3>1, <3>2
  <2>5. Over(u, one) = new
    BY <2>3, <2>4, SamePairs
  <2> QED BY <2>1, <2>2, <2>5
<1>5. Brought(tree, now, to) = new
  BY <1>4
<1>6. Brought(new, now, to) = new
  <2>1. Ancestors(to) \subseteq PathsOf(new)
    BY <1>1
  <2> QED BY <1>4, <2>1
<1> QED BY <1>1, <1>5, <1>6

\* Everything is where it is moved to.
LEMMA TreeMoved ==
  ASSUME NEW tree, IsNamed(tree), NEW from, IsPath(from), NEW to, IsPath(to),
         Ancestors(to) \subseteq PathsOf(Gone(tree, from)), NEW new, IsPairs(new),
         \A p, c : <<p, c>> \in new <=>
           (<<p, c>> \in tree /\ ~IsPrefix(from, p)) \/ CameFrom(tree, from, to, p, c),
         \A p \in PathsOf(tree) : ~IsPrefix(to, p)
  PROVE  MovedTo(tree, from, to) = new
<1>1. IsPairs(tree) /\ \A x \in tree : IsPath(x[1])
  BY DEF IsNamed
<1>2. PICK a, m : a = Gone(tree, from) /\ m = MovedPart(tree, from, to)
  OBVIOUS
<1>3. /\ IsPairs(a) /\ \A p, c : <<p, c>> \in a <=> <<p, c>> \in tree /\ ~IsPrefix(from, p)
      /\ IsPairs(m) /\ \A p, c : <<p, c>> \in m <=> CameFrom(tree, from, to, p, c)
  <2>1. /\ IsPairs(a) /\ \A p, c : <<p, c>> \in a <=> <<p, c>> \in tree /\ ~IsPrefix(from, p)
    BY <1>1, <1>2, GoneIs
  <2>2. /\ IsPairs(m) /\ \A p, c : <<p, c>> \in m <=> CameFrom(tree, from, to, p, c)
    BY <1>1, <1>2, MovedPartIs
  <2> QED BY <2>1, <2>2
<1>4. MovedTo(tree, from, to) = Over(a, m)
  <2>1. WithFolders(a, to) = a
    BY <1>2, <1>3, WithFoldersIs
  <2> QED BY <1>1, <1>2, <2>1, MovedToIs
<1>5. IsPairs(Over(a, m)) /\ \A p, c : <<p, c>> \in Over(a, m) <=>
                    <<p, c>> \in m \/ (<<p, c>> \in a /\ p \notin PathsOf(m))
  BY <1>3, OverIs
<1>6. ASSUME NEW p, NEW c, <<p, c>> \in a PROVE p \notin PathsOf(m)
  <2> SUFFICES ASSUME p \in PathsOf(m) PROVE FALSE
    OBVIOUS
  <2>1. PICK d : <<p, d>> \in m
    BY <1>3, PairHasPath
  <2>2. PICK y : IsPath(y) /\ p = to \o y
    BY <1>3, <2>1 DEF CameFrom
  <2>3. IsPrefix(to, p)
    BY <2>2, ConcatIs
  <2>4. p \in PathsOf(tree)
    BY <1>1, <1>3, <1>6, PairHasPath
  <2> QED BY <2>3, <2>4
<1>7. ASSUME NEW p, NEW c PROVE <<p, c>> \in Over(a, m) <=> <<p, c>> \in new
  <2>1. <<p, c>> \in Over(a, m) <=> <<p, c>> \in m \/ <<p, c>> \in a
    BY <1>5, <1>6
  <2> QED BY <1>3, <2>1
<1> QED BY <1>4, <1>5, <1>7, SamePairs

-----------------------------------------------------------------------------
(* The tree of Drive and the index *)

\* What is above a path is a prefix of it.
LEMMA AncestorIsPrefix ==
  ASSUME NEW path \in Seq(STRING), NEW p \in Ancestors(path)
  PROVE  /\ p \in Seq(STRING) /\ p # << >> /\ Len(p) < Len(path) /\ p # path
         /\ IsPrefix(p, path) /\ (path # << >> => IsPrefix(p, Front(path)))
<1>1. PICK m \in Nat : m = Len(path)
  OBVIOUS
<1>2. PICK n \in 1..m - 1 : p = SubSeq(path, 1, n)
  BY <1>1 DEF Ancestors
<1>3. n \in Nat /\ 1 <= n /\ n < m
  BY <1>1, <1>2
<1>4. \A i \in 1..n : path[i] \in STRING
  BY <1>1, <1>3, ElementOfSeq
<1>5. p \in Seq(STRING) /\ Len(p) = n /\ \A i \in 1..n : p[i] = path[i]
  <2>1. /\ p \in Seq(STRING) /\ Len(p) = IF 1 <= n THEN n - 1 + 1 ELSE 0
        /\ \A i \in 1..n - 1 + 1 : p[i] = path[1 + i - 1]
    BY <1>2, <1>3, <1>4, SubSeqProperties
  <2>2. \A i \in 1..n : i \in 1..n - 1 + 1 /\ 1 + i - 1 = i
    OBVIOUS
  <2> QED BY <1>3, <2>1, <2>2
<1>6. p # << >> /\ p # path
  BY <1>1, <1>3, <1>5
<1>7. IsPrefix(p, path)
  <2>1. Len(p) <= Len(path) /\ \A i \in 1..Len(p) : p[i] = path[i]
    BY <1>1, <1>3, <1>5
  <2> QED BY <1>5, <2>1, PrefixIs
<1>8. ASSUME path # << >> PROVE IsPrefix(p, Front(path))
  <2>1. PICK q, e : q = Front(path) /\ e = Last(path)
    OBVIOUS
  <2>2. q \in Seq(STRING) /\ path = Append(q, e)
    BY <1>8, <2>1, FrontAndLast
  <2>3. IsPath(p) /\ IsPath(q)
    BY <1>5, <2>2 DEF IsPath
  <2>4. IsPrefix(p, Append(q, e)) /\ p # Append(q, e)
    BY <1>6, <1>7, <2>2
  <2> QED BY <2>1, <2>3, <2>4, PrefixesOf
<1> QED BY <1>1, <1>3, <1>5, <1>6, <1>7, <1>8

\* What is on Drive is what the index knows.
LEMMA PathsOnDrive ==
  ASSUME IsSound(Now, made), Covers(drive, entries)
  PROVE  /\ \A p : p \in PathsOf(TreeOn(drive)) <=> p # << >> /\ Known(Now, p)
         /\ \A p \in PathsOf(TreeOn(drive)) : IsPath(p)
         /\ \A path \in Seq(STRING) : path # << >> /\ Known(Now, Front(path)) =>
              Ancestors(path) \subseteq PathsOf(TreeOn(drive))
         /\ \A p, q : IsPath(p) /\ IsPrefix(p, q) /\ p # << >> /\ q \in PathsOf(TreeOn(drive)) =>
              p \in PathsOf(TreeOn(drive))
<1>1. PICK ds : ds = drive
  OBVIOUS
<1>2. Reached(ds, Root) = Reached(entries, Root) /\ Now.entries = entries
      /\ Leads(Now) /\ Complete(Now)
  BY <1>1, CoversReached DEF Now, IsSound
<1>3. ASSUME NEW p PROVE p \in PathsOf(TreeOn(ds)) <=> p # << >> /\ Known(Now, p)
  <2>1. p \in PathsOf(TreeOn(ds)) <=> p # << >> /\ \E o : <<p, o>> \in Reached(ds, Root)
    BY TreeOnIs
  <2>2. ASSUME NEW o, <<p, o>> \in Reached(ds, Root) PROVE Known(Now, p)
    BY <1>2, <2>2 DEF Complete
  <2>3. ASSUME Known(Now, p) PROVE \E o : <<p, o>> \in Reached(ds, Root)
    BY <1>2, <2>3, KnownLeads
  <2> QED BY <2>1, <2>2, <2>3
<1>4. ASSUME NEW p \in PathsOf(TreeOn(ds)) PROVE IsPath(p)
  <2>1. PICK o : <<p, o>> \in Reached(ds, Root)
    BY <1>4, TreeOnIs
  <2> QED BY <2>1, ReachedSteps
<1>5. ASSUME NEW path \in Seq(STRING), path # << >>, Known(Now, Front(path)), NEW p \in Ancestors(path)
      PROVE  p \in PathsOf(TreeOn(ds))
  <2>1. IsPath(p) /\ p # << >> /\ IsPrefix(p, Front(path))
    BY <1>5, AncestorIsPrefix DEF IsPath
  <2>2. Known(Now, p)
    BY <1>5, <2>1, KnownAbove
  <2> QED BY <1>3, <2>1, <2>2
<1>6. ASSUME NEW p, NEW q, IsPath(p), IsPrefix(p, q), p # << >>, q \in PathsOf(TreeOn(ds))
      PROVE  p \in PathsOf(TreeOn(ds))
  BY <1>3, <1>6, KnownAbove
<1> QED BY <1>1, <1>3, <1>4, <1>5, <1>6

-----------------------------------------------------------------------------
(* What a task makes of the tree *)

\* A task creates a file only, and the new name of what is moved is not created.
Aware(t) ==
  /\ t.goal = "fileParent" => IsFile(t.act.to)
  /\ t.goal = "newParent" => t.make # t.act.to

Uploading(t) == t.goal \in {"file", "fileParent"}

\* A task that has found its path.
LEMMA FoundAware ==
  ASSUME NEW t, IsTask(t), Aware(t), t.act.to # << >>, NEW id, NEW r, r = Found(t, id)
  PROVE  /\ r.act = t.act /\ r.token = t.token
         /\ \/ /\ r.do = "end" /\ t.make = << >>
               /\ t.goal = "folder" \/ (t.goal = "file" /\ ~IsFile(t.act.to))
            \/ /\ r.do \notin {"end", "forget"} /\ Aware(r)
               /\ Uploading(r) => Uploading(t)
<1>1. PICK s : s = [t EXCEPT !.at = id]
  OBVIOUS
<1>2. /\ IsTask(s) /\ s.act = t.act /\ s.make = t.make /\ s.goal = t.goal /\ s.token = t.token
  BY <1>1 DEF IsTask
<1>3. ASSUME NEW d, r = [s EXCEPT !.do = d]
      PROVE  /\ r.do = d /\ r.act = t.act /\ r.token = t.token
             /\ Aware(r) /\ (Uploading(r) => Uploading(t))
  <2>1. /\ r.do = d /\ r.act = t.act /\ r.token = t.token /\ r.goal = t.goal
        /\ r.make = t.make
    BY <1>2, <1>3 DEF IsTask
  <2> QED BY <2>1 DEF Aware, Uploading
<1>4. t.goal \in Goals
  BY TaskPaths
<1>5. CASE t.make # << >>
  <2>1. r = [s EXCEPT !.do = "make"]
    BY <1>1, <1>5 DEF Found
  <2> QED BY <1>3, <2>1
<1>6. CASE t.make = << >>
  <2>1. CASE t.goal = "source" /\ Deletes(t.act)
    <3>1. r = [s EXCEPT !.do = "delete"]
      BY <1>1, <1>6, <2>1 DEF Found
    <3> QED BY <1>3, <2>1, <3>1
  <2>2. CASE t.goal = "source" /\ ~Deletes(t.act)
    <3>1. PICK q : q = [s EXCEPT !.source = id]
      OBVIOUS
    <3>2. r = Resolve(q, "oldParent") /\ IsTask(q) /\ q.act = t.act /\ q.token = t.token
      BY <1>1, <1>2, <1>6, <2>2, <3>1 DEF Found, IsTask
    <3>3. r.act = t.act /\ r.token = t.token /\ r.goal = "oldParent" /\ r.do = "look"
      BY <3>2, ResolveIs
    <3> QED BY <3>3 DEF Aware, Uploading
  <2>3. CASE t.goal = "oldParent"
    <3>1. PICK q : q = [s EXCEPT !.old = id]
      OBVIOUS
    <3>2. r = Resolve(q, "newParent") /\ IsTask(q) /\ q.act = t.act /\ q.token = t.token
      BY <1>1, <1>2, <1>6, <2>3, <3>1 DEF Found, IsTask
    <3>3. /\ r.act = t.act /\ r.token = t.token /\ r.goal = "newParent" /\ r.do = "look"
          /\ r.make = << >>
      BY <3>2, ResolveIs
    <3> QED BY <3>3 DEF Aware, Uploading
  <2>4. CASE t.goal = "newParent"
    <3>1. r = [s EXCEPT !.do = "move"]
      BY <1>1, <1>6, <2>4 DEF Found
    <3> QED BY <1>3, <2>4, <3>1
  <2>5. CASE t.goal = "file" /\ ~IsFile(t.act.to)
    <3>1. r = Ended(s)
      BY <1>1, <1>2, <1>6, <2>5 DEF Found, Read
    <3>2. r = [s EXCEPT !.do = "end"]
      BY <3>1 DEF Ended
    <3> QED BY <1>3, <1>6, <2>5, <3>2
  <2>6. CASE t.goal = "file" /\ IsFile(t.act.to)
    <3>1. r = [s EXCEPT !.do = "update"]
      BY <1>1, <1>2, <1>6, <2>6 DEF Found, Read
    <3> QED BY <1>3, <2>6, <3>1
  <2>7. CASE t.goal = "fileParent"
    <3>1. r = [s EXCEPT !.do = "create"]
      BY <1>1, <1>2, <1>6, <2>7 DEF Found, Read, Aware
    <3> QED BY <1>3, <2>7, <3>1
  <2>8. CASE t.goal = "folder"
    <3>1. r = [s EXCEPT !.do = "end"]
      BY <1>1, <1>6, <2>8 DEF Found, Ended
    <3> QED BY <1>3, <1>6, <2>8, <3>1
  <2> QED BY <1>4, <2>1, <2>2, <2>3, <2>4, <2>5, <2>6, <2>7, <2>8 DEF Goals
<1> QED BY <1>5, <1>6

\* A task that has not found its path: nobody asks for a file that is a folder.
LEMMA MissingAware ==
  ASSUME PlainWindows, Sane, NEW i \in DOMAIN tasks, NEW t, t = tasks[i], Aware(t),
         t.do = "walk", NEW path, path = SubSeq(Target(t), 1, t.n)
  PROVE  /\ Missing(t, path).act = t.act /\ Missing(t, path).do # "end"
         /\ Aware(Missing(t, path))
<1> PICK r : r = Missing(t, path)
  OBVIOUS
<1>1. /\ IsTask(t) /\ ParentIsKnown(Keys(Now), t) /\ t.act \in Acts /\ Suits(t) /\ TypeOK
  BY AtHand DEF Sane, Safe
<1>2. r.do # "end" /\ r.act = t.act
  BY <1>1, MissingGoesOn, MissingSuits DEF Sane, Follows
<1>3. /\ t.make = << >> /\ path # << >> /\ path \in Seq(STRING) /\ Target(t) \in Seq(STRING)
      /\ path = Target(t) <=> t.n = Len(Target(t))
      /\ t.n \in 1..Len(Target(t)) /\ Len(Target(t)) \in 0..3
  BY <1>1, WalkIs
<1>4. CASE Creating(t) /\ (path # Target(t) \/ IsDir(Target(t)))
  <2>1. r = [t EXCEPT !.make = path, !.do = "look"]
    BY <1>4 DEF Missing
  <2>2. r.goal = t.goal /\ r.make = path
    BY <1>1, <2>1 DEF IsTask
  <2>3. t.goal # "fileParent"
    BY <1>4 DEF Creating
  <2>4. ASSUME t.goal = "newParent" PROVE path # t.act.to
    <3>1. Target(t) = Front(t.act.to)
      BY <1>3, <2>4 DEF Target
    <3>2. Len(t.act.to) \in Nat \ {0} /\ Len(Front(t.act.to)) = Len(t.act.to) - 1
      BY <1>1, PlainPaths
    <3>7. PICK m : m = Target(t)
      OBVIOUS
    <3>3. PICK l \in Nat : m = Target(t) /\ l = Len(m) /\ t.n \in 1..l
      BY <1>3, <3>7
    <3>4. Len(path) <= l /\ Len(path) \in Nat
      <4>1. \A j \in 1..t.n : m[j] \in STRING
        BY <1>3, <3>3, ElementOfSeq
      <4>2. t.n \in Nat /\ 1 <= t.n /\ t.n <= l
        BY <3>3
      <4>3. Len(SubSeq(m, 1, t.n)) = IF 1 <= t.n THEN t.n - 1 + 1 ELSE 0
        BY <4>1, <4>2, SubSeqProperties
      <4> QED BY <3>3, <4>2, <4>3
    <3>5. Len(t.act.to) = l + 1
      BY <3>1, <3>2, <3>3
    <3>6. Len(path) # Len(t.act.to)
      <4>1. PICK k \in Nat : k = Len(path) /\ k <= l
        BY <3>4
      <4>2. k # l + 1
        BY <3>3, <4>1
      <4> QED BY <3>5, <4>1, <4>2
    <3> QED BY <3>6
  <2> QED BY <1>1, <1>2, <2>2, <2>3, <2>4 DEF Aware
<1>5. CASE ~(Creating(t) /\ (path # Target(t) \/ IsDir(Target(t))))
  <2>1. CASE t.goal = "file"
    <3>1. r = Resolve(t, "fileParent")
      BY <1>3, <1>5, <2>1 DEF Missing
    <3>2. Target(t) = t.act.to /\ Creating(t)
      BY <1>3, <2>1 DEF Target, Creating
    <3>3. ~IsDir(t.act.to)
      BY <1>5, <3>2
    <3>4. ~Deletes(t.act)
      BY <1>1, <2>1 DEF Suits, Deletes, Moves
    <3>5. IsFile(t.act.to)
      BY <1>1, <3>3, <3>4, PlainAct DEF IsDir, IsFile
    <3>6. r.goal = "fileParent"
      BY <1>1, <3>1, ResolveIs
    <3> QED BY <1>2, <3>5, <3>6 DEF Aware
  <2>2. CASE t.goal = "source" /\ Deletes(t.act)
    <3>1. r = [t EXCEPT !.do = "forget"]
      BY <1>3, <1>5, <2>2 DEF Missing, MissingSource
    <3>2. r.goal = t.goal
      BY <1>1, <3>1 DEF IsTask
    <3> QED BY <1>2, <2>2, <3>2 DEF Aware
  <2>3. CASE t.goal = "source" /\ ~Deletes(t.act)
    <3>1. r = Resolve(t, "file")
      BY <1>3, <1>5, <2>3 DEF Missing, MissingSource
    <3>2. r.goal = "file"
      BY <1>1, <3>1, ResolveIs
    <3> QED BY <1>2, <3>2 DEF Aware
  <2>4. CASE t.goal \notin {"file", "source"}
    <3>1. r = Ended(t)
      BY <1>5, <2>4 DEF Missing
    <3> QED BY <1>1, <1>2, <3>1, EndedIs
  <2> QED BY <2>1, <2>2, <2>3, <2>4
<1> QED BY <1>4, <1>5

\* A step of a task leaves it as much to do as there was, or it has done it.
StepsOn(i) ==
  \E r :
    /\ Goes(i, r) /\ r.act = tasks[i].act /\ r.token = tasks[i].token
    /\ AllRooted(drive')
    /\ r.do = "end" => TreeOn(drive') = Performed(TreeOn(drive), Local, r.act)
    /\ r.do # "end" =>
         /\ Aware(r) /\ PathsOf(TreeOn(drive')) \subseteq Paths
         /\ Performed(TreeOn(drive'), Local, r.act) = Performed(TreeOn(drive), Local, r.act)

Steady == AllRooted(drive) /\ PathsOf(TreeOn(drive)) \subseteq Paths

\* A folder that is brought where it is, changes nothing.
LEMMA FolderIsThere ==
  ASSUME NEW tree, NEW now, NEW act, act.kind \in ActionKinds, ~Deletes(act),
         act.kind \in {"Upload", "EnsureFolder"} \/ act.from \notin PathsOf(tree),
         act.to \in DOMAIN now => now[act.to] = Folder, act.to \in PathsOf(tree)
  PROVE  Performed(tree, now, act) = tree
<1>1. Performed(tree, now, act) = Brought(tree, now, act.to)
  BY PerformedIs
<1>2. PICK to : to = act.to
  OBVIOUS
<1>3. Brought(tree, now, to) = tree
  BY <1>2 DEF Brought
<1> QED BY <1>1, <1>2, <1>3

\* When a task ends that has found its path, what it is for is there already.
LEMMA FoundEnds ==
  ASSUME PlainWindows, Sane, NEW i \in DOMAIN tasks, NEW t, t = tasks[i], t.do # "forget",
         Known(Now, Target(t)), t.make = << >>,
         t.goal = "folder" \/ (t.goal = "file" /\ ~IsFile(t.act.to))
  PROVE  /\ Performed(TreeOn(drive), Local, t.act) = TreeOn(drive)
         /\ t.act.to \in PathsOf(TreeOn(drive))
         /\ t.goal = "folder" => t.act.kind = "EnsureFolder"
<1>1. /\ IsTask(t) /\ t.act \in Acts /\ Suits(t) /\ TypeOK /\ IsSound(Now, made)
      /\ Covers(drive, entries) /\ Sourced(Now, t)
  BY AtHand DEF Sane, Safe
<1>2. /\ t.act.to # << >> /\ t.act.kind \in ActionKinds /\ ~Deletes(t.act)
  <2>1. t.act \in SyncActions /\ t.act.to # << >>
    BY <1>1, PlainAct, PlainPaths
  <2> QED BY <1>1, <2>1 DEF Suits, Deletes, Moves, SyncActions
<1>3. Target(t) = t.act.to
  BY DEF Target
<1>4. t.act.to \in PathsOf(TreeOn(drive))
  BY <1>1, <1>2, <1>3, PathsOnDrive
<1>5. t.act.to \in DOMAIN Local => Local[t.act.to] = Folder
  <2>1. CASE t.goal = "folder"
    BY <1>1, <2>1, PlainAct DEF Suits
  <2>2. CASE ~IsFile(t.act.to)
    BY <2>2 DEF IsFile
  <2> QED BY <2>1, <2>2
<1>6. t.act.kind \in {"Upload", "EnsureFolder"} \/ t.act.from \notin PathsOf(TreeOn(drive))
  <2>1. CASE t.goal = "folder"
    BY <1>1, <2>1 DEF Suits
  <2>2. CASE t.goal = "file"
    <3>1. t.act.kind = "Upload" \/ ~Known(Now, t.act.from)
      BY <1>1, <2>2 DEF Suits, Sourced
    <3> QED BY <1>1, <3>1, PathsOnDrive
  <2> QED BY <2>1, <2>2
<1>7. t.goal = "folder" => t.act.kind = "EnsureFolder"
  BY <1>1 DEF Suits
<1> QED BY <1>2, <1>4, <1>5, <1>6, <1>7, FolderIsThere

\* What a task does when it looks its path up, or passes by a name.
Looks(i, r) ==
  /\ Goes(i, r) /\ r.act = tasks[i].act /\ r.token = tasks[i].token
  /\ r.do = "end" => /\ tasks[i].goal = "folder" \/ (tasks[i].goal = "file" /\ ~IsFile(r.act.to))
                     /\ Performed(TreeOn(drive), Local, r.act) = TreeOn(drive)
                     /\ r.act.to \in PathsOf(TreeOn(drive))
  /\ r.do # "end" => Aware(r) /\ r.do # "forget" /\ (Uploading(r) => Uploading(tasks[i]))

\* A lookup, or a name that is passed by, leaves Drive as it is.
LEMMA LookLooks ==
  ASSUME PlainWindows, Sane, NEW i \in DOMAIN tasks, Aware(tasks[i]), Look(i) \/ PassBy(i)
  PROVE  (\E r : Looks(i, r)) /\ UNCHANGED drive
<1>1. PICK t : t = tasks[i]
  OBVIOUS
<1>2. /\ IsTask(t) /\ t.act \in Acts /\ TypeOK /\ UNCHANGED drive /\ Aware(t)
  BY <1>1, AtHand DEF Sane, Safe, Look, PassBy, remote
<1>3. t.act.to # << >>
  BY <1>2, PlainPaths
<1>4. ASSUME NEW r, Goes(i, r), r.act = t.act, r.token = t.token, r.goal = t.goal,
             r.make = t.make, r.do = "walk"
      PROVE  Looks(i, r)
  BY <1>1, <1>2, <1>4 DEF Looks, Aware, Uploading
<1>5. CASE Look(i) /\ Known(Now, Target(t))
  <2>1. PICK id, r : id = IdOf(Now, Target(t)) /\ r = Found(t, id)
    OBVIOUS
  <2>2. Goes(i, r) /\ t.do = "look"
    BY <1>1, <1>5, <2>1 DEF Look
  <2>3. /\ r.act = t.act /\ r.token = t.token
        /\ \/ /\ r.do = "end" /\ t.make = << >>
              /\ t.goal = "folder" \/ (t.goal = "file" /\ ~IsFile(t.act.to))
           \/ /\ r.do \notin {"end", "forget"} /\ Aware(r)
              /\ Uploading(r) => Uploading(t)
    BY <1>2, <1>3, <2>1, FoundAware
  <2>4. r.do = "end" => /\ Performed(TreeOn(drive), Local, t.act) = TreeOn(drive)
                        /\ t.act.to \in PathsOf(TreeOn(drive))
    BY <1>1, <1>5, <2>2, <2>3, FoundEnds
  <2>5. Looks(i, r)
    BY <1>1, <2>2, <2>3, <2>4 DEF Looks
  <2> QED BY <1>2, <2>5
<1>6. CASE Look(i) /\ ~Known(Now, Target(t))
  <2>1. PICK r : r = [t EXCEPT !.do = "walk", !.n = 1, !.at = Root]
    OBVIOUS
  <2>2. Goes(i, r)
    BY <1>1, <1>6, <2>1 DEF Look
  <2>3. r.act = t.act /\ r.token = t.token /\ r.goal = t.goal /\ r.make = t.make /\ r.do = "walk"
    BY <1>2, <2>1 DEF IsTask
  <2> QED BY <1>2, <1>4, <2>2, <2>3
<1>7. CASE PassBy(i)
  <2>1. PICK r : r = [t EXCEPT !.at = IdOf(Now, SubSeq(Target(t), 1, t.n)), !.n = @ + 1]
    OBVIOUS
  <2>2. Goes(i, r) /\ t.do = "walk"
    BY <1>1, <1>7, <2>1 DEF PassBy, PassesBy
  <2>3. r.act = t.act /\ r.token = t.token /\ r.goal = t.goal /\ r.make = t.make /\ r.do = "walk"
    BY <1>2, <2>1, <2>2 DEF IsTask
  <2> QED BY <1>2, <1>4, <2>2, <2>3
<1> QED BY <1>5, <1>6, <1>7

\* A lookup leaves as much to do as there was, or finds that nothing is.
LEMMA LookStepsOn ==
  ASSUME PlainWindows, Sane, Steady, NEW i \in DOMAIN tasks, Aware(tasks[i]), Look(i) \/ PassBy(i)
  PROVE  StepsOn(i)
<1>1. PICK r : Looks(i, r)
  BY LookLooks
<1>2. drive' = drive
  BY LookLooks
<1> QED BY <1>1, <1>2 DEF StepsOn, Looks, Steady

\* A search on Drive leaves as much to do as there was, or finds that nothing is.
LEMMA FindStepsOn ==
  ASSUME PlainWindows, Sane, Steady, NEW i \in DOMAIN tasks, Aware(tasks[i]), Find(i)
  PROVE  StepsOn(i)
<1>1. PICK t, path, r : t = tasks[i] /\ path = SubSeq(Target(t), 1, t.n) /\ r = Missing(t, path)
  OBVIOUS
<1>2. IsTask(t) /\ t.do = "walk" /\ ~PassesBy(t) /\ drive' = drive /\ Aware(t)
  BY <1>1, AtHand DEF Find, remote
<1>3. Hits(t, Last(path)) = {}
  BY <1>1, <1>2, NoHit DEF Sane
<1>4. Goes(i, r)
  BY <1>1, <1>3 DEF Find
<1>5. r.act = t.act /\ r.do # "end" /\ Aware(r)
  BY <1>1, <1>2, MissingAware
<1>6. r.token = t.token
  BY <1>1, <1>2, ResolveIs DEF IsTask, Missing, MissingSource, Ended
<1> QED BY <1>1, <1>2, <1>4, <1>5, <1>6 DEF StepsOn, Steady

\* Something new is on Drive, where it was put.
LEMMA NewTree ==
  ASSUME IsSound(Now, made), Covers(drive, entries), AllRooted(drive),
         NEW path \in Seq(STRING), path # << >>, Len(path) <= 3, Known(Now, Front(path)),
         NEW at, at = IdOf(Now, Front(path)), NEW content,
         drive' = With(drive, NewId, Object(at, Last(path), content))
  PROVE  /\ \A p, c : <<p, c>> \in TreeOn(drive') <=>
                        <<p, c>> \in TreeOn(drive) \/ (p = path /\ c = content)
         /\ AllRooted(drive')
<1>1. PICK ds, es, e, id, name, top :
        /\ ds = drive /\ es = drive' /\ e = Object(at, name, content) /\ id = NewId
        /\ name = Last(path) /\ top = Front(path)
  OBVIOUS
<1>2. /\ made \in Nat /\ DOMAIN ds \subseteq 1..made /\ \A o \in DOMAIN ds : ds[o].parent \in 0..made
  BY <1>1 DEF IsSound, HasIds, Now, Covers
<1>3. id = made + 1
  BY <1>1 DEF NewId
<1>4. Root \notin DOMAIN ds /\ id # Root /\ id \notin DOMAIN ds /\ \A o \in DOMAIN ds : ds[o].parent # id
  BY <1>2, <1>3 DEF Root
<1>5. /\ DOMAIN es = DOMAIN ds \union {id} /\ es[id] = e /\ \A o \in DOMAIN ds : o # id => es[o] = ds[o]
  BY <1>1 DEF With
<1>6. e.parent = at /\ e.name = name /\ e.content = content
  BY <1>1 DEF Object
<1>7. Adds(ds, es, id, at, name, content)
  BY <1>4, <1>5, <1>6 DEF Adds
<1>8. path = Append(top, name) /\ top \in Seq(STRING) /\ Len(top) <= 2
  BY <1>1, FrontAndLast
<1>9. <<top, at>> \in Reached(ds, Root)
  <2>1. <<top, at>> \in Reached(entries, Root)
    BY <1>1, KnownLeads DEF IsSound, Now
  <2> QED BY <1>1, <2>1, CoversReached
<1>10. IsPath(top)
  BY <1>8 DEF IsPath
<1>11. /\ \A p, c : HasAt(es, p, c) <=> HasAt(ds, p, c) \/ (p = path /\ c = content)
       /\ AllRooted(ds) => AllRooted(es)
  BY <1>7, <1>8, <1>9, <1>10, TreeAfterNew
<1>12. ASSUME NEW p, NEW c
       PROVE  <<p, c>> \in TreeOn(es) <=> <<p, c>> \in TreeOn(ds) \/ (p = path /\ c = content)
  BY <1>11, TreeOnIs
<1>13. AllRooted(es)
  BY <1>1, <1>11
<1> QED BY <1>1, <1>12, <1>13

\* A folder that is created is one that the action would have made.
LEMMA MakeStepsOn ==
  ASSUME PlainWindows, Sane, Steady, ~panicked', NEW i \in DOMAIN tasks, Aware(tasks[i]),
         PathsOf(Performed(TreeOn(drive), Local, tasks[i].act)) \subseteq Paths, Make(i)
  PROVE  StepsOn(i)
<1>1. PICK t, to, make, from : /\ t = tasks[i] /\ to = t.act.to /\ make = t.make
                               /\ from = t.act.from
  OBVIOUS
<1>2. /\ IsTask(t) /\ ParentIsKnown(Keys(Now), t) /\ Placed(drive, Now, t) /\ Suits(t)
      /\ MakesFor(Local, t) /\ t.act \in Acts /\ Sourced(Now, t) /\ IsSound(Now, made)
      /\ (t.do # "forget" => Covers(drive, entries)) /\ Safe /\ TypeOK /\ Aware(t)
      /\ Len(t.make) <= 3
  BY <1>1, AtHand DEF Sane, Safe
<1>3. /\ t.do = "make" /\ make # << >> /\ Covers(drive, entries) /\ make \in Seq(STRING)
      /\ ~Known(Now, make) /\ Known(Now, Front(make)) /\ t.at = IdOf(Now, Front(make))
  <2>1. t.do = "make"
    BY <1>1 DEF Make, Succeeds
  <2> QED BY <1>1, <1>2, <2>1, TaskPaths, KnownIsKey DEF ParentIsKnown, Placed, IsNew
<1>4. /\ make \in WayTo(to) /\ (make = to => Local[to] = Folder)
      /\ t.goal \in {"newParent", "file", "folder"}
  BY <1>1, <1>2, <1>3 DEF MakesFor
<1>5. PICK r : r = Resolve(t, t.goal)
  OBVIOUS
<1>6. r.act = t.act /\ r.goal = t.goal /\ r.do = "look" /\ r.make = << >> /\ r.token = t.token
  BY <1>2, <1>5, ResolveIs
<1>7. drive' = MadeOnDrive(t) /\ Goes(i, r)
  BY <1>1, <1>5 DEF Make, Succeeds, Indexed
<1>8. drive' = With(drive, NewId, Object(t.at, Last(make), Folder))
  BY <1>1, <1>7 DEF MadeOnDrive
<1>9. PICK tree, new : tree = TreeOn(drive) /\ new = TreeOn(drive')
  OBVIOUS
<1>10. /\ \A p, c : <<p, c>> \in new <=> <<p, c>> \in tree \/ (p = make /\ c = Folder)
       /\ AllRooted(drive')
  BY <1>1, <1>2, <1>3, <1>8, <1>9, NewTree DEF Steady
<1>11. IsNamed(tree) /\ IsNamed(new)
  BY <1>9, TreeOnIs
<1>12. to \in Seq(STRING) /\ from \in Seq(STRING) /\ to # << >> /\ Len(to) <= 3 /\ IsPath(make)
       /\ IsPath(from) /\ (Moves(t.act) => \A q : IsPath(q) /\ IsPrefix(q, to) => ~IsPrefix(from, q))
  BY <1>1, <1>2, <1>3, PlainPaths DEF IsPath
<1>13. t.act.kind \in ActionKinds /\ ~Deletes(t.act) /\ to \in DOMAIN Local
  <2>1. t.act \in SyncActions
    BY <1>2, PlainAct
  <2>2. ~Deletes(t.act)
    BY <1>2, <1>4 DEF Suits, Deletes, Moves
  <2> QED BY <1>1, <1>2, <2>1, <2>2, PlainAct DEF SyncActions
<1>14. IsPrefix(make, to)
  <2>1. IsPrefix(to, to)
    BY <1>12, PrefixOfLonger DEF IsPath
  <2>2. make \in Ancestors(to) => IsPrefix(make, to)
    BY <1>12, AncestorIsPrefix
  <2> QED BY <1>4, <2>1, <2>2 DEF WayTo
<1>15. make \notin PathsOf(tree) /\ to \notin PathsOf(tree)
  <2>1. make \notin PathsOf(tree)
    BY <1>2, <1>3, <1>9, PathsOnDrive
  <2> QED BY <1>2, <1>3, <1>9, <1>12, <1>14, <2>1, PathsOnDrive
<1>16. Moves(t.act) => make # from
  BY <1>1, <1>2, <1>4, OnTheWay
<1>17. ASSUME make = to PROVE Performed(new, Local, t.act) = Performed(tree, Local, t.act)
  <2>1. Ancestors(to) \subseteq PathsOf(tree)
    BY <1>2, <1>3, <1>9, <1>17, PathsOnDrive
  <2>2. Moves(t.act) => from \notin PathsOf(tree)
    <3>1. t.goal # "newParent"
      BY <1>1, <1>2, <1>17 DEF Aware
    <3>2. t.goal = "folder" => ~Moves(t.act)
      BY <1>2 DEF Suits, Moves
    <3>3. t.goal = "file" /\ Moves(t.act) => ~Known(Now, from)
      BY <1>1, <1>2 DEF Sourced
    <3> QED BY <1>2, <1>3, <1>4, <1>9, <3>1, <3>2, <3>3, PathsOnDrive
  <2>3. Performed(new, Local, t.act) = Performed(tree, Local, t.act)
    BY <1>1, <1>4, <1>10, <1>11, <1>12, <1>13, <1>15, <1>16, <1>17, <2>1, <2>2, MadeForAction
  <2> QED BY <2>3
<1>18. ASSUME make # to PROVE Performed(new, Local, t.act) = Performed(tree, Local, t.act)
  <2>1. make \in Ancestors(to)
    BY <1>4, <1>18 DEF WayTo
  <2>2. Moves(t.act) => ~IsPrefix(from, make)
    BY <1>12, <1>14
  <2>3. Performed(new, Local, t.act) = Performed(tree, Local, t.act)
    BY <1>1, <1>10, <1>11, <1>12, <1>13, <1>15, <1>16, <1>18, <2>1, <2>2, MadeForAction
  <2> QED BY <2>3
<1>19. Performed(new, Local, t.act) = Performed(tree, Local, t.act)
  BY <1>17, <1>18
<1>20. PathsOf(new) \subseteq Paths
  <2>1. make \in Paths
    BY <1>1, <1>2, <1>3 DEF Paths
  <2>2. ASSUME NEW p \in PathsOf(new) PROVE p \in Paths
    <3>1. IsPairs(new) /\ IsPairs(tree)
      BY <1>11 DEF IsNamed
    <3>2. PICK c : <<p, c>> \in new
      BY <2>2, <3>1, PairHasPath
    <3>3. p \in PathsOf(tree) \/ p = make
      BY <1>10, <3>1, <3>2, PairHasPath
    <3> QED BY <1>9, <2>1, <3>3 DEF Steady
  <2> QED BY <2>2
<1>21. Aware(r)
  BY <1>1, <1>4, <1>6, <1>12 DEF Aware
<1> QED BY <1>1, <1>6, <1>7, <1>9, <1>10, <1>19, <1>20, <1>21 DEF StepsOn

\* After an upload or a move the task ends, or looks for the file it uploads.
LEMMA UploadedAware ==
  ASSUME NEW t, IsTask(t)
  PROVE  /\ Uploaded(t).act = t.act /\ Uploaded(t).token = t.token
         /\ t.again => Uploaded(t).do = "look" /\ Aware(Uploaded(t))
         /\ ~t.again => Uploaded(t).do = "end"
<1>1. CASE t.again
  <2>0. PICK q : q = [t EXCEPT !.again = FALSE]
    OBVIOUS
  <2>1. PICK r : r = Resolve(q, "file")
    OBVIOUS
  <2>2. IsTask(q) /\ q.act = t.act /\ q.token = t.token
    BY <2>0 DEF IsTask
  <2>3. Uploaded(t) = r
    BY <1>1, <2>0, <2>1 DEF Uploaded
  <2>4. r.act = t.act /\ r.token = t.token /\ r.goal = "file" /\ r.do = "look"
    BY <2>1, <2>2, ResolveIs
  <2> QED BY <1>1, <2>3, <2>4 DEF Aware
<1>2. CASE ~t.again
  <2>1. PICK r : r = Ended(t)
    OBVIOUS
  <2>2. Uploaded(t) = r /\ r.do = "end" /\ r.act = t.act /\ r.token = t.token
    BY <1>2, <2>1 DEF Uploaded, Ended, IsTask
  <2> QED BY <1>2, <2>2
<1> QED BY <1>1, <1>2

\* A file is created, or gets the content it has in the folder.
LEMMA UploadStepsOn ==
  ASSUME PlainWindows, Sane, Steady, ~panicked', NEW i \in DOMAIN tasks, Aware(tasks[i]),
         Create(i) \/ Update(i)
  PROVE  StepsOn(i)
<1>1. PICK t, to, from, r : /\ t = tasks[i] /\ to = t.act.to /\ from = t.act.from
                            /\ r = Uploaded(t)
  OBVIOUS
<1>2. /\ IsTask(t) /\ ParentIsKnown(Keys(Now), t) /\ Placed(drive, Now, t) /\ HasFile(t)
      /\ Suits(t) /\ t.act \in Acts /\ Sourced(Now, t) /\ IsSound(Now, made)
      /\ (t.do # "forget" => Covers(drive, entries)) /\ Now.entries = entries
      /\ Root \notin DOMAIN entries /\ Safe /\ TypeOK
  BY <1>1, AtHand DEF Sane, Safe
<1>3. t.do \in {"create", "update"}
  BY <1>1 DEF Create, Update, Succeeds
<1>4. /\ Covers(drive, entries) /\ t.goal \in {"file", "fileParent"} /\ IsFile(to)
      /\ Root \notin DOMAIN drive
  BY <1>1, <1>2, <1>3 DEF Suits, HasFile, Covers
<1>5. to \in Seq(STRING) /\ to # << >> /\ Len(to) <= 3 /\ to \in DOMAIN Local /\ Local[to] # Folder
  BY <1>1, <1>2, <1>4, PlainPaths DEF IsFile
<1>6. Goes(i, r)
  BY <1>1 DEF Create, Update, Succeeds, Indexed
<1>7. PICK tree, new, content : /\ tree = TreeOn(drive) /\ new = TreeOn(drive')
                                /\ content = Local[to]
  OBVIOUS
<1>8. IsPairs(tree) /\ IsPairs(new)
  BY <1>7, TreeOnIs DEF IsNamed
<1>9. Known(Now, Front(to))
  BY <1>1, <1>2, <1>3, KnownIsKey DEF ParentIsKnown
<1>10. Ancestors(to) \subseteq PathsOf(tree)
  BY <1>2, <1>4, <1>5, <1>7, <1>9, PathsOnDrive
<1>11. ASSUME Create(i)
       PROVE  /\ AllRooted(drive')
              /\ \A p, c : <<p, c>> \in new <=>
                            (p = to /\ c = content) \/ (p # to /\ <<p, c>> \in tree)
  <2>1. t.do = "create" /\ drive' = CreatedOnDrive(t)
    BY <1>1, <1>11 DEF Create, Succeeds
  <2>2. t.at = IdOf(Now, Front(to)) /\ ~Known(Now, to)
    BY <1>1, <1>2, <2>1 DEF Placed, IsNew
  <2>3. drive' = With(drive, NewId, Object(t.at, Last(to), content))
    BY <1>1, <1>7, <2>1 DEF CreatedOnDrive
  <2>4. /\ \A p, c : <<p, c>> \in new <=> <<p, c>> \in tree \/ (p = to /\ c = content)
        /\ AllRooted(drive')
    BY <1>2, <1>4, <1>5, <1>7, <1>9, <2>2, <2>3, NewTree DEF Steady
  <2>5. to \notin PathsOf(tree)
    BY <1>2, <1>4, <1>7, <2>2, PathsOnDrive
  <2>6. \A p, c : <<p, c>> \in tree => p # to
    BY <1>8, <2>5, PairHasPath
  <2>7. ASSUME NEW p, NEW c
        PROVE  <<p, c>> \in new <=> (p = to /\ c = content) \/ (p # to /\ <<p, c>> \in tree)
    BY <2>4, <2>6
  <2> QED BY <2>4, <2>7
<1>12. ASSUME Update(i)
       PROVE  /\ AllRooted(drive')
              /\ \A p, c : <<p, c>> \in new <=>
                            (p = to /\ c = content) \/ (p # to /\ <<p, c>> \in tree)
  <2>1. t.do = "update" /\ drive' = UpdatedOnDrive(t)
    BY <1>1, <1>12 DEF Update, Succeeds
  <2>2. Known(Now, to) /\ t.at = IdOf(Now, to)
    BY <1>1, <1>2, <2>1 DEF Placed
  <2>3. <<to, t.at>> \in Reached(entries, Root)
    BY <1>2, <2>2, KnownLeads DEF IsSound
  <2>4. PICK ds, a, es : ds = drive /\ a = t.at /\ es = drive'
    OBVIOUS
  <2>5. <<to, a>> \in Reached(ds, Root) /\ Root \notin DOMAIN ds /\ NoTwin(ds)
    <3>1. NoTwin(ds)
      BY <1>2, <1>4, <2>4 DEF Covers, IsSound, NoTwin
    <3> QED BY <1>4, <2>3, <2>4, <3>1, CoversReached
  <2>6. es = [ds EXCEPT ![a] = Object(@.parent, @.name, content)]
    BY <1>1, <1>7, <2>1, <2>4 DEF UpdatedOnDrive
  <2>7. Rewrites(ds, es, a, content)
    BY <2>6 DEF Object, Rewrites
  <2>8. /\ \A p, c : HasAt(es, p, c) <=> (p = to /\ c = content) \/ (p # to /\ HasAt(ds, p, c))
        /\ AllRooted(ds) => AllRooted(es)
    BY <1>5, <2>5, <2>7, TreeAfterUpdate
  <2>9. ASSUME NEW p, NEW c
        PROVE  <<p, c>> \in new <=> (p = to /\ c = content) \/ (p # to /\ <<p, c>> \in tree)
    BY <1>7, <2>4, <2>8, TreeOnIs
  <2> QED BY <2>4, <2>8, <2>9 DEF Steady
<1>13. AllRooted(drive')
  BY <1>11, <1>12
<1>14. \A p, c : <<p, c>> \in new <=> (p = to /\ c = content) \/ (p # to /\ <<p, c>> \in tree)
  BY <1>11, <1>12, Zenon
<1>15. /\ Brought(tree, Local, to) = new /\ Brought(new, Local, to) = new
       /\ \A p : p \in PathsOf(new) <=> p \in PathsOf(tree) \/ p = to
  BY <1>5, <1>7, <1>8, <1>10, <1>14, FileBrought
<1>16. /\ t.act.kind \in {"Upload", "EnsureFolder"} \/ (from \notin PathsOf(tree) /\ from # to)
       /\ t.act.kind \in ActionKinds /\ ~Deletes(t.act)
  <2>1. t.act.kind = "Upload" \/ (Moves(t.act) /\ ~Known(Now, from))
    BY <1>1, <1>2, <1>4 DEF Suits, Sourced
  <2>2. ~Known(Now, from) => from \notin PathsOf(tree)
    BY <1>2, <1>4, <1>7, PathsOnDrive
  <2>3. Moves(t.act) => from # to
    BY <1>1, <1>2, OnTheWay DEF WayTo
  <2>4. t.act \in SyncActions
    BY <1>2, PlainAct
  <2> QED BY <2>1, <2>2, <2>3, <2>4 DEF SyncActions, Deletes, Moves
<1>17. Performed(tree, Local, t.act) = new
  BY <1>1, <1>15, <1>16, PerformedIs
<1>18. Performed(new, Local, t.act) = new
  <2>1. t.act.kind \in {"Upload", "EnsureFolder"} \/ from \notin PathsOf(new)
    BY <1>15, <1>16
  <2> QED BY <1>1, <1>15, <1>16, <2>1, PerformedIs
<1>19. PathsOf(new) \subseteq Paths
  BY <1>5, <1>7, <1>15 DEF Paths, Steady
<1>20. r.act = t.act /\ r.token = t.token /\ (r.do # "end" => Aware(r))
  BY <1>1, <1>2, UploadedAware
<1> QED BY <1>1, <1>6, <1>7, <1>13, <1>17, <1>18, <1>19, <1>20 DEF StepsOn

\* Something is deleted, and forgotten.
LEMMA DeleteStepsOn ==
  ASSUME PlainWindows, Sane, Steady, ~panicked', NEW i \in DOMAIN tasks, Aware(tasks[i]), Delete(i)
  PROVE  StepsOn(i)
<1>1. PICK t, to, r : t = tasks[i] /\ to = t.act.to /\ r = [t EXCEPT !.do = "forget"]
  OBVIOUS
<1>2. /\ IsTask(t) /\ Placed(drive, Now, t) /\ Suits(t) /\ t.act \in Acts
      /\ IsSound(Now, made) /\ (t.do # "forget" => Covers(drive, entries))
      /\ Now.entries = entries /\ Root \notin DOMAIN entries /\ Safe /\ TypeOK /\ Aware(t)
  BY <1>1, AtHand DEF Sane, Safe
<1>3. t.do = "delete" /\ drive' = DeletedOnDrive(t) /\ Goes(i, r)
  BY <1>1 DEF Delete, Succeeds, Indexed
<1>4. /\ Covers(drive, entries) /\ Deletes(t.act) /\ Root \notin DOMAIN drive
      /\ Known(Now, to) /\ t.at = IdOf(Now, to)
  BY <1>1, <1>2, <1>3 DEF Suits, Covers, Placed
<1>5. PICK ds, a, es : ds = drive /\ a = t.at /\ es = drive'
  OBVIOUS
<1>6. <<to, a>> \in Reached(ds, Root) /\ Root \notin DOMAIN ds /\ NoTwin(ds)
  <2>1. <<to, a>> \in Reached(entries, Root)
    BY <1>2, <1>4, <1>5, KnownLeads DEF IsSound
  <2>2. NoTwin(ds)
    BY <1>2, <1>4, <1>5 DEF Covers, IsSound, NoTwin
  <2> QED BY <1>4, <1>5, <2>1, <2>2, CoversReached
<1>7. es = Cut(ds, a)
  BY <1>3, <1>5 DEF DeletedOnDrive, Cut
<1>8. /\ \A p, c : HasAt(es, p, c) <=> HasAt(ds, p, c) /\ ~IsPrefix(to, p)
      /\ AllRooted(ds) => AllRooted(es)
  BY <1>6, <1>7, TreeAfterCut
<1>9. PICK tree, new : tree = TreeOn(drive) /\ new = TreeOn(drive')
  OBVIOUS
<1>10. /\ IsPairs(tree) /\ IsPairs(new)
       /\ \A p, c : <<p, c>> \in tree <=> HasAt(ds, p, c)
       /\ \A p, c : <<p, c>> \in new <=> HasAt(es, p, c)
  BY <1>5, <1>9, TreeOnIs DEF IsNamed
<1>11. Gone(tree, to) = new /\ Gone(new, to) = new
  <2>1. /\ IsPairs(Gone(tree, to))
        /\ \A p, c : <<p, c>> \in Gone(tree, to) <=> <<p, c>> \in tree /\ ~IsPrefix(to, p)
    BY <1>10, GoneIs
  <2>2. /\ IsPairs(Gone(new, to))
        /\ \A p, c : <<p, c>> \in Gone(new, to) <=> <<p, c>> \in new /\ ~IsPrefix(to, p)
    BY <1>10, GoneIs
  <2>3. ASSUME NEW p, NEW c
        PROVE  /\ <<p, c>> \in Gone(tree, to) <=> <<p, c>> \in new
               /\ <<p, c>> \in Gone(new, to) <=> <<p, c>> \in new
    BY <1>8, <1>10, <2>1, <2>2
  <2>4. Gone(tree, to) = new
    BY <1>10, <2>1, <2>3, SamePairs
  <2>5. Gone(new, to) = new
    BY <1>10, <2>2, <2>3, SamePairs
  <2> QED BY <2>4, <2>5
<1>12. t.act.kind \in ActionKinds
  BY <1>2, PlainAct DEF SyncActions
<1>13. Performed(tree, Local, t.act) = new /\ Performed(new, Local, t.act) = new
  BY <1>1, <1>4, <1>11, <1>12, PerformedIs
<1>14. PathsOf(new) \subseteq PathsOf(tree)
  <2>1. new \subseteq tree
    BY <1>11 DEF Gone
  <2> QED BY <2>1 DEF PathsOf
<1>15. r.act = t.act /\ r.goal = t.goal /\ r.do = "forget" /\ r.make = t.make /\ r.token = t.token
  BY <1>1, <1>2, DoIs
<1>16. Aware(r)
  BY <1>2, <1>15 DEF Aware
<1>17. AllRooted(drive') /\ PathsOf(new) \subseteq Paths
  BY <1>5, <1>8, <1>9, <1>14 DEF Steady
<1>18. Performed(new, Local, r.act) = Performed(tree, Local, r.act)
  BY <1>13, <1>15
<1> QED BY <1>1, <1>3, <1>9, <1>15, <1>16, <1>17, <1>18 DEF StepsOn

\* A removal has been done when the index forgets what was removed.
LEMMA ForgetStepsOn ==
  ASSUME PlainWindows, Sane, Steady, ~panicked', NEW i \in DOMAIN tasks, Aware(tasks[i]), Forget(i)
  PROVE  StepsOn(i)
<1>1. PICK t, to, r : t = tasks[i] /\ to = t.act.to /\ r = Ended(t)
  OBVIOUS
<1>2. /\ IsTask(t) /\ Suits(t) /\ t.act \in Acts /\ IsSound(Now, made)
      /\ Now.entries = entries /\ Root \notin DOMAIN entries /\ Safe /\ TypeOK
      /\ Covers(drive, Left(Now, t)) /\ Now.byPath = byPath
  BY <1>1, AtHand DEF Sane, Safe, Exact
<1>3. t.do = "forget" /\ drive' = drive /\ Goes(i, r)
  BY <1>1 DEF Forget, remote, Indexed
<1>4. r.do = "end" /\ r.act = t.act /\ r.token = t.token
  BY <1>1, <1>2, EndedIs DEF Ended, IsTask
<1>5. Deletes(t.act) /\ to # << >> /\ IsPath(to) /\ t.act.kind \in ActionKinds
  <2>1. t.act \in SyncActions /\ Deletes(t.act)
    BY <1>2, <1>3, PlainAct DEF Suits
  <2> QED BY <1>1, <1>2, <2>1, PlainPaths DEF SyncActions, IsPath
<1>6. PICK tree : tree = TreeOn(drive)
  OBVIOUS
<1>7. ASSUME NEW p \in PathsOf(tree) PROVE ~IsPrefix(to, p)
  <2>1. PICK o : p # << >> /\ <<p, o>> \in Reached(drive, Root)
    BY <1>6, <1>7, TreeOnIs
  <2>2. CASE to \in DOMAIN byPath
    <3>1. PICK a, es, ds : a = byPath[to] /\ ds = entries /\ es = Erased(ds, a)
      OBVIOUS
    <3>2. Covers(drive, es)
      BY <1>1, <1>2, <1>3, <2>2, <3>1 DEF Left
    <3>3. <<p, o>> \in Reached(es, Root)
      BY <2>1, <3>2, CoversReached
    <3>4. <<to, a>> \in Reached(ds, Root) /\ NoTwin(ds) /\ Root \notin DOMAIN ds
      BY <1>2, <2>2, <3>1 DEF IsSound, Leads
    <3>5. a \notin DOMAIN es /\ \A b \in DOMAIN es : b \in DOMAIN ds /\ es[b] = ds[b]
      <4>1. PICK gone : a \in gone /\ es = Restrict(ds, DOMAIN ds \ gone)
        BY <3>1, ErasedIs
      <4> QED BY <4>1 DEF Restrict
    <3>6. ASSUME IsPrefix(to, p) PROVE FALSE
      <4>1. PICK b : <<to, b>> \in Reached(es, Root)
        BY <1>5, <3>3, <3>6, PrefixReached
      <4>2. b \in DOMAIN es
        BY <1>5, <4>1, ReachedSteps
      <4>3. <<to, b>> \in Reached(ds, Root)
        BY <3>5, <4>1, ReachedGrows
      <4>4. a = b
        BY <3>4, <4>3, OneIdAtPath
      <4> QED BY <3>5, <4>2, <4>4
    <3> QED BY <3>6
  <2>3. CASE to \notin DOMAIN byPath
    <3>1. Covers(drive, entries)
      BY <1>1, <1>2, <2>3 DEF Left
    <3>2. to \notin PathsOf(tree)
      BY <1>2, <1>5, <1>6, <2>3, <3>1, PathsOnDrive DEF Known
    <3> QED BY <1>2, <1>5, <1>6, <3>1, <3>2, PathsOnDrive
  <2> QED BY <2>2, <2>3
<1>8. Gone(tree, to) = tree
  <2>1. ASSUME NEW x \in tree PROVE ~IsPrefix(to, x[1])
    BY <1>7 DEF PathsOf
  <2> QED BY <2>1 DEF Gone
<1>9. Performed(tree, Local, t.act) = tree
  BY <1>1, <1>5, <1>8, PerformedIs
<1> QED BY <1>1, <1>3, <1>4, <1>6, <1>9 DEF StepsOn, Steady

\* Nothing is where a move goes to, if the name is free there.
LEMMA FreeName ==
  ASSUME PlainWindows, Sane, NEW i \in DOMAIN tasks, NEW t, t = tasks[i], t.do = "move",
         ~IsTaken(t)
  PROVE  ~Known(Now, t.act.to)
<1>1. PICK from, to, top, s, a :
        from = t.act.from /\ to = t.act.to /\ top = Front(to) /\ s = t.source /\ a = t.at
  OBVIOUS
<1>2. /\ IsPath(from) /\ IsPath(to) /\ <<from, s>> \in Reached(entries, Root)
      /\ ~IsPrefix(from, to) /\ Known(Now, top) /\ a = IdOf(Now, top) /\ to = Append(top, Last(to))
      /\ <<top, a>> \in Reached(entries, Root)
  BY <1>1, MovePlaces
<1>3. /\ Covers(drive, entries) /\ Root \notin DOMAIN entries /\ IsSound(Now, made)
      /\ Now.entries = entries
  BY AtHand
<1> SUFFICES ASSUME Known(Now, to) PROVE FALSE
  BY <1>1
<1>4. to # << >>
  <2>1. IsPath(top)
    BY <1>2, ReachedSteps
  <2> QED BY <1>2, <2>1, FrontOfLonger
<1>5. PICK q : q = IdOf(Now, to)
  OBVIOUS
<1>6. q \in DOMAIN entries /\ entries[q].parent = a /\ entries[q].name = Last(to)
  BY <1>1, <1>2, <1>3, <1>4, <1>5, PlaceOfPath
<1>7. q # s
  <2>1. <<to, q>> \in Reached(entries, Root)
    BY <1>3, <1>5, KnownLeads DEF IsSound
  <2>2. CASE q = s
    <3>1. to = from
      BY <1>2, <1>3, <2>1, <2>2, OnePathOfId
    <3> QED BY <1>2, <3>1, PrefixOfLonger
  <2> QED BY <2>2
<1>8. q \in Children(drive, a) /\ drive[q].name = Last(to)
  <2>1. a = Root \/ a \in DOMAIN drive
    BY <1>2, <1>3, CoversPlace
  <2>2. q \in DOMAIN drive
    BY <1>3, <1>6, <2>1 DEF Covers
  <2> QED BY <1>3, <1>6, <2>2 DEF Covers, Children
<1> QED BY <1>1, <1>7, <1>8 DEF IsTaken

\* What is moved is as deep as paths are, where it goes.
LEMMA MovedLength ==
  ASSUME NEW tree, IsNamed(tree), NEW from, IsPath(from), NEW to, IsPath(to),
         PathsOf(MovedTo(tree, from, to)) \subseteq Paths,
         NEW y, IsPath(y), NEW c, <<from \o y, c>> \in tree
  PROVE  Len(to) + Len(y) <= 3
<1>1. IsPairs(tree) /\ \A x \in tree : IsPath(x[1])
  BY DEF IsNamed
<1>2. PICK part, rest : part = MovedPart(tree, from, to) /\ rest = WithFolders(Gone(tree, from), to)
  OBVIOUS
<1>3. IsPairs(part) /\ \A p, d : <<p, d>> \in part <=> CameFrom(tree, from, to, p, d)
  BY <1>1, <1>2, MovedPartIs
<1>4. IsPairs(rest)
  BY <1>1, <1>2, GoneIs, WithFoldersIs
<1>5. PICK p : p = to \o y
  OBVIOUS
<1>6. CameFrom(tree, from, to, p, c)
  BY <1>5 DEF CameFrom
<1>7. <<p, c>> \in Over(rest, part) /\ IsPairs(Over(rest, part))
  BY <1>3, <1>4, <1>6, OverIs
<1>8. p \in PathsOf(MovedTo(tree, from, to))
  BY <1>1, <1>2, <1>7, MovedToIs, PairHasPath
<1>9. Len(p) <= 3
  BY <1>8 DEF Paths
<1> QED BY <1>5, <1>9, ConcatIs

\* Something is moved.
LEMMA MoveStepsOn ==
  ASSUME PlainWindows, Sane, Steady, ~panicked', past' = {}, NEW i \in DOMAIN tasks,
         PathsOf(Performed(TreeOn(drive), Local, tasks[i].act)) \subseteq Paths, Move(i)
  PROVE  StepsOn(i)
<1>1. PICK t, from, to, top, name, s, a, r :
        /\ t = tasks[i] /\ from = t.act.from /\ to = t.act.to /\ top = Front(to)
        /\ name = Last(to) /\ s = t.source /\ a = t.at /\ r = Uploaded(t)
  OBVIOUS
<1>2. /\ t.do = "move" /\ drive' = MovedOnDrive(t) /\ ~IsTaken(t) /\ Goes(i, r)
  BY <1>1 DEF Move, Succeeds, Indexed
<1>3. /\ IsTask(t) /\ Suits(t) /\ t.act \in Acts /\ Covers(drive, entries) /\ TypeOK
      /\ Root \notin DOMAIN entries /\ IsSound(Now, made) /\ Now.entries = entries
  BY <1>1, <1>2, AtHand DEF Sane, Safe
<1>4. /\ Moves(t.act) /\ t.goal = "newParent" /\ to = Append(top, name) /\ s \in DOMAIN entries
      /\ IsPath(from) /\ IsPath(to) /\ Known(Now, from) /\ Known(Now, top) /\ from # << >>
      /\ <<from, s>> \in Reached(entries, Root) /\ <<top, a>> \in Reached(entries, Root)
      /\ ~IsPrefix(from, top) /\ ~IsPrefix(from, to)
  BY <1>1, <1>2, MovePlaces
<1>5. NoTwin(drive) /\ Root \notin DOMAIN drive /\ s \in DOMAIN drive
  <2>1. s \in DOMAIN drive
    BY <1>3, <1>4, CoversPlace
  <2> QED BY <1>3, <2>1 DEF IsSound, NoTwin, Covers
<1>6. <<from, s>> \in Reached(drive, Root) /\ <<top, a>> \in Reached(drive, Root)
  BY <1>3, <1>4, CoversReached
<1>7. PICK es, e, ds : /\ es = drive /\ e = Object(a, name, es[s].content)
                       /\ ds = [es EXCEPT ![s] = e]
  OBVIOUS
<1>8. drive' = ds
  BY <1>1, <1>2, <1>7 DEF MovedOnDrive
<1>9. e.parent = a /\ e.name = name /\ e.content = es[s].content
  BY <1>7 DEF Object
<1>10. /\ DOMAIN ds = DOMAIN es /\ ds[s] = e /\ \A o \in DOMAIN es : o # s => ds[o] = es[o]
  BY <1>5, <1>7
<1>11. Relocates(es, ds, s, from, a, top, name)
  BY <1>4, <1>5, <1>6, <1>7, <1>9, <1>10 DEF Relocates
<1>12. \A o \in DOMAIN es : ds[o].content = es[o].content
  BY <1>9, <1>10
<1>13. PICK tree, new : tree = TreeOn(drive) /\ new = TreeOn(drive')
  OBVIOUS
<1>14. /\ IsNamed(tree) /\ IsPairs(tree) /\ IsNamed(new) /\ IsPairs(new)
       /\ \A p, c : <<p, c>> \in tree <=> HasAt(es, p, c)
       /\ \A p, c : <<p, c>> \in new <=> HasAt(ds, p, c)
  BY <1>7, <1>8, <1>13, TreeOnIs DEF IsNamed
<1>15. from \in PathsOf(tree) /\ t.act.kind \in ActionKinds
  BY <1>3, <1>4, <1>13, PathsOnDrive, PlainAct DEF SyncActions
<1>16. PICK moved : moved = MovedTo(tree, from, to)
  OBVIOUS
<1>17. /\ t.act.kind # "MoveAndUpload" => Performed(tree, Local, t.act) = moved
       /\ t.act.kind = "MoveAndUpload" => Performed(tree, Local, t.act) = Brought(moved, Local, to)
  <2>1. PICK act : act = t.act
    OBVIOUS
  <2>2. /\ act.from = from /\ act.to = to /\ act.kind \in ActionKinds
        /\ act.kind \in {"Move", "MoveFolder", "MoveAndUpload"} /\ from \in PathsOf(tree)
    BY <1>1, <1>4, <1>15, <2>1 DEF Moves
  <2> QED BY <1>16, <2>1, <2>2, PerformedIs
<1>18. to \in DOMAIN Local /\ to \in Seq(STRING) /\ to # << >>
  BY <1>1, <1>3, <1>4, PlainAct, PlainPaths DEF Moves, Deletes
<1>19. IsPairs(moved)
  BY <1>4, <1>14, <1>16, MovedToIs DEF IsNamed
<1>20. PathsOf(moved) \subseteq PathsOf(Performed(tree, Local, t.act))
  BY <1>17, <1>18, <1>19, BroughtIs
<1>21. PathsOf(moved) \subseteq Paths
  BY <1>1, <1>13, <1>20
<1>22. ASSUME NEW y, NEW o, <<from \o y, o>> \in Reached(es, Root), IsPath(y)
       PROVE  Len(to) + Len(y) <= 3
  <2>1. PICK p, c : p = from \o y /\ c = es[o].content
    OBVIOUS
  <2>2. p # << >>
    <3>1. IsPrefix(from, p)
      BY <1>4, <1>22, <2>1, ConcatIs
    <3>2. IsPath(p)
      BY <1>22, <2>1, ReachedSteps
    <3> QED BY <1>4, <3>1, <3>2, PrefixesOf
  <2>3. <<p, c>> \in tree
    BY <1>14, <1>22, <2>1, <2>2 DEF HasAt
  <2> QED BY <1>4, <1>14, <1>16, <1>21, <1>22, <2>1, <2>3, MovedLength
<1>23. /\ \A p, c : HasAt(ds, p, c) <=>
            (HasAt(es, p, c) /\ ~IsPrefix(from, p)) \/ WasAt(es, from, to, p, c)
       /\ AllRooted(ds)
  <2>1. AllRooted(es)
    BY <1>7 DEF Steady
  <2>2. Fits(es, from, to)
    BY <1>22 DEF Fits
  <2> QED BY <1>4, <1>11, <1>12, <2>1, <2>2, TreeAfterMove
<1>24. ASSUME NEW p, NEW c
       PROVE  <<p, c>> \in new <=>
                (<<p, c>> \in tree /\ ~IsPrefix(from, p)) \/ CameFrom(tree, from, to, p, c)
  <2>1. HasAt(ds, p, c) <=>
          (HasAt(es, p, c) /\ ~IsPrefix(from, p)) \/ WasAt(es, from, to, p, c)
    BY <1>23
  <2>2. WasAt(es, from, to, p, c) <=> CameFrom(tree, from, to, p, c)
    BY <1>14 DEF CameFrom, WasAt
  <2> QED BY <1>14, <2>1, <2>2
<1>25. \A p \in PathsOf(tree) : ~IsPrefix(to, p)
  <2>1. ~Known(Now, to)
    BY <1>1, <1>2, FreeName
  <2> QED BY <1>3, <1>4, <1>13, <2>1, PathsOnDrive, KnownAbove
<1>26. Ancestors(to) \subseteq PathsOf(Gone(tree, from))
  <2>1. ASSUME NEW p \in Ancestors(to) PROVE p \in PathsOf(Gone(tree, from))
    <3>1. p \in PathsOf(tree)
      BY <1>1, <1>3, <1>4, <1>13, <1>18, <2>1, PathsOnDrive
    <3>2. IsPrefix(p, to) /\ IsPath(p)
      BY <1>18, <2>1, AncestorIsPrefix DEF IsPath
    <3>3. ~IsPrefix(from, p)
      BY <1>1, <1>3, <1>4, <3>2, PlainPaths
    <3>4. PICK c : <<p, c>> \in tree
      BY <1>14, <3>1, PairHasPath
    <3> QED BY <1>14, <3>3, <3>4, GoneIs, PairHasPath
  <2> QED BY <2>1
<1>27. moved = new
  BY <1>4, <1>14, <1>16, <1>24, <1>25, <1>26, TreeMoved
<1>28. /\ r.act = t.act /\ r.token = t.token /\ (t.again => r.do = "look" /\ Aware(r))
       /\ ~t.again => r.do = "end"
  BY <1>1, <1>3, UploadedAware
<1>29. t.again <=> t.act.kind = "MoveAndUpload"
  BY <1>3, <1>4 DEF Suits
<1>30. ASSUME t.again PROVE Performed(new, Local, t.act) = Performed(tree, Local, t.act)
  <2>1. from \notin PathsOf(new)
    <3>1. ASSUME NEW c, <<from, c>> \in new PROVE FALSE
      <4>1. CameFrom(tree, from, to, from, c)
        BY <1>4, <1>24, <3>1, PrefixOfLonger
      <4>2. PICK y : IsPath(y) /\ from = to \o y
        BY <4>1 DEF CameFrom
      <4> QED BY <1>4, <1>15, <1>25, <4>2, ConcatIs
    <3> QED BY <1>14, <3>1, PairHasPath
  <2>2. Performed(new, Local, t.act) = Brought(new, Local, to)
    <3>1. PICK act : act = t.act
      OBVIOUS
    <3>2. /\ act.from = from /\ act.to = to /\ act.kind \in ActionKinds /\ ~Deletes(act)
      BY <1>1, <1>4, <1>15, <3>1 DEF Moves, Deletes
    <3> QED BY <2>1, <3>1, <3>2, PerformedIs
  <2> QED BY <1>17, <1>27, <1>29, <1>30, <2>2
<1>31. ~t.again => new = Performed(tree, Local, t.act)
  BY <1>17, <1>27, <1>29
<1>32. PathsOf(new) \subseteq Paths /\ AllRooted(drive')
  BY <1>8, <1>21, <1>23, <1>27
<1> QED BY <1>1, <1>2, <1>13, <1>28, <1>30, <1>31, <1>32 DEF StepsOn

\* Any step of a task but one that meets an expired token.
LEMMA TaskStepsOn ==
  ASSUME PlainWindows, Sane, Steady, ~panicked', past' = {}, NEW i \in DOMAIN tasks,
         Aware(tasks[i]), TaskStep(i) \/ Fails(i), ~Unauthorized(i),
         PathsOf(Performed(TreeOn(drive), Local, tasks[i].act)) \subseteq Paths
  PROVE  StepsOn(i) /\ UNCHANGED <<scenario, window, chain, parked, token, live>>
<1>1. Safe
  BY DEF Sane
<1>2. ~Fails(i)
  BY DEF Fails, Happens
<1>3. ~Refused(i)
  BY CallAccepted DEF Sane, Refused
<1>4. StepsOn(i)
  BY <1>2, <1>3, LookStepsOn, FindStepsOn, MakeStepsOn, UploadStepsOn, MoveStepsOn,
     DeleteStepsOn, ForgetStepsOn DEF TaskStep
<1>5. UNCHANGED <<scenario, window, chain, parked, token, live>>
  BY <1>2, <1>3 DEF TaskStep, Look, PassBy, Find, Make, Create, Update, Move,
     Delete, Forget, Succeeds, session
<1> QED BY <1>4, <1>5

-----------------------------------------------------------------------------
(* What is left to do leads from what is on Drive to the folder *)

Running(ts) == IF DOMAIN ts = {} THEN 0 ELSE 1
Waiting(ch) == IF ch = << >> THEN 0 ELSE Len(ch) - 1

\* These are the actions that are left: what is parked, what runs, and what waits.
IsRest(s, ps, ts, ch) ==
  /\ Len(s) = Len(ps) + Running(ts) + Waiting(ch)
  /\ \A j \in 1..Len(ps) : s[j] = ps[j]
  /\ \A k \in DOMAIN ts : s[Len(ps) + 1] = ts[k].act
  /\ \A j \in 1..Waiting(ch) : s[Len(ps) + Running(ts) + j] = ch[j].act

\* The index is saved after the last task.
SavesLast(ch) == ch # << >> => \A j \in 1..Len(ch) : ch[j] = Save <=> j = Len(ch)

\* What waits has the token of the moment the window ended.
Elder(ch, ts, n) ==
  \A j \in DOMAIN ch : ch[j] # Save =>
    /\ ch[j].token <= n /\ \A k \in DOMAIN ts : ch[j].token <= ts[k].token
    /\ \A l \in DOMAIN ch : ch[l] # Save => ch[l].token = ch[j].token

\* While something is parked no call succeeds.
Late(t) == Expired(t) /\ t.do # "forget" /\ (Uploading(t) => t.act.kind = "Upload")
Held ==
  parked # << >> => /\ \A k \in DOMAIN tasks : Late(tasks[k])
                    /\ \A j \in DOMAIN chain : chain[j] # Save => Expired(chain[j])

Coursed ==
  /\ AllRooted(drive) /\ \A k \in DOMAIN tasks : Aware(tasks[k])
  /\ SavesLast(chain) /\ Elder(chain, tasks, token) /\ Held
  /\ \E s : IsRest(s, parked, tasks, chain) /\ Reaches(TreeOn(drive), Local, s)
CourseInv == past = {} => Coursed

\* How many there are of each.
LEMMA RestIs ==
  ASSUME Safe
  PROVE  /\ Len(parked) \in Nat /\ Running(tasks) \in {0, 1} /\ Waiting(chain) \in Nat
         /\ \A k \in DOMAIN tasks : Running(tasks) = 1 /\ DOMAIN tasks = {k}
         /\ parked \in Seq(SyncActions) /\ DOMAIN parked = 1..Len(parked)
         /\ chain \in Seq({Save} \union Fresh) /\ Len(chain) \in Nat /\ DOMAIN chain = 1..Len(chain)
         /\ (chain # << >> => Len(chain) # 0 /\ Waiting(chain) = Len(chain) - 1)
<1>1. parked \in Seq(SyncActions) /\ chain \in Seq({Save} \union Fresh)
  BY DEF Safe, TypeOK
<1>2. Running(tasks) \in {0, 1} /\ \A k \in DOMAIN tasks : Running(tasks) = 1 /\ DOMAIN tasks = {k}
  BY DEF Running, Safe, Alone
<1>3. Len(chain) \in Nat /\ (chain # << >> => Len(chain) # 0)
  BY <1>1
<1>4. Waiting(chain) \in Nat /\ (chain # << >> => Waiting(chain) = Len(chain) - 1)
  <2>1. CASE chain = << >>
    BY <2>1 DEF Waiting
  <2>2. CASE chain # << >>
    <3>1. PICK n \in Nat : n = Len(chain) /\ n # 0
      BY <1>3, <2>2
    <3> QED BY <2>2, <3>1 DEF Waiting
  <2> QED BY <2>1, <2>2
<1>5. Len(parked) \in Nat /\ DOMAIN parked = 1..Len(parked)
  BY <1>1
<1>6. DOMAIN chain = 1..Len(chain)
  BY <1>1
<1> QED BY <1>1, <1>2, <1>3, <1>4, <1>5, <1>6

\* What is left is of the window.
LEMMA RestActs ==
  ASSUME Safe, Windowed, SavesLast(chain), NEW s, IsRest(s, parked, tasks, chain)
  PROVE  Len(s) \in Nat /\ \A j \in 1..Len(s) : s[j] \in Acts
<1>1. PICK m, k, n : m = Len(parked) /\ k = Running(tasks) /\ n = Waiting(chain)
  OBVIOUS
<1>0. m \in Nat /\ k \in {0, 1} /\ k \in Nat /\ n \in Nat
  BY <1>1, RestIs
<1>2. Len(s) = m + k + n
  BY <1>1 DEF IsRest
<1>3. ASSUME NEW j \in 1..m PROVE s[j] \in Acts
  BY <1>1, <1>3, RestIs DEF IsRest, Windowed
<1>4. ASSUME k = 1 PROVE s[m + 1] \in Acts
  <2>1. PICK q : q \in DOMAIN tasks
    BY <1>1, <1>4 DEF Running
  <2> QED BY <1>1, <2>1 DEF IsRest, Windowed
<1>5. ASSUME NEW j \in 1..n PROVE s[m + k + j] \in Acts
  <2>1. chain # << >>
    BY <1>1, <1>5 DEF Waiting
  <2>6. Len(chain) \in Nat /\ Waiting(chain) = Len(chain) - 1 /\ DOMAIN chain = 1..Len(chain)
    BY <2>1, RestIs, Zenon
  <2>7. n = Len(chain) - 1 /\ Len(chain) \in Nat /\ DOMAIN chain = 1..Len(chain)
    BY <1>1, <2>6, Zenon
  <2>2. PICK l : l = Len(chain)
    OBVIOUS
  <2>8. n = l - 1 /\ l \in Nat /\ DOMAIN chain = 1..l
    BY <2>2, <2>7, Zenon
  <2>3. j \in 1..l /\ j # l
    BY <1>5, <2>8
  <2>4. chain[j] # Save /\ j \in DOMAIN chain
    BY <2>1, <2>2, <2>3, <2>8 DEF SavesLast
  <2>5. s[m + k + j] = chain[j].act
    BY <1>1, <1>5 DEF IsRest
  <2> QED BY <2>4, <2>5 DEF Windowed
<1>6. ASSUME NEW j \in 1..Len(s) PROVE s[j] \in Acts
  <2>1. j \in Nat /\ 1 <= j /\ j <= m + k + n
    BY <1>0, <1>2, <1>6
  <2>2. CASE j <= m
    BY <1>0, <1>3, <2>1, <2>2
  <2>3. CASE j > m /\ j <= m + k
    <3>1. k = 1 /\ j = m + 1
      BY <1>0, <2>1, <2>3
    <3> QED BY <1>4, <3>1
  <2>4. CASE j > m + k
    <3>1. PICK l \in 1..n : j = m + k + l
      <4>1. j - (m + k) \in 1..n /\ j = m + k + (j - (m + k))
        BY <1>0, <2>1, <2>4
      <4> QED BY <4>1
    <3> QED BY <1>5, <3>1
  <2> QED BY <1>0, <2>1, <2>2, <2>3, <2>4
<1> QED BY <1>0, <1>2, <1>6

\* One of a sequence is left out.
LEMMA ShortIs ==
  ASSUME NEW s, NEW l \in Nat, Len(s) = l + 1, NEW m \in 0..l
  PROVE  \E q : /\ Short(s, q, m) /\ Len(q) = l
                /\ \A j \in 1..m : q[j] = s[j]
                /\ \A j \in m + 1..l : q[j] = s[j + 1]
<1>1. PICK q : q = [j \in 1..l |-> IF j <= m THEN s[j] ELSE s[j + 1]]
  OBVIOUS
<1>2. Len(q) = l
  BY <1>1
<1>3. \A j \in 1..m : q[j] = s[j]
  BY <1>1
<1>4. \A j \in m + 1..l : q[j] = s[j + 1]
  BY <1>1
<1>5. Short(s, q, m)
  BY <1>2, <1>3, <1>4 DEF Short
<1> QED BY <1>2, <1>3, <1>4, <1>5

\* The task that runs, after its step.
LEMMA TaskIs ==
  ASSUME Safe, NEW i \in DOMAIN tasks, NEW r, Goes(i, r)
  PROVE  /\ r.do = "end" => DOMAIN tasks' = {} /\ Running(tasks') = 0
         /\ r.do # "end" => DOMAIN tasks' = {i} /\ tasks'[i] = r /\ Running(tasks') = 1
<1>1. DOMAIN tasks = {i}
  BY DEF Safe, Alone
<1>2. CASE r.do = "end"
  <2>1. tasks' = Restrict(tasks, DOMAIN tasks \ {i})
    BY <1>2 DEF Goes
  <2>2. DOMAIN tasks' = {}
    BY <1>1, <2>1 DEF Restrict
  <2> QED BY <1>2, <2>2 DEF Running
<1>3. CASE r.do # "end"
  <2>1. tasks' = [tasks EXCEPT ![i] = r]
    BY <1>3 DEF Goes
  <2>2. DOMAIN tasks' = {i} /\ tasks'[i] = r
    BY <1>1, <2>1
  <2> QED BY <1>3, <2>2 DEF Running
<1> QED BY <1>2, <1>3

\* The task goes on.
LEMMA RestStays ==
  ASSUME Safe, NEW s, IsRest(s, parked, tasks, chain), NEW i \in DOMAIN tasks, NEW r, Goes(i, r),
         r.do # "end", r.act = tasks[i].act, UNCHANGED <<parked, chain>>
  PROVE  IsRest(s, parked', tasks', chain')
<1>1. DOMAIN tasks' = {i} /\ tasks'[i] = r /\ Running(tasks') = 1 /\ Running(tasks) = 1
  BY TaskIs, RestIs
<1>2. s[Len(parked) + 1] = r.act
  BY DEF IsRest
<1> QED BY <1>1, <1>2 DEF IsRest

\* The task ends.
LEMMA RestDone ==
  ASSUME Safe, NEW s, IsRest(s, parked, tasks, chain), NEW i \in DOMAIN tasks, NEW r, Goes(i, r),
         r.do = "end", UNCHANGED <<parked, chain>>
  PROVE  /\ s[Len(parked) + 1] = tasks[i].act /\ Len(s) \in Nat /\ Len(s) # 0
         /\ \E q : Short(s, q, Len(parked)) /\ IsRest(q, parked', tasks', chain')
<1>1. DOMAIN tasks' = {} /\ Running(tasks') = 0 /\ Running(tasks) = 1
  BY TaskIs, RestIs
<1>2. PICK m, n : m = Len(parked) /\ n = Waiting(chain)
  OBVIOUS
<1>3. m \in Nat /\ n \in Nat
  BY <1>2, RestIs
<1>4. Len(s) = m + 1 + n
  BY <1>1, <1>2 DEF IsRest
<1>5. PICK l \in Nat : l = m + n
  BY <1>3
<1>6. Len(s) = l + 1 /\ m \in 0..l
  BY <1>3, <1>4, <1>5
<1>7. PICK q : /\ Short(s, q, m) /\ Len(q) = l
               /\ \A j \in 1..m : q[j] = s[j]
               /\ \A j \in m + 1..l : q[j] = s[j + 1]
  BY <1>6, ShortIs
<1>8. \A j \in 1..m : q[j] = parked[j]
  BY <1>2, <1>7 DEF IsRest
<1>9. ASSUME NEW j \in 1..n PROVE q[m + 0 + j] = chain[j].act
  <2>1. m + j \in m + 1..l /\ m + 0 + j = m + j /\ (m + j) + 1 = m + 1 + j
    BY <1>3, <1>5
  <2>2. s[m + 1 + j] = chain[j].act
    BY <1>1, <1>2 DEF IsRest
  <2> QED BY <1>7, <2>1, <2>2
<1>10. Len(q) = m + 0 + n
  BY <1>3, <1>5, <1>7
<1>11. IsRest(q, parked', tasks', chain')
  BY <1>1, <1>2, <1>8, <1>9, <1>10 DEF IsRest
<1>12. s[m + 1] = tasks[i].act
  BY <1>2 DEF IsRest
<1> QED BY <1>2, <1>6, <1>7, <1>11, <1>12

\* The task is parked.
LEMMA RestParked ==
  ASSUME Safe, NEW s, IsRest(s, parked, tasks, chain), NEW i \in DOMAIN tasks, Unauthorized(i)
  PROVE  IsRest(s, parked', tasks', chain')
<1>1. PICK t : t = tasks[i]
  OBVIOUS
<1>2. IsTask(t) /\ Goes(i, Ended(t)) /\ parked' = Append(parked, t.act) /\ chain' = chain
  BY <1>1, TaskIsOK DEF Unauthorized
<1>3. Ended(t).do = "end"
  BY <1>2, EndedIs
<1>4. DOMAIN tasks' = {} /\ Running(tasks') = 0 /\ Running(tasks) = 1
  BY <1>2, <1>3, TaskIs, RestIs
<1>5. PICK m, n : m = Len(parked) /\ n = Waiting(chain)
  OBVIOUS
<1>6. m \in Nat /\ n \in Nat /\ parked \in Seq(SyncActions)
  BY <1>5, RestIs
<1>7. Len(parked') = m + 1 /\ parked'[m + 1] = t.act /\ \A j \in 1..m : parked'[j] = parked[j]
  BY <1>2, <1>5, <1>6
<1>8. Len(s) = m + 1 + n /\ s[m + 1] = t.act
  BY <1>1, <1>4, <1>5 DEF IsRest
<1>9. ASSUME NEW j \in 1..m + 1 PROVE s[j] = parked'[j]
  <2>1. j = m + 1 \/ j \in 1..m
    BY <1>6
  <2> QED BY <1>5, <1>7, <1>8, <2>1 DEF IsRest
<1>10. ASSUME NEW j \in 1..n PROVE s[m + 1 + 0 + j] = chain'[j].act
  <2>1. s[m + 1 + j] = chain[j].act
    BY <1>4, <1>5 DEF IsRest
  <2>2. m + 1 + 0 + j = m + 1 + j
    BY <1>6
  <2> QED BY <1>2, <2>1, <2>2
<1>11. Len(s) = m + 1 + 0 + n
  BY <1>6, <1>8
<1> QED BY <1>2, <1>4, <1>5, <1>7, <1>9, <1>10, <1>11 DEF IsRest

\* What begins is the first of what waits.
LEMMA ChainIs ==
  ASSUME Safe, SavesLast(chain), NextOfChain
  PROVE  /\ SavesLast(chain') /\ chain' \in Seq({Save} \union Fresh)
         /\ Head(chain) = Save => chain' = << >> /\ Waiting(chain) = 0
         /\ Head(chain) # Save => /\ Waiting(chain) = Waiting(chain') + 1 /\ Waiting(chain') \in Nat
                                  /\ chain[1] = Head(chain)
         /\ \A j \in 1..Waiting(chain') : chain'[j] = chain[j + 1]
         /\ \A j \in DOMAIN chain' : j + 1 \in DOMAIN chain /\ chain'[j] = chain[j + 1]
<1>1. chain # << >> /\ chain' = Tail(chain) /\ chain \in Seq({Save} \union Fresh)
  BY RestIs DEF NextOfChain
<1>2. PICK l \in Nat : l = Len(chain) /\ l # 0
  BY <1>1
<1>3. /\ chain' \in Seq({Save} \union Fresh) /\ Len(chain') = l - 1 /\ Head(chain) = chain[1]
      /\ \A j \in 1..l - 1 : chain'[j] = chain[j + 1]
  BY <1>1, <1>2
<1>4. \A j \in 1..l : chain[j] = Save <=> j = l
  BY <1>1, <1>2 DEF SavesLast
<1>5. Waiting(chain) = l - 1
  BY <1>1, <1>2 DEF Waiting
<1>6. ASSUME NEW j \in 1..l - 1 PROVE chain'[j] = Save <=> j = l - 1
  <2>1. j + 1 \in 1..l /\ (j + 1 = l <=> j = l - 1)
    BY <1>2
  <2> QED BY <1>3, <1>4, <2>1
<1>7. SavesLast(chain')
  BY <1>3, <1>6 DEF SavesLast
<1>8. DOMAIN chain' = 1..l - 1 /\ DOMAIN chain = 1..l
  BY <1>1, <1>2, <1>3
<1>9. ASSUME NEW j \in 1..l - 1 PROVE j + 1 \in 1..l
  BY <1>2
<1>10. CASE l = 1
  <2>1. chain' = << >>
    BY <1>3, <1>10
  <2>2. Waiting(chain') = 0 /\ Waiting(chain) = 0
    BY <1>5, <1>10, <2>1 DEF Waiting
  <2>3. Head(chain) = Save
    BY <1>3, <1>4, <1>10
  <2> QED BY <1>3, <1>7, <1>8, <1>9, <2>1, <2>2, <2>3
<1>11. CASE l # 1
  <2>1. chain' # << >>
    <3>1. l - 1 # 0
      BY <1>11
    <3> QED BY <1>3, <3>1
  <2>2. Waiting(chain') = (l - 1) - 1
    BY <1>3, <2>1 DEF Waiting
  <2>3. (l - 1) - 1 \in Nat /\ 1 \in 1..l /\ l - 1 = (l - 1) - 1 + 1
    BY <1>2, <1>11
  <2>4. Head(chain) # Save
    BY <1>3, <1>4, <1>11, <2>3
  <2>5. \A j \in 1..(l - 1) - 1 : j \in 1..l - 1
    BY <1>2
  <2>6. \A j \in 1..Waiting(chain') : chain'[j] = chain[j + 1]
    BY <1>3, <2>2, <2>5
  <2>7. Waiting(chain) = Waiting(chain') + 1 /\ Waiting(chain') \in Nat
    BY <1>5, <2>2, <2>3
  <2> QED BY <1>3, <1>7, <1>8, <1>9, <2>4, <2>6, <2>7
<1> QED BY <1>10, <1>11

\* The next task begins, and no other runs.
LEMMA BeginsAlone ==
  ASSUME NextOfChain, Head(chain) # Save, Alone'
  PROVE  /\ DOMAIN tasks = {} /\ DOMAIN tasks' = {InChain} /\ tasks'[InChain] = Head(chain)
         /\ Running(tasks) = 0 /\ Running(tasks') = 1
<1>1. PICK h : h = Head(chain)
  OBVIOUS
<1>2. tasks' = With(tasks, InChain, h) /\ InChain \notin DOMAIN tasks
  BY <1>1 DEF NextOfChain
<1>3. DOMAIN tasks' = DOMAIN tasks \union {InChain} /\ tasks'[InChain] = h
  BY <1>2 DEF With
<1>4. DOMAIN tasks = {}
  BY <1>2, <1>3 DEF Alone
<1> QED BY <1>1, <1>3, <1>4 DEF Running

\* The next task of the chain is the next of what is left.
LEMMA RestBegins ==
  ASSUME Safe, Alone', SavesLast(chain), NextOfChain, NEW s, IsRest(s, parked, tasks, chain)
  PROVE  IsRest(s, parked', tasks', chain')
<1>1. parked' = parked
  BY DEF NextOfChain, session
<1>2. CASE Head(chain) = Save
  <2>1. tasks' = tasks
    BY <1>2 DEF NextOfChain
  <2>2. Waiting(chain) = 0 /\ Waiting(chain') = 0
    BY <1>2, ChainIs DEF Waiting
  <2>3. \A j \in 1..0 : FALSE
    OBVIOUS
  <2> QED BY <1>1, <2>1, <2>2, <2>3 DEF IsRest
<1>3. CASE Head(chain) # Save
  <2>1. PICK m, n : m = Len(parked) /\ n = Waiting(chain')
    OBVIOUS
  <2>2. m \in Nat /\ n \in Nat
    BY <1>3, <2>1, RestIs, ChainIs
  <2>3. /\ Running(tasks) = 0 /\ Running(tasks') = 1 /\ DOMAIN tasks' = {InChain}
        /\ tasks'[InChain] = chain[1] /\ Waiting(chain) = n + 1
        /\ \A j \in 1..n : chain'[j] = chain[j + 1]
    BY <1>3, <2>1, ChainIs, BeginsAlone
  <2>4. /\ Len(s) = m + 0 + (n + 1) /\ \A j \in 1..n + 1 : s[m + 0 + j] = chain[j].act
        /\ \A j \in 1..m : s[j] = parked[j]
    BY <2>1, <2>3 DEF IsRest
  <2>5. s[m + 1] = chain[1].act
    <3>1. 1 \in 1..n + 1 /\ m + 0 + 1 = m + 1
      BY <2>2
    <3> QED BY <2>4, <3>1
  <2>6. ASSUME NEW j \in 1..n PROVE s[m + 1 + j] = chain'[j].act
    <3>1. j + 1 \in 1..n + 1 /\ m + 0 + (j + 1) = m + 1 + j
      BY <2>2
    <3> QED BY <2>3, <2>4, <3>1
  <2>7. Len(s) = m + 1 + n
    BY <2>2, <2>4
  <2> QED BY <1>1, <2>1, <2>3, <2>4, <2>5, <2>6, <2>7 DEF IsRest
<1> QED BY <1>2, <1>3

\* What is parked begins again: it is one, and nothing else runs.
LEMMA RetryIs ==
  ASSUME Safe, Alone', Windowed, Refreshed
  PROVE  /\ parked = << >> => DOMAIN tasks' = DOMAIN tasks /\ \A k \in DOMAIN tasks : tasks'[k] = tasks[k]
         /\ parked # << >> => /\ Len(parked) = 1 /\ DOMAIN tasks = {} /\ parked[1] \in SyncActions
                              /\ \E k : DOMAIN tasks' = {k} /\ tasks'[k] = Started(parked[1], token')
<1>1. parked \in Seq(SyncActions) /\ token \in Nat /\ token' = token + 1
  BY DEF Refreshed, Safe, TypeOK
<1>2. PICK retried : retried = {<<token', l>> : l \in DOMAIN parked}
  OBVIOUS
<1>3. tasks' = [q \in DOMAIN tasks \union retried |->
                  IF q \in DOMAIN tasks THEN tasks[q] ELSE Started(parked[q[2]], token')]
  BY <1>2 DEF Refreshed
<1>4. CASE parked = << >>
  <2>1. retried = {}
    BY <1>2, <1>4
  <2>2. tasks' = [q \in DOMAIN tasks |-> tasks[q]]
    BY <1>3, <2>1
  <2> QED BY <1>4, <2>2
<1>5. CASE parked # << >>
  <2>1. PICK l \in Nat : l = Len(parked) /\ l # 0 /\ DOMAIN parked = 1..l
    BY <1>1, <1>5
  <2>2. PICK k, n : k = <<n, 1>> /\ n = token'
    OBVIOUS
  <2>3. k \in retried /\ 1 \in 1..l
    BY <1>2, <2>1, <2>2
  <2>4. k \notin DOMAIN tasks
    <3>1. PICK m \in Nat : m = token /\ n = m + 1
      BY <1>1, <2>2
    <3>2. n \in Nat /\ ~(n <= m)
      BY <3>1
    <3> QED BY <2>2, <3>1, <3>2 DEF Windowed, KeysUpTo
  <2>5. DOMAIN tasks' = DOMAIN tasks \union retried
    BY <1>3
  <2>6. \A q \in DOMAIN tasks \union retried : q = k
    BY <2>3, <2>5 DEF Alone
  <2>7. DOMAIN tasks = {} /\ DOMAIN tasks' = {k}
    BY <2>3, <2>4, <2>5, <2>6
  <2>8. l = 1
    <3>1. <<n, l>> \in retried
      BY <1>2, <2>1, <2>2
    <3>2. <<n, l>> = <<n, 1>>
      BY <2>2, <2>6, <3>1
    <3> QED BY <3>2
  <2>9. tasks'[k] = Started(parked[1], token')
    BY <1>3, <2>2, <2>3, <2>4
  <2>10. parked[1] \in SyncActions
    BY <1>1, <2>1, <2>3
  <2> QED BY <1>5, <2>1, <2>7, <2>8, <2>9, <2>10
<1> QED BY <1>4, <1>5

\* What is parked runs next when the token is a new one.
LEMMA RestRetried ==
  ASSUME Safe, Alone', Windowed, Refreshed, NEW s, IsRest(s, parked, tasks, chain)
  PROVE  IsRest(s, parked', tasks', chain')
<1>1. parked' = << >> /\ chain' = chain /\ Len(parked') = 0
  BY DEF Refreshed
<1>2. CASE parked = << >>
  <2>1. DOMAIN tasks' = DOMAIN tasks /\ \A k \in DOMAIN tasks : tasks'[k] = tasks[k]
    BY <1>2, RetryIs
  <2>2. Running(tasks') = Running(tasks)
    BY <2>1 DEF Running
  <2> QED BY <1>1, <1>2, <2>1, <2>2 DEF IsRest
<1>3. CASE parked # << >>
  <2>1. Len(parked) = 1 /\ DOMAIN tasks = {} /\ Running(tasks) = 0
    BY <1>3, RetryIs DEF Running
  <2>2. PICK k : DOMAIN tasks' = {k} /\ tasks'[k] = Started(parked[1], token')
    BY <1>3, RetryIs
  <2>3. Running(tasks') = 1
    BY <2>2 DEF Running
  <2>4. PICK n : n = Waiting(chain)
    OBVIOUS
  <2>5. n \in Nat
    BY <2>4, RestIs
  <2>6. Len(s) = 1 + 0 + n /\ s[1] = parked[1] /\ \A j \in 1..n : s[1 + 0 + j] = chain[j].act
    BY <2>1, <2>4 DEF IsRest
  <2>7. Len(s) = 0 + 1 + n /\ \A j \in 1..n : s[0 + 1 + j] = chain[j].act
    BY <2>5, <2>6
  <2>8. tasks'[k].act = parked[1]
    <3>1. parked[1] \in SyncActions
      BY <1>3, RetryIs
    <3> QED BY <2>2, <3>1, StartedSuits
  <2>9. \A j \in 1..0 : FALSE
    OBVIOUS
  <2> QED BY <1>1, <2>2, <2>3, <2>4, <2>6, <2>7, <2>8, <2>9 DEF IsRest
<1> QED BY <1>2, <1>3

-----------------------------------------------------------------------------
(* A step of a task *)

\* When no action is left, no task runs.
LEMMA RestLen ==
  ASSUME Safe, NEW s, IsRest(s, parked, tasks, chain)
  PROVE  Len(s) \in Nat /\ (Len(s) = 0 => DOMAIN tasks = {})
<1>1. PICK m, k, n : m = Len(parked) /\ k = Running(tasks) /\ n = Waiting(chain)
  OBVIOUS
<1>2. m \in Nat /\ k \in {0, 1} /\ n \in Nat
  BY <1>1, RestIs
<1>3. Len(s) = m + k + n
  BY <1>1 DEF IsRest
<1>4. DOMAIN tasks # {} => k = 1
  BY <1>1 DEF Running
<1>5. m + k + n \in Nat /\ (m + k + n = 0 => k # 1)
  BY <1>2
<1> QED BY <1>3, <1>4, <1>5

\* Every path is short enough where it begins.
LEMMA ReachSteady ==
  ASSUME NEW tree, NEW now, NEW s, Len(s) \in Nat, Reaches(tree, now, s)
  PROVE  PathsOf(tree) \subseteq Paths
<1>1. PICK c : c[0] = tree /\ LeadBy(c, now, s)
  BY DEF Reaches
<1>2. PICK l \in Nat : l = Len(s)
  OBVIOUS
<1>3. 0 \in 0..l
  OBVIOUS
<1> QED BY <1>1, <1>2, <1>3 DEF LeadBy

\* What waits has a token.
LEMMA ChainTokens ==
  ASSUME Safe, NEW j \in DOMAIN chain, chain[j] # Save
  PROVE  chain[j].token \in Nat
<1>1. chain[j] \in Fresh
  BY RestIs
<1>2. PICK act \in SyncActions, n \in Nat : chain[j] = Started(act, n)
  BY <1>1 DEF Fresh
<1> QED BY <1>2, StartedSuits

\* A task keeps its token.
LEMMA ElderGoes ==
  ASSUME Safe, Elder(chain, tasks, token), NEW i \in DOMAIN tasks, NEW r, Goes(i, r),
         r.do = "end" \/ r.token = tasks[i].token, UNCHANGED <<chain, token>>
  PROVE  Elder(chain', tasks', token')
<1>1. CASE r.do = "end"
  <2>1. DOMAIN tasks' = {}
    BY <1>1, TaskIs
  <2> QED BY <2>1 DEF Elder
<1>2. CASE r.do # "end"
  <2>1. DOMAIN tasks' = {i} /\ tasks'[i] = r
    BY <1>2, TaskIs
  <2> QED BY <1>2, <2>1 DEF Elder
<1> QED BY <1>1, <1>2

\* Nothing is parked: the task does what the first of the actions asks for.
LEMMA FreshCourse ==
  ASSUME PlainWindows, Sane, Coursed, ~panicked', past' = {}, parked = << >>,
         NEW i \in DOMAIN tasks, TaskStep(i) \/ Fails(i), ~Unauthorized(i)
  PROVE  Coursed'
<1>1. PICK s : IsRest(s, parked, tasks, chain) /\ Reaches(TreeOn(drive), Local, s)
  BY DEF Coursed
<1>2. Safe /\ AllRooted(drive) /\ Aware(tasks[i]) /\ SavesLast(chain) /\ Elder(chain, tasks, token)
  BY DEF Sane, Coursed
<1>3. PICK tree, now, act : tree = TreeOn(drive) /\ now = Local /\ act = tasks[i].act
  OBVIOUS
<1>4. Reaches(tree, now, s)
  BY <1>1, <1>3
<1>5. Len(s) \in Nat /\ Len(s) # 0
  BY <1>1, <1>2, RestLen
<1>6. s[1] = act
  <2>1. s[Len(parked) + 1] = act
    BY <1>1, <1>3 DEF IsRest
  <2>2. Len(parked) + 1 = 1
    OBVIOUS
  <2> QED BY <2>1, <2>2
<1>7. /\ PathsOf(Performed(tree, now, act)) \subseteq Paths
      /\ \A new : /\ PathsOf(new) \subseteq Paths
                  /\ Performed(new, now, act) = Performed(tree, now, act)
                  => Reaches(new, now, s)
      /\ \A q : Short(s, q, 0) => Reaches(Performed(tree, now, act), now, q)
  BY <1>4, <1>5, <1>6, FirstDone
<1>8. Steady
  BY <1>2, <1>3, <1>4, <1>5, ReachSteady DEF Steady
<1>9. PathsOf(Performed(TreeOn(drive), Local, tasks[i].act)) \subseteq Paths
  BY <1>3, <1>7
<1>10. StepsOn(i) /\ UNCHANGED <<scenario, window, chain, parked, token, live>>
  BY <1>2, <1>8, <1>9, TaskStepsOn
<1>11. Local' = now
  BY <1>3, <1>10 DEF Local
<1>12. PICK r :
         /\ Goes(i, r) /\ r.act = act /\ r.token = tasks[i].token /\ AllRooted(drive')
         /\ r.do = "end" => TreeOn(drive') = Performed(tree, now, act)
         /\ r.do # "end" =>
              /\ Aware(r) /\ PathsOf(TreeOn(drive')) \subseteq Paths
              /\ Performed(TreeOn(drive'), now, act) = Performed(tree, now, act)
  BY <1>3, <1>10 DEF StepsOn
<1>13. \E q : IsRest(q, parked', tasks', chain') /\ Reaches(TreeOn(drive'), Local', q)
  <2>1. CASE r.do = "end"
    <3>1. PICK q : Short(s, q, Len(parked)) /\ IsRest(q, parked', tasks', chain')
      BY <1>1, <1>2, <1>10, <1>12, <2>1, RestDone
    <3>2. Len(parked) = 0
      OBVIOUS
    <3>3. Reaches(TreeOn(drive'), now, q)
      BY <1>7, <1>12, <2>1, <3>1, <3>2
    <3> QED BY <1>11, <3>1, <3>3
  <2>2. CASE r.do # "end"
    <3>1. IsRest(s, parked', tasks', chain')
      BY <1>1, <1>2, <1>3, <1>10, <1>12, <2>2, RestStays
    <3>2. Reaches(TreeOn(drive'), now, s)
      BY <1>7, <1>12, <2>2
    <3> QED BY <1>11, <3>1, <3>2
  <2> QED BY <2>1, <2>2
<1>14. (\A k \in DOMAIN tasks : Aware(tasks[k]))'
  <2>1. \A k \in DOMAIN tasks' : Aware(tasks'[k])
    BY <1>2, <1>12, TaskIs
  <2> QED BY <1>3, <1>11, <2>1 DEF Aware, IsFile
<1>15. Elder(chain', tasks', token') /\ SavesLast(chain')
  BY <1>2, <1>10, <1>12, ElderGoes
<1>16. Held'
  BY <1>10 DEF Held
<1> QED BY <1>12, <1>13, <1>14, <1>15, <1>16 DEF Coursed

\* The token has expired: the action is parked, and all that is behind it will be.
LEMMA ParkedCourse ==
  ASSUME Safe, Coursed, NEW i \in DOMAIN tasks, Unauthorized(i)
  PROVE  Coursed'
<1>1. PICK s : IsRest(s, parked, tasks, chain) /\ Reaches(TreeOn(drive), Local, s)
  BY DEF Coursed
<1>2. /\ UNCHANGED <<scenario, window, drive, chain, token, live>> /\ Expired(tasks[i])
      /\ Goes(i, Ended(tasks[i]))
  BY DEF Unauthorized, remote
<1>3. IsTask(tasks[i]) /\ Ended(tasks[i]).do = "end" /\ tasks[i].token \in Nat /\ token \in Nat
  BY TaskIsOK, EndedIs DEF IsTask, Safe, TypeOK
<1>4. DOMAIN tasks' = {}
  BY <1>2, <1>3, TaskIs
<1>5. Elder(chain, tasks, token) /\ SavesLast(chain) /\ AllRooted(drive)
  BY DEF Coursed
<1>6. ASSUME NEW j \in DOMAIN chain, chain[j] # Save PROVE Expired(chain[j])
  <2>1. PICK a, b, c : a = chain[j].token /\ b = tasks[i].token /\ c = token
    OBVIOUS
  <2>2. a \in Nat /\ b \in Nat /\ c \in Nat /\ a <= b /\ (b < c \/ ~live)
    BY <1>2, <1>3, <1>5, <1>6, <2>1, ChainTokens DEF Elder, Expired
  <2>3. a < c \/ ~live
    BY <2>2
  <2> QED BY <2>1, <2>3 DEF Expired
<1>7. (\A j \in DOMAIN chain : chain[j] # Save => Expired(chain[j]))'
  BY <1>2, <1>6 DEF Expired
<1>8. Held'
  BY <1>4, <1>7 DEF Held
<1>9. Elder(chain', tasks', token')
  BY <1>2, <1>3, <1>5, ElderGoes
<1>10. IsRest(s, parked', tasks', chain')
  BY <1>1, RestParked
<1>11. Reaches(TreeOn(drive'), Local', s)
  BY <1>1, <1>2 DEF Local
<1> QED BY <1>2, <1>4, <1>5, <1>8, <1>9, <1>10, <1>11 DEF Coursed

\* Something is parked: no call succeeds, and only what is there already is done.
LEMMA LateStep ==
  ASSUME Safe, NEW i \in DOMAIN tasks, Late(tasks[i]), past' = {},
         TaskStep(i) \/ Fails(i), ~Unauthorized(i)
  PROVE  Look(i) \/ PassBy(i)
<1>1. Expired(tasks[i]) /\ tasks[i].do # "forget"
  BY DEF Late
<1>2. ~Fails(i)
  BY DEF Fails, Happens
<1>3. ~Find(i) /\ ~Refused(i) /\ ~Forget(i)
  BY <1>1 DEF Find, Refused, Forget
<1>4. ~Make(i) /\ ~Create(i) /\ ~Update(i) /\ ~Move(i) /\ ~Delete(i)
  BY <1>1 DEF Make, Create, Update, Move, Delete, Succeeds
<1> QED BY <1>2, <1>3, <1>4 DEF TaskStep

\* Something is parked: no call succeeds, and what is left stays so.
LEMMA LateCourse ==
  ASSUME PlainWindows, Sane, Coursed, past' = {}, parked # << >>,
         NEW i \in DOMAIN tasks, TaskStep(i) \/ Fails(i), ~Unauthorized(i)
  PROVE  Coursed'
<1>1. PICK s : IsRest(s, parked, tasks, chain) /\ Reaches(TreeOn(drive), Local, s)
  BY DEF Coursed
<1>2. /\ Safe /\ Windowed /\ TypeOK /\ AllRooted(drive) /\ Aware(tasks[i]) /\ SavesLast(chain)
      /\ Elder(chain, tasks, token) /\ Late(tasks[i])
  BY DEF Sane, Safe, Coursed, Held
<1>3. Look(i) \/ PassBy(i)
  BY <1>2, LateStep
<1>4. UNCHANGED <<scenario, window, drive, chain, parked, token, live>>
  BY <1>3 DEF Look, PassBy, remote, session
<1>5. PICK r : Looks(i, r)
  BY <1>2, <1>3, LookLooks
<1>6. PICK t : t = tasks[i]
  OBVIOUS
<1>7. /\ Goes(i, r) /\ r.act = t.act /\ r.token = t.token /\ t.act \in Acts /\ Suits(t)
      /\ Local' = Local
  BY <1>2, <1>4, <1>5, <1>6 DEF Looks, Windowed, Local
<1>8. /\ r.do = "end" => r.act.kind = "EnsureFolder" /\ r.act.to \in PathsOf(TreeOn(drive))
      /\ r.do # "end" => Aware(r) /\ Late(r)
  <2>1. ASSUME r.do = "end" PROVE r.act.kind = "EnsureFolder" /\ r.act.to \in PathsOf(TreeOn(drive))
    <3>1. /\ t.goal = "folder" \/ (t.goal = "file" /\ ~IsFile(t.act.to))
          /\ r.act.to \in PathsOf(TreeOn(drive))
      BY <1>5, <1>6, <1>7, <2>1 DEF Looks
    <3>2. CASE t.goal = "folder"
      BY <1>7, <3>1, <3>2 DEF Suits
    <3>3. CASE t.goal = "file" /\ ~IsFile(t.act.to)
      <4>1. t.act.kind = "Upload"
        BY <1>2, <1>6, <3>3 DEF Late, Uploading
      <4>2. IsFile(t.act.to)
        BY <1>2, <1>7, <4>1, PlainAct DEF Deletes, IsFile
      <4> QED BY <3>3, <4>2
    <3> QED BY <3>1, <3>2, <3>3
  <2>2. ASSUME r.do # "end" PROVE Aware(r) /\ Late(r)
    BY <1>2, <1>5, <1>6, <1>7, <2>2 DEF Looks, Late, Expired
  <2> QED BY <2>1, <2>2
<1>9. (\A k \in DOMAIN tasks : Aware(tasks[k]))'
  <2>1. \A k \in DOMAIN tasks' : Aware(tasks'[k])
    BY <1>2, <1>7, <1>8, TaskIs
  <2> QED BY <1>7, <2>1 DEF Aware, IsFile
<1>10. Held'
  <2>1. \A k \in DOMAIN tasks' : Late(tasks'[k])
    BY <1>2, <1>7, <1>8, TaskIs
  <2>2. (\A k \in DOMAIN tasks : Late(tasks[k]))'
    BY <1>4, <2>1 DEF Late, Expired
  <2>3. (\A j \in DOMAIN chain : chain[j] # Save => Expired(chain[j]))'
    BY <1>4 DEF Coursed, Held, Expired
  <2> QED BY <2>2, <2>3 DEF Held
<1>11. Elder(chain', tasks', token') /\ SavesLast(chain')
  BY <1>2, <1>4, <1>6, <1>7, ElderGoes
<1>12. \E q : IsRest(q, parked', tasks', chain') /\ Reaches(TreeOn(drive'), Local', q)
  <2>1. CASE r.do = "end"
    <3>1. s[Len(parked) + 1] = t.act /\ Len(s) \in Nat
      BY <1>1, <1>2, <1>4, <1>6, <1>7, <2>1, RestDone
    <3>2. PICK q : Short(s, q, Len(parked)) /\ IsRest(q, parked', tasks', chain')
      BY <1>1, <1>2, <1>4, <1>7, <2>1, RestDone
    <3>3. \A j \in 1..Len(s) : s[j] \in Acts
      BY <1>1, <1>2, RestActs
    <3>4. PICK tree, m : tree = TreeOn(drive) /\ m = Len(parked)
      OBVIOUS
    <3>5. IsPairs(tree)
      BY <3>4, TreeOnIs DEF IsNamed
    <3>6. s[m + 1].kind = "EnsureFolder" /\ s[m + 1].to \in PathsOf(tree)
      BY <1>7, <1>8, <2>1, <3>1, <3>4
    <3>7. Reaches(tree, Local, q)
      BY <1>1, <1>2, <3>1, <3>2, <3>3, <3>4, <3>5, <3>6, FolderLeftOut
    <3> QED BY <1>4, <1>7, <3>2, <3>4, <3>7
  <2>2. CASE r.do # "end"
    <3>1. IsRest(s, parked', tasks', chain')
      BY <1>1, <1>2, <1>4, <1>6, <1>7, <2>2, RestStays
    <3> QED BY <1>1, <1>4, <1>7, <3>1
  <2> QED BY <2>1, <2>2
<1> QED BY <1>2, <1>4, <1>9, <1>10, <1>11, <1>12 DEF Coursed

-----------------------------------------------------------------------------
(* The other steps *)

\* A task that is started is at its first path.
LEMMA StartedAware ==
  ASSUME NEW act \in SyncActions, NEW n
  PROVE  LET t == Started(act, n)
         IN /\ Aware(t) /\ t.do = "look" /\ t.token = n
            /\ Uploading(t) => t.act.kind = "Upload"
<1>1. PICK t : t = Started(act, n)
  OBVIOUS
<1>2. t.act = act /\ t.do = "look" /\ t.token = n /\ t.goal = FirstGoal(act)
  BY <1>1 DEF Started
<1>3. /\ FirstGoal(act) \in {"source", "file", "folder"}
      /\ FirstGoal(act) = "file" => act.kind = "Upload"
  BY DEF FirstGoal, SyncActions, ActionKinds
<1> QED BY <1>1, <1>2, <1>3 DEF Aware, Uploading

\* What is known of the folder and of Drive stays so.
LEMMA SameCourse ==
  ASSUME Coursed, UNCHANGED <<scenario, window, drive>>
  PROVE  /\ Local' = Local /\ AllRooted(drive')
         /\ \A s : Reaches(TreeOn(drive), Local, s) => Reaches(TreeOn(drive'), Local', s)
         /\ \A t : Aware(t) => Aware(t)'
BY DEF Coursed, Local, Aware, IsFile

\* The chain begins its next task, or saves the index.
LEMMA ChainCourse ==
  ASSUME Safe, Alone', Coursed, NextOfChain
  PROVE  Coursed'
<1>1. PICK s : IsRest(s, parked, tasks, chain) /\ Reaches(TreeOn(drive), Local, s)
  BY DEF Coursed
<1>2. UNCHANGED <<scenario, window, drive, parked, token, live>>
  BY DEF NextOfChain, remote, session
<1>3. SavesLast(chain) /\ Elder(chain, tasks, token) /\ Held /\ \A k \in DOMAIN tasks : Aware(tasks[k])
  BY DEF Coursed
<1>4. /\ SavesLast(chain')
      /\ \A j \in DOMAIN chain' : j + 1 \in DOMAIN chain /\ chain'[j] = chain[j + 1]
  BY <1>3, ChainIs
<1>5. IsRest(s, parked', tasks', chain')
  BY <1>1, <1>3, RestBegins
<1>6. Local' = Local /\ AllRooted(drive') /\ Reaches(TreeOn(drive'), Local', s)
      /\ \A t : Aware(t) => Aware(t)'
  BY <1>1, <1>2, SameCourse
<1>7. CASE Head(chain) = Save
  <2>1. tasks' = tasks /\ chain' = << >>
    BY <1>3, <1>7, ChainIs DEF NextOfChain
  <2>2. DOMAIN chain' = {}
    BY <2>1
  <2>3. (\A k \in DOMAIN tasks : Aware(tasks[k]))'
    BY <1>3, <1>6, <2>1
  <2>4. Elder(chain', tasks', token')
    BY <2>2 DEF Elder
  <2>5. Held'
    BY <1>2, <1>3, <2>1, <2>2 DEF Held, Late, Expired
  <2> QED BY <1>4, <1>5, <1>6, <2>3, <2>4, <2>5 DEF Coursed
<1>8. CASE Head(chain) # Save
  <2>1. PICK h : h = Head(chain)
    OBVIOUS
  <2>2. /\ DOMAIN tasks' = {InChain} /\ tasks'[InChain] = h /\ chain[1] = h /\ h # Save
        /\ chain # << >>
    BY <1>3, <1>8, <2>1, ChainIs, BeginsAlone DEF NextOfChain
  <2>3. 1 \in DOMAIN chain
    BY <2>2, RestIs
  <2>4. PICK act \in SyncActions, n \in Nat : h = Started(act, n)
    BY <2>2, <2>3, RestIs DEF Fresh
  <2>5. Aware(h) /\ h.do = "look" /\ (Uploading(h) => h.act.kind = "Upload") /\ h.token \in Nat
    BY <2>4, StartedAware
  <2>6. (\A k \in DOMAIN tasks : Aware(tasks[k]))'
    BY <1>6, <2>2, <2>5
  <2>7. ASSUME NEW j \in DOMAIN chain', chain'[j] # Save
        PROVE  /\ chain'[j].token <= token' /\ \A k \in DOMAIN tasks' : chain'[j].token <= tasks'[k].token
               /\ \A l \in DOMAIN chain' : chain'[l] # Save => chain'[l].token = chain'[j].token
    <3>1. PICK i : i = j + 1 /\ i \in DOMAIN chain /\ chain'[j] = chain[i]
      BY <1>4, <2>7
    <3>2. chain[i].token <= token /\ h.token = chain[i].token
      BY <1>3, <2>2, <2>3, <2>7, <3>1 DEF Elder
    <3>3. \A k \in DOMAIN tasks' : tasks'[k].token = h.token
      BY <2>2
    <3>4. h.token <= h.token
      BY <2>5
    <3>5. ASSUME NEW l \in DOMAIN chain', chain'[l] # Save PROVE chain'[l].token = chain[i].token
      <4>1. PICK m : m = l + 1 /\ m \in DOMAIN chain /\ chain'[l] = chain[m]
        BY <1>4, <3>5
      <4> QED BY <1>3, <2>7, <3>1, <3>5, <4>1 DEF Elder
    <3> QED BY <1>2, <3>1, <3>2, <3>3, <3>4, <3>5
  <2>8. Elder(chain', tasks', token')
    BY <2>7 DEF Elder
  <2>9. ASSUME parked # << >> PROVE Late(h) /\ \A j \in DOMAIN chain' : chain'[j] # Save => Expired(chain'[j])
    BY <1>3, <1>4, <2>2, <2>3, <2>5, <2>9 DEF Held, Late
  <2>10. Held'
    BY <1>2, <2>2, <2>9 DEF Held, Late, Expired
  <2> QED BY <1>4, <1>5, <1>6, <2>6, <2>8, <2>10 DEF Coursed
<1> QED BY <1>7, <1>8

\* A token expires, which changes nothing of what is left.
LEMMA ExpiryCourse ==
  ASSUME Coursed, TokenExpires \/ UNCHANGED vars
  PROVE  Coursed'
<1>1. /\ UNCHANGED <<scenario, window, drive, parked, chain, tasks, token>>
      /\ live' = live \/ live' = FALSE
  BY DEF TokenExpires, vars, remote, session
<1>2. PICK s : IsRest(s, parked, tasks, chain) /\ Reaches(TreeOn(drive), Local, s)
  BY DEF Coursed
<1>3. Local' = Local /\ AllRooted(drive') /\ Reaches(TreeOn(drive'), Local', s)
      /\ \A t : Aware(t) => Aware(t)'
  BY <1>1, <1>2, SameCourse
<1>4. SavesLast(chain') /\ Elder(chain', tasks', token') /\ IsRest(s, parked', tasks', chain')
  BY <1>1, <1>2 DEF Coursed
<1>5. (\A k \in DOMAIN tasks : Aware(tasks[k]))'
  BY <1>1, <1>3 DEF Coursed
<1>6. \A t : Expired(t) => Expired(t)'
  BY <1>1 DEF Expired
<1>7. Held'
  BY <1>1, <1>6 DEF Coursed, Held, Late
<1> QED BY <1>3, <1>4, <1>5, <1>7 DEF Coursed

\* What was parked is tried again.
LEMMA RetryCourse ==
  ASSUME Safe, Alone', Windowed, Coursed, Refreshed
  PROVE  Coursed'
<1>1. PICK s : IsRest(s, parked, tasks, chain) /\ Reaches(TreeOn(drive), Local, s)
  BY DEF Coursed
<1>2. /\ UNCHANGED <<scenario, window, drive, chain>> /\ parked' = << >>
      /\ token \in Nat /\ token' = token + 1
  BY DEF Refreshed, remote, Safe, TypeOK
<1>3. /\ SavesLast(chain) /\ Elder(chain, tasks, token)
      /\ \A k \in DOMAIN tasks : Aware(tasks[k])
  BY DEF Coursed
<1>4. IsRest(s, parked', tasks', chain')
  BY <1>1, RestRetried
<1>5. Local' = Local /\ AllRooted(drive') /\ Reaches(TreeOn(drive'), Local', s)
      /\ \A t : Aware(t) => Aware(t)'
  BY <1>1, <1>2, SameCourse
<1>6. ASSUME NEW k \in DOMAIN tasks'
      PROVE  /\ Aware(tasks'[k])
             /\ tasks'[k].token = token' \/ (k \in DOMAIN tasks /\ tasks'[k] = tasks[k])
  <2>1. CASE parked = << >>
    BY <1>3, <1>6, <2>1, RetryIs
  <2>2. CASE parked # << >>
    <3>1. tasks'[k] = Started(parked[1], token')
      BY <1>6, <2>2, RetryIs
    <3>3. parked[1] \in SyncActions
      BY <2>2, RetryIs
    <3> QED BY <3>1, <3>3, StartedAware
  <2> QED BY <2>1, <2>2
<1>7. (\A k \in DOMAIN tasks : Aware(tasks[k]))'
  BY <1>5, <1>6
<1>8. ASSUME NEW j \in DOMAIN chain, chain[j] # Save
      PROVE  /\ chain[j].token <= token' /\ \A k \in DOMAIN tasks' : chain[j].token <= tasks'[k].token
             /\ \A l \in DOMAIN chain : chain[l] # Save => chain[l].token = chain[j].token
  <2>1. chain[j].token \in Nat /\ chain[j].token <= token
    BY <1>3, <1>8, ChainTokens DEF Elder
  <2>2. chain[j].token <= token'
    BY <1>2, <2>1
  <2> QED BY <1>3, <1>6, <1>8, <2>2 DEF Elder
<1>9. Elder(chain', tasks', token')
  BY <1>2, <1>8 DEF Elder
<1>10. Held'
  BY <1>2 DEF Held
<1>11. SavesLast(chain')
  BY <1>2, <1>3
<1> QED BY <1>4, <1>5, <1>7, <1>9, <1>10, <1>11 DEF Coursed

\* Nothing was under way.
LEMMA RestartCourse ==
  ASSUME Coursed, Restart, past' = {}
  PROVE  Coursed'
<1>1. Quiet
  BY DEF Restart, Happens
<1>2. /\ UNCHANGED <<scenario, window, drive, parked, tasks, chain>>
      /\ chain = << >> /\ tasks = << >> /\ parked = << >>
  BY <1>1 DEF Restart, remote, Quiet
<1>3. PICK s : IsRest(s, parked, tasks, chain) /\ Reaches(TreeOn(drive), Local, s)
  BY DEF Coursed
<1>4. Local' = Local /\ AllRooted(drive') /\ Reaches(TreeOn(drive'), Local', s)
  BY <1>2, <1>3, SameCourse
<1>5. IsRest(s, parked', tasks', chain') /\ SavesLast(chain')
  BY <1>2, <1>3 DEF SavesLast
<1>6. DOMAIN chain' = {} /\ DOMAIN tasks' = {}
  BY <1>2
<1>7. Elder(chain', tasks', token') /\ Held'
  BY <1>2, <1>6 DEF Elder, Held
<1> QED BY <1>4, <1>5, <1>6, <1>7 DEF Coursed

\* A window ends: what is on Drive is the folder as it was, from where its actions lead on.
LEMMA WindowCourse ==
  ASSUME WindowsLeadOn, Safe, Coursed, WindowEnds, past' = {}
  PROVE  Coursed'
<1>1. /\ window \in Nat /\ window' = window + 1 /\ window < Len(scenario.windows)
      /\ UNCHANGED <<scenario, drive, tasks, parked, token>>
      /\ chain = << >> /\ tasks = << >> /\ parked = << >>
  <2>1. ASSUME parked # << >> PROVE FALSE
    <3>1. "overtaken" \in past'
      BY <2>1 DEF WindowEnds
    <3> QED BY <3>1
  <2>2. /\ window \in Nat /\ window' = window + 1 /\ window < Len(scenario.windows)
        /\ UNCHANGED <<scenario, drive, tasks, parked, token>>
        /\ chain = << >> /\ tasks = << >>
    BY ArchiveAssumption DEF WindowEnds, remote, session, Safe, TypeOK
  <2> QED BY <2>1, <2>2
<1>2. PICK s : IsRest(s, parked, tasks, chain) /\ Reaches(TreeOn(drive), Local, s)
  BY DEF Coursed
<1>3. Len(s) = 0
  <2>1. Running(tasks) = 0 /\ Waiting(chain) = 0 /\ Len(parked) = 0
    BY <1>1 DEF Running, Waiting
  <2> QED BY <1>2, <2>1 DEF IsRest
<1>4. TreeOn(drive) = TreeOf(Local)
  BY <1>2, <1>3, NoneReach
<1>5. PICK w, n : w = scenario.windows[n] /\ n = window + 1
  OBVIOUS
<1>6. scenario \in Scenarios /\ n \in 1..Len(scenario.windows)
  BY <1>1, <1>5, ArchiveAssumption DEF Safe, TypeOK
<1>7. w.actions \in Seq(SyncActions)
  BY <1>5, <1>6, ArchiveAssumption
<1>8. LeadsOn(Local, w)
  <2>1. LeadsOn(IF n = 1 THEN scenario.before ELSE scenario.windows[n - 1].after, w)
    BY <1>5, <1>6 DEF WindowsLeadOn
  <2>2. (n = 1 <=> window = 0) /\ n - 1 = window
    BY <1>1, <1>5
  <2> QED BY <2>1, <2>2 DEF Local
<1>9. PICK before, acts, l : before = Local /\ acts = w.actions /\ l = Len(acts)
  OBVIOUS
<1>10. acts \in Seq(SyncActions) /\ l \in Nat /\ DOMAIN acts = 1..l
  BY <1>7, <1>9
<1>11. Reaches(TreeOf(before), w.after, acts)
  BY <1>8, <1>9, <1>10, LeadsOnReaches
<1>12. Local' = w.after
  <2>1. window' # 0
    BY <1>1
  <2> QED BY <1>1, <1>5, <2>1 DEF Local
<1>13. Reaches(TreeOn(drive'), Local', acts)
  BY <1>1, <1>4, <1>9, <1>11, <1>12
<1>14. PICK begun : begun = [j \in DOMAIN acts |-> Started(acts[j], token)]
  OBVIOUS
<1>15. chain' = Append(begun, Save)
  BY <1>5, <1>9, <1>14 DEF WindowEnds
<1>16. begun \in Seq(Fresh) /\ Len(begun) = l
  <2>1. \A j \in DOMAIN acts : acts[j] \in SyncActions
    BY <1>10
  <2>2. \A j \in DOMAIN acts : Started(acts[j], token) \in Fresh
    BY <2>1 DEF Safe, TypeOK, Fresh
  <2> QED BY <1>10, <1>14, <2>2
<1>17. /\ Len(chain') = l + 1 /\ DOMAIN chain' = 1..l + 1 /\ chain'[l + 1] = Save
       /\ \A j \in 1..l : chain'[j] = begun[j]
  BY <1>10, <1>15, <1>16
<1>18. ASSUME NEW j \in 1..l
       PROVE  chain'[j] # Save /\ chain'[j].act = acts[j] /\ chain'[j].token = token
  <2>1. acts[j] \in SyncActions
    BY <1>10
  <2>2. chain'[j] = Started(acts[j], token)
    BY <1>10, <1>14, <1>17
  <2> QED BY <2>1, <2>2, StartedSuits
<1>19. \A j \in 1..l + 1 : j = l + 1 \/ (j \in 1..l /\ j # l + 1)
  BY <1>10
<1>20. SavesLast(chain')
  BY <1>17, <1>18, <1>19 DEF SavesLast
<1>21. DOMAIN tasks' = {} /\ Running(tasks') = 0 /\ parked' = << >> /\ Len(parked') = 0
  BY <1>1 DEF Running
<1>22. Elder(chain', tasks', token')
  <2>1. token \in Nat /\ token <= token
    BY DEF Safe, TypeOK
  <2> QED BY <1>1, <1>17, <1>18, <1>19, <1>21, <2>1 DEF Elder
<1>23. IsRest(acts, parked', tasks', chain')
  <2>1. chain' # << >>
    <3>1. l + 1 # 0
      BY <1>10
    <3> QED BY <1>17, <3>1
  <2>2. Waiting(chain') = (l + 1) - 1
    BY <1>17, <2>1 DEF Waiting
  <2>3. Len(acts) = 0 + 0 + ((l + 1) - 1) /\ (l + 1) - 1 = l
    BY <1>9, <1>10
  <2>4. \A j \in 1..l : acts[0 + 0 + j] = chain'[j].act
    BY <1>18
  <2>5. \A j \in 1..0 : FALSE
    OBVIOUS
  <2> QED BY <1>21, <2>2, <2>3, <2>4, <2>5 DEF IsRest
<1>24. Held'
  BY <1>21 DEF Held
<1>25. AllRooted(drive')
  BY <1>1 DEF Coursed
<1> QED BY <1>13, <1>20, <1>21, <1>22, <1>23, <1>24, <1>25 DEF Coursed

\* The initial sync has brought the folder to Drive.
LEMMA InitCourse ==
  ASSUME Init
  PROVE  Coursed
<1> DEFINE before == scenario.before
           D == DOMAIN before
<1>1. IsTree(before) /\ Local = before
  BY ArchiveAssumption DEF Init, Local
<1>2. PICK s : s = Walked(before)
  OBVIOUS
<1>3. Lists(s, D)
  BY <1>1, <1>2, WalkedLists
<1>4. PICK n \in Nat : n = Len(s) /\ DOMAIN s = 1..n
  BY <1>3 DEF Lists
<1>5. \A p \in D : p \in Paths /\ p # << >>
  BY <1>1 DEF IsTree
<1>6. /\ drive = [i \in 1..n |-> Object(IdAmong(s, Front(s[i])), Last(s[i]), before[s[i]])]
      /\ byPath = [p \in D |-> IdAmong(s, p)]
      /\ DOMAIN tasks = {} /\ chain = << >> /\ parked = << >> /\ tasks = << >>
  BY <1>2, <1>4 DEF Init
<1> HIDE DEF D, before
<1>7. /\ DOMAIN drive = 1..n /\ \A i \in 1..n : drive[i].content = before[s[i]]
      /\ DOMAIN byPath = D /\ \A p \in D : byPath[p] = IdAmong(s, p)
  BY <1>6 DEF Object
<1>8. \A i \in 1..n : s[i] \in D
  BY <1>3, <1>4 DEF Lists
<1>9. ASSUME NEW p \in D PROVE byPath[p] \in 1..n /\ s[byPath[p]] = p
  <2>1. \E i \in DOMAIN s : s[i] = p
    BY <1>3, <1>4 DEF Lists
  <2> QED BY <1>4, <1>5, <1>7, <2>1 DEF IdAmong
<1>10. \A i \in 1..n : byPath[s[i]] = i
  BY <1>3, <1>4, <1>8, <1>9 DEF Lists
<1>11. Leads(Now) /\ Complete(Now) /\ Covers(drive, entries) /\ NoTwin(entries) /\ Now.entries = entries
  BY <1>6, InitExact DEF Exact, IsSound, Now
<1>12. PICK ds : ds = drive
  OBVIOUS
<1>13. Reached(ds, Root) = Reached(entries, Root)
  BY <1>11, <1>12, CoversReached
<1>14. \A p \in D : <<p, byPath[p]>> \in Reached(ds, Root)
  BY <1>7, <1>11, <1>13 DEF Leads, Now
<1>15. \A p, o : <<p, o>> \in Reached(ds, Root) => p = << >> \/ (p \in D /\ o = byPath[p])
  <2>1. ASSUME NEW p, NEW o, <<p, o>> \in Reached(ds, Root), p # << >> PROVE p \in D /\ o = byPath[p]
    <3>1. p \in D
      BY <1>7, <1>11, <1>13, <2>1 DEF Complete, Known, Now
    <3>2. <<p, byPath[p]>> \in Reached(ds, Root)
      BY <1>14, <3>1
    <3>3. PICK es, q : es = entries /\ q = byPath[p]
      OBVIOUS
    <3> QED BY <1>11, <1>13, <2>1, <3>1, <3>2, <3>3, OneIdAtPath
  <2> QED BY <2>1
<1>16. AllRooted(drive)
  <2>1. ASSUME NEW i \in DOMAIN ds PROVE i \in Under(ds, Root)
    <3>1. <<s[i], i>> \in Reached(ds, Root)
      BY <1>7, <1>8, <1>10, <1>12, <1>14
    <3> QED BY <3>1, UnderIs
  <2> QED BY <1>12, <2>1 DEF AllRooted
<1>17. ASSUME NEW p, NEW c PROVE <<p, c>> \in TreeOn(ds) <=> <<p, c>> \in TreeOf(before)
  <2>1. <<p, c>> \in TreeOf(before) <=> p \in D /\ c = before[p]
    BY DEF TreeOf, D
  <2>0. \A q \in D : ds[byPath[q]].content = before[q]
    BY <1>7, <1>9, <1>12
  <2>3. ASSUME HasAt(ds, p, c) PROVE p \in D /\ c = before[p]
    <3>1. PICK o : <<p, o>> \in Reached(ds, Root) /\ p # << >> /\ ds[o].content = c
      BY <2>3 DEF HasAt
    <3> QED BY <1>15, <2>0, <3>1
  <2>4. ASSUME p \in D, c = before[p] PROVE HasAt(ds, p, c)
    BY <1>5, <1>14, <2>0, <2>4 DEF HasAt
  <2>2. HasAt(ds, p, c) <=> p \in D /\ c = before[p]
    BY <2>3, <2>4
  <2> QED BY <2>1, <2>2, TreeOnIs
<1>18. TreeOn(ds) = TreeOf(before)
  <2>1. IsPairs(TreeOn(ds))
    BY TreeOnIs DEF IsNamed
  <2>2. IsPairs(TreeOf(before))
    BY DEF IsPairs, TreeOf
  <2> QED BY <1>17, <2>1, <2>2, SamePairs
<1>19. PathsOf(TreeOf(before)) \subseteq Paths
  <2>1. PathsOf(TreeOf(before)) \subseteq D
    BY DEF PathsOf, TreeOf, D
  <2> QED BY <1>5, <2>1
<1>20. PICK now : now = before
  OBVIOUS
<1>21. Reaches(TreeOf(now), now, << >>)
  BY <1>19, <1>20, NowReaches
<1>22. Reaches(TreeOn(drive), Local, << >>)
  BY <1>1, <1>12, <1>18, <1>20, <1>21 DEF before
<1>23. IsRest(<< >>, parked, tasks, chain)
  <2>1. Running(tasks) = 0 /\ Waiting(chain) = 0 /\ Len(parked) = 0 /\ Len(<< >>) = 0
    BY <1>6 DEF Running, Waiting
  <2>2. \A j \in 1..0 : FALSE
    OBVIOUS
  <2> QED BY <1>6, <2>1, <2>2 DEF IsRest
<1>24. DOMAIN chain = {}
  BY <1>6
<1>25. SavesLast(chain) /\ Elder(chain, tasks, token) /\ Held
  BY <1>6, <1>24 DEF SavesLast, Elder, Held
<1> QED BY <1>6, <1>16, <1>22, <1>23, <1>25 DEF Coursed

\* Every step keeps the invariant.
LEMMA CourseStep ==
  ASSUME PlainWindows, WindowsLeadOn, Inv, Inv', SettledInv, ExactInv, WindowInv, SourcedInv,
         CourseInv, [Next]_vars
  PROVE  CourseInv'
<1> SUFFICES ASSUME past' = {} PROVE Coursed'
  BY DEF CourseInv
<1>1. Sane /\ Safe /\ Windowed /\ Coursed /\ ~panicked' /\ Alone'
  BY PastGrows DEF Inv, Safe, SettledInv, ExactInv, WindowInv, SourcedInv, CourseInv, Sane
<1>2. ASSUME NEW i \in DOMAIN tasks, TaskStep(i) \/ Fails(i) PROVE Coursed'
  <2>1. CASE Unauthorized(i)
    BY <1>1, <2>1, ParkedCourse
  <2>2. CASE ~Unauthorized(i) /\ parked = << >>
    BY <1>1, <1>2, <2>2, FreshCourse
  <2>3. CASE ~Unauthorized(i) /\ parked # << >>
    BY <1>1, <1>2, <2>3, LateCourse
  <2> QED BY <2>1, <2>2, <2>3
<1>3. CASE WindowEnds
  BY <1>1, <1>3, WindowCourse
<1>4. CASE NextOfChain
  BY <1>1, <1>4, ChainCourse
<1>5. CASE TokenExpires \/ UNCHANGED vars
  BY <1>1, <1>5, ExpiryCourse
<1>6. CASE Refreshed
  BY <1>1, <1>6, RetryCourse
<1>7. CASE Restart
  BY <1>1, <1>7, RestartCourse
<1> QED BY <1>2, <1>3, <1>4, <1>5, <1>6, <1>7 DEF Next

\* When nothing is left to do, Drive has what the folder has.
LEMMA CourseMirrors ==
  ASSUME CourseInv PROVE Mirrors
<1> SUFFICES ASSUME Quiet, past = {} PROVE OnDrive = TreeOf(Local)
  BY DEF Mirrors
<1>1. PICK s : IsRest(s, parked, tasks, chain) /\ Reaches(TreeOn(drive), Local, s)
  BY DEF CourseInv, Coursed
<1>2. Running(tasks) = 0 /\ Waiting(chain) = 0 /\ Len(parked) = 0
  BY DEF Quiet, Running, Waiting
<1>3. Len(s) = 0
  BY <1>1, <1>2 DEF IsRest
<1> QED BY <1>1, <1>3, NoneReach, OnDriveIsTree

(* Drive has the files and folders of the watched folder, with their content, when       *)
(* nothing is under way and nothing went wrong but tokens that expired: each task of     *)
(* on_sync_actions does to Drive what its action stands for, and what retry_intents      *)
(* starts again comes in its place, before the rest of its window.  For any folders, and *)
(* any windows that Watcher gives.                                                       *)
THEOREM DriveMirrorsFolder == ASSUME PlainWindows, WindowsLeadOn PROVE Spec => []Mirrors
<1>1. Init => Inv /\ SettledInv /\ ExactInv /\ WindowInv /\ SourcedInv /\ CourseInv
  <2>1. Init => Settled
    BY DEF Init, Settled
  <2>2. Init => Sources
    BY DEF Init, Sources
  <2> QED BY <2>1, <2>2, InitSafe, InitExact, InitWindow, InitCourse
          DEF Inv, SettledInv, ExactInv, SourcedInv, CourseInv
<1>2. Inv /\ [Next]_vars => Inv'
  BY SafeStep
<1>3. Inv /\ Inv' /\ SettledInv /\ [Next]_vars => SettledInv'
  BY SettledStep
<1>4. Inv /\ Inv' /\ SettledInv /\ ExactInv /\ [Next]_vars => ExactInv'
  BY ExactStep
<1>5. Inv /\ Inv' /\ WindowInv /\ [Next]_vars => WindowInv'
  BY WindowStep
<1>6. ASSUME Inv, Inv', SettledInv, ExactInv, WindowInv, SourcedInv, [Next]_vars
      PROVE  SourcedInv'
  BY <1>6, SourcedStep
<1>7. ASSUME Inv, Inv', SettledInv, ExactInv, WindowInv, SourcedInv, CourseInv, [Next]_vars
      PROVE  CourseInv'
  BY <1>7, CourseStep
<1>8. CourseInv => Mirrors
  BY CourseMirrors
<1> QED BY <1>1, <1>2, <1>3, <1>4, <1>5, <1>6, <1>7, <1>8, PTL DEF Spec
=============================================================================
