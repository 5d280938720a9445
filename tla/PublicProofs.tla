---------------------------- MODULE PublicProofs ----------------------------
(***************************************************************************)
(* Proofs about what the world outside reaches: a path of the public site  *)
(* leads to the best of the scripts that fit it, what the cache of routes  *)
(* answers was the best within its time, the cache keeps its bound, the    *)
(* engine of a script has one user at a time, and the tunnel that is open  *)
(* is the one that can be closed, for any clients, sites, paths, callers,  *)
(* faults and restarts.                                                    *)
(***************************************************************************)
EXTENDS ServerJS, Tunnel, FiniteSetTheorems, SequenceTheorems, WellFoundedInduction, TLAPS

-----------------------------------------------------------------------------
(* The walk over the site.                                                 *)

\* A set of numbers has a least one: what takes the place of induction.
LEMMA LeastNumber ==
    ASSUME NEW T \in SUBSET Nat, T # {}
    PROVE  \E m \in T : \A k \in T : m <= k
  <1>1. \E x \in T : \A y \in T : ~(<<y, x>> \in OpToRel(<, Nat))
    BY WFMin, NatLessThanWellFounded, Zenon
  <1>2. PICK x \in T : \A y \in T : ~(y < x)
    BY <1>1, Zenon DEF OpToRel
  <1>3. \A y \in T : x \in Nat /\ y \in Nat
    OBVIOUS
  <1> QED
    BY <1>2, <1>3

\* The directories with at most k segments to go.
Deep(files, path, k) == {d \in Dirs(files, path) : Len(path) - Len(d) <= k}
WalkTo(files, path, k, g) ==
    g = [d \in Deep(files, path, k) |-> Resolved(files, path, d, g)]

\* Directories are sequences of names.
LEMMA DirNames ==
    ASSUME NEW files \in SUBSET Seq(Segments), NEW path
    PROVE  Dirs(files, path) \subseteq Seq(Segments)
  <1>1. ASSUME NEW f \in files, NEW k \in 1..(Len(f) - 1) PROVE SubSeq(f, 1, k) \in Seq(Segments)
    OBVIOUS
  <1>2. <<>> \in Seq(Segments)
    OBVIOUS
  <1>3. ASSUME NEW d \in Dirs(files, path) PROVE d \in Seq(Segments)
    <2>1. CASE d = <<>>
      BY <1>2, <2>1
    <2>2. CASE d # <<>>
      <3>1. PICK f \in files : d \in {SubSeq(f, 1, k) : k \in 1..(Len(f) - 1)}
        BY <2>2 DEF Dirs
      <3> QED
        BY <1>1, <3>1
    <2> QED
      BY <2>1, <2>2
  <1> QED
    BY <1>3

\* They are no longer than the path.
LEMMA DirIs ==
    ASSUME NEW files \in SUBSET Seq(Segments), NEW path, NEW d \in Dirs(files, path)
    PROVE  d \in Seq(Segments) /\ Len(d) \in Nat /\ Len(d) <= Len(path)
  <1>1. d \in Seq(Segments)
    BY DirNames
  <1>2. Len(d) <= Len(path)
    BY DEF Dirs
  <1> QED
    BY <1>1, <1>2

\* A name more.
LEMMA OneName ==
    ASSUME NEW S, NEW d \in Seq(S), NEW name \in S
    PROVE  /\ Append(d, name) \in Seq(S) /\ Len(Append(d, name)) = Len(d) + 1 /\ Len(d) \in Nat
           /\ Append(d, name)[Len(d) + 1] = name /\ \A i \in 1..Len(d) : Append(d, name)[i] = d[i]
  OBVIOUS

\* One that exists is below the path's length or is not walked.
LEMMA SubDir ==
    ASSUME NEW files \in SUBSET Seq(Segments), NEW path \in Seq(Segments),
           NEW d \in Dirs(files, path), Len(d) # Len(path), NEW name \in Segments,
           IsDir(files, Append(d, name))
    PROVE  /\ Append(d, name) \in Dirs(files, path)
           /\ Len(Append(d, name)) = Len(d) + 1
           /\ Len(d) \in Nat /\ Len(path) \in Nat /\ Len(d) < Len(path)
  <1> DEFINE e == Append(d, name)
  <1>1. d \in Seq(Segments) /\ Len(d) \in Nat /\ Len(path) \in Nat /\ Len(d) <= Len(path)
    BY DirIs
  <1>2. Len(d) < Len(path)
    BY <1>1
  <1>3. e \in Seq(Segments) /\ Len(e) = Len(d) + 1
    BY <1>1, OneName
  <1>4. PICK f \in files : Len(f) > Len(e) /\ SubSeq(f, 1, Len(e)) = e
    BY DEF IsDir
  <1>5. f \in Seq(Segments) /\ Len(e) \in 1..(Len(f) - 1)
    BY <1>1, <1>3, <1>4
  <1> HIDE DEF e
  <1>6. e \in {SubSeq(f, 1, k) : k \in 1..(Len(f) - 1)}
    BY <1>4, <1>5
  <1>7. Len(e) <= Len(path)
    BY <1>1, <1>2, <1>3
  <1>8. e \in Dirs(files, path)
    BY <1>6, <1>7 DEF Dirs
  <1> QED
    BY <1>1, <1>2, <1>3, <1>8 DEF e

\* What a directory has depends on its subdirectories only.
LEMMA ResolvedBySubs ==
    ASSUME NEW files \in SUBSET Seq(Segments), NEW path \in Seq(Segments),
           NEW d \in Dirs(files, path), NEW g, NEW h,
           \A e \in Dirs(files, path) : Len(e) = Len(d) + 1 => g[e] = h[e]
    PROVE  Resolved(files, path, d, g) = Resolved(files, path, d, h)
  <1>1. CASE Len(d) = Len(path)
    BY <1>1 DEF Resolved
  <1>2. CASE Len(d) # Len(path)
    <2>1. \A name \in Segments : IsDir(files, Append(d, name)) => g[Append(d, name)] = h[Append(d, name)]
      BY <1>2, SubDir
    <2>2. path[Len(d) + 1] \in Segments
      <3>1. d \in Seq(Segments) /\ Len(d) \in Nat /\ Len(path) \in Nat /\ Len(d) <= Len(path)
        BY DirIs
      <3> QED
        BY <1>2, <3>1
    <2>3. ASSUME NEW name \in Segments
          PROVE  (IF IsDir(files, Append(d, name)) THEN g[Append(d, name)] ELSE NoRoute)
                   = (IF IsDir(files, Append(d, name)) THEN h[Append(d, name)] ELSE NoRoute)
      BY <2>1
    <2>4. "[p]" \in Segments
      BY ServerJSAssumption
    <2>5. Candidates(files, path, d, g) = Candidates(files, path, d, h)
      BY <2>2, <2>3, <2>4, Zenon DEF Candidates
    <2> QED
      BY <1>2, <2>5 DEF Resolved
  <1> QED
    BY <1>1, <1>2

\* The walk is there for the directories with at most k segments to go, for every k:
\* otherwise there would be a least k without one, and the one below could be extended.
LEMMA WalkToExists ==
    ASSUME NEW files \in SUBSET Seq(Segments), NEW path \in Seq(Segments), NEW k \in Nat
    PROVE  \E g : WalkTo(files, path, k, g)
  <1> DEFINE T == {m \in Nat : ~\E g : WalkTo(files, path, m, g)}
             D == Dirs(files, path)
  <1>1. SUFFICES ASSUME T # {} PROVE FALSE
    OBVIOUS
  <1>2. PICK m \in T : \A j \in T : m <= j
    <2>1. T \in SUBSET Nat
      OBVIOUS
    <2> HIDE DEF T
    <2> QED
      BY <1>1, <2>1, LeastNumber
  <1>3. m \in Nat /\ ~\E g : WalkTo(files, path, m, g)
    BY <1>2
  <1>4. D \subseteq Seq(Segments) /\ \A d \in D : Len(d) \in Nat /\ Len(path) \in Nat /\ Len(d) <= Len(path)
    BY DirIs
  <1>5. CASE m = 0
    <2> DEFINE G == [d \in Deep(files, path, 0) |-> Resolved(files, path, d, <<>>)]
    <2>1. ASSUME NEW d \in Deep(files, path, 0)
          PROVE  Resolved(files, path, d, <<>>) = Resolved(files, path, d, G)
      <3>1. d \in D /\ Len(path) - Len(d) <= 0
        BY DEF Deep
      <3>2. Len(d) = Len(path)
        BY <1>4, <3>1
      <3> QED
        BY <3>2 DEF Resolved
    <2>2. G = [d \in Deep(files, path, 0) |-> Resolved(files, path, d, G)]
      BY <2>1
    <2> HIDE DEF G
    <2>3. WalkTo(files, path, 0, G)
      BY <2>2 DEF WalkTo
    <2> QED
      BY <1>3, <1>5, <2>3
  <1>6. CASE m # 0
    <2>1. m - 1 \in Nat /\ m - 1 \notin T
      BY <1>2, <1>3, <1>6
    <2>2. PICK g : WalkTo(files, path, m - 1, g)
      BY <2>1
    <2> HIDE DEF T
    <2> DEFINE G == [d \in Deep(files, path, m) |-> Resolved(files, path, d, g)]
    <2>3. ASSUME NEW d \in Deep(files, path, m - 1) PROVE g[d] = G[d]
      <3>1. g[d] = Resolved(files, path, d, g)
        BY <2>2 DEF WalkTo
      <3>2. d \in Deep(files, path, m)
        BY <1>3, <1>4 DEF Deep
      <3> QED
        BY <3>1, <3>2
    <2>4. ASSUME NEW d \in Deep(files, path, m) PROVE Resolved(files, path, d, g) = Resolved(files, path, d, G)
      <3>1. d \in D /\ Len(path) - Len(d) <= m
        BY DEF Deep
      <3>2. ASSUME NEW e \in D, Len(e) = Len(d) + 1 PROVE g[e] = G[e]
        <4>1. Len(path) - Len(e) <= m - 1
          BY <1>3, <1>4, <3>1, <3>2
        <4>2. e \in Deep(files, path, m - 1)
          BY <4>1 DEF Deep
        <4> QED
          BY <2>3, <4>2
      <3> HIDE DEF G
      <3> QED
        BY <3>1, <3>2, ResolvedBySubs
    <2>5. G = [d \in Deep(files, path, m) |-> Resolved(files, path, d, G)]
      BY <2>4
    <2> HIDE DEF G
    <2>6. WalkTo(files, path, m, G)
      BY <2>5 DEF WalkTo
    <2> QED
      BY <1>3, <2>6
  <1> QED
    BY <1>5, <1>6

\* The recursive definition of the walk defines one.
LEMMA WalkIs ==
    ASSUME NEW files \in SUBSET Seq(Segments), NEW path \in Seq(Segments)
    PROVE  Walks(files, path) = [d \in Dirs(files, path) |-> Resolved(files, path, d, Walks(files, path))]
  <1>1. Len(path) \in Nat
    OBVIOUS
  <1>2. Deep(files, path, Len(path)) = Dirs(files, path)
    <2>1. \A d \in Dirs(files, path) : Len(d) \in Nat
      BY DirNames
    <2> QED
      BY <1>1, <2>1 DEF Deep
  <1>3. \E g : WalkTo(files, path, Len(path), g)
    BY <1>1, WalkToExists
  <1>4. \E g : g = [d \in Dirs(files, path) |-> Resolved(files, path, d, g)]
    BY <1>2, <1>3, Zenon DEF WalkTo
  <1> QED
    BY <1>4, Zenon DEF Walks

\* The scripts below a directory that fit the path, and those of a rank.
Below(files, p, d) ==
    {f \in files : Len(f) > Len(d) /\ (\A i \in 1..Len(d) : f[i] = d[i]) /\ Fits(f, p)}
OfRank(files, p, d, r) == {f \in Below(files, p, d) : Rank(f, Len(d) + 1) = r}

\* A directory that has taken its segments of the path.
Along(d, p) == Len(d) <= Len(p) /\ \A i \in 1..Len(d) : d[i] \in {p[i], "[p]"}

Site == {files \in SUBSET (Seq(Segments) \ {<<>>}) : Absent \notin files}
PlainPaths == {p \in Seq(Segments) \ {<<>>} : Plain(p)}

LEMMA Prefix ==
    ASSUME NEW S, NEW f \in Seq(S), NEW e \in Seq(S), Len(f) > Len(e)
    PROVE  SubSeq(f, 1, Len(e)) = e <=> \A i \in 1..Len(e) : f[i] = e[i]
  <1>1. Len(e) \in Nat /\ Len(f) \in Nat
    OBVIOUS
  <1>2. SubSeq(f, 1, Len(e)) \in Seq(S) /\ Len(SubSeq(f, 1, Len(e))) = Len(e)
    BY <1>1
  <1>3. \A i \in 1..Len(e) : SubSeq(f, 1, Len(e))[i] = f[i]
    BY <1>1
  <1> QED
    BY <1>1, <1>2, <1>3, SeqEqual

\* A path that is one longer than another and agrees with it is the other with its last.
LEMMA LastName ==
    ASSUME NEW S, NEW f \in Seq(S), NEW d \in Seq(S), Len(f) = Len(d) + 1,
           \A i \in 1..Len(d) : f[i] = d[i]
    PROVE  f = Append(d, f[Len(f)])
  <1>1. Len(d) \in Nat /\ f[Len(f)] \in S
    OBVIOUS
  <1> DEFINE g == Append(d, f[Len(f)])
  <1>2. g \in Seq(S) /\ Len(g) = Len(f) /\ g[Len(d) + 1] = f[Len(f)] /\ \A i \in 1..Len(d) : g[i] = d[i]
    BY <1>1, OneName
  <1> HIDE DEF g
  <1>3. \A i \in 1..Len(f) : g[i] = f[i]
    BY <1>1, <1>2
  <1>4. f = g
    BY <1>2, <1>3, SeqEqual
  <1> QED
    BY <1>4 DEF g

\* What the name at its place says of a script that fits.
LEMMA Places ==
    ASSUME NEW files \in Site, NEW p \in PlainPaths, NEW d \in Seq(Segments), Along(d, p), Len(d) < Len(p),
           NEW f \in Below(files, p, d)
    PROVE  LET i == Len(d) + 1 IN
           /\ Rank(f, i) \in 0..4 /\ f \in Seq(Segments) /\ Len(f) >= i /\ i \in 1..Len(p)
           /\ Rank(f, i) = 0 => f = Append(d, p[i]) /\ i = Len(p)
           /\ Rank(f, i) = 1 => f[i] = p[i] /\ Len(f) > i
           /\ Rank(f, i) = 2 => f[i] = "[p]" /\ Len(f) > i
           /\ Rank(f, i) = 3 => f = Append(d, "[p]") /\ i = Len(p)
           /\ Rank(f, i) = 4 => f = Append(d, "[...]")
  <1> DEFINE i == Len(d) + 1
             n == Len(f)
  <1>1. /\ f \in files /\ f \in Seq(Segments) /\ f # <<>> /\ n > Len(d) /\ \A j \in 1..Len(d) : f[j] = d[j]
        /\ Fits(f, p)
    BY DEF Below, Site
  <1>2. /\ Len(d) \in Nat /\ n \in Nat /\ n >= i /\ i \in 1..Len(p) /\ Len(p) \in Nat /\ i \in 1..n
    BY <1>1 DEF PlainPaths
  <1>3. p[i] \notin {"[p]", "[...]"}
    BY <1>2 DEF PlainPaths, Plain, Params
  <1>4. \/ n > i /\ f[i] \in {p[i], "[p]"}
        \/ n = i /\ f[i] = "[...]"
        \/ n = i /\ n = Len(p) /\ f[i] \in {p[i], "[p]"}
    BY <1>1, <1>2 DEF Fits
  <1>5. n = i => f = Append(d, f[i])
    BY <1>1, <1>2, LastName
  <1>6. CASE n > i /\ f[i] = p[i]
    BY <1>2, <1>3, <1>6, <1>1 DEF Rank
  <1>7. CASE n > i /\ f[i] = "[p]"
    BY <1>2, <1>7, <1>1 DEF Rank
  <1>8. CASE n = i /\ f[i] = "[...]"
    BY <1>2, <1>5, <1>8, <1>1 DEF Rank
  <1>9. CASE n = i /\ n = Len(p) /\ f[i] = p[i]
    BY <1>2, <1>3, <1>5, <1>9, <1>1 DEF Rank
  <1>10. CASE n = i /\ n = Len(p) /\ f[i] = "[p]"
    BY <1>2, <1>5, <1>10, <1>1 DEF Rank
  <1> QED
    BY <1>4, <1>6, <1>7, <1>8, <1>9, <1>10

\* The other way round: what is below a subdirectory, and the scripts in the directory.
LEMMA SubBelow ==
    ASSUME NEW files \in Site, NEW p \in PlainPaths, NEW d \in Seq(Segments), Along(d, p), Len(d) < Len(p),
           NEW name \in {p[Len(d) + 1], "[p]"}
    PROVE  LET e == Append(d, name) IN
           /\ name \in Segments /\ e \in Seq(Segments) /\ Len(e) = Len(d) + 1 /\ Along(e, p)
           /\ Below(files, p, e) = OfRank(files, p, d, IF name = "[p]" THEN 2 ELSE 1)
           /\ ~IsDir(files, e) => Below(files, p, e) = {}
  <1> DEFINE e == Append(d, name)
             i == Len(d) + 1
             r == IF name = "[p]" THEN 2 ELSE 1
  <1>1. Len(d) \in Nat /\ Len(p) \in Nat /\ i \in 1..Len(p) /\ p[i] \in Segments /\ p[i] \notin {"[p]", "[...]"}
    BY DEF PlainPaths, Plain, Params
  <1>2. name \in Segments
    BY <1>1, ServerJSAssumption
  <1>3. /\ e \in Seq(Segments) /\ Len(e) = i /\ e[i] = name /\ \A j \in 1..Len(d) : e[j] = d[j]
    BY <1>1, <1>2, OneName
  <1> HIDE DEF e
  <1>4. Along(e, p)
    <2>1. ASSUME NEW j \in 1..Len(e) PROVE e[j] \in {p[j], "[p]"}
      <3>1. CASE j = i
        BY <1>3, <3>1
      <3>2. CASE j # i
        <4>1. j \in 1..Len(d)
          BY <1>1, <1>3, <3>2
        <4> QED
          BY <1>3, <4>1 DEF Along
      <3> QED
        BY <3>1, <3>2
    <2> QED
      BY <1>1, <1>3, <2>1 DEF Along
  <1>5. ASSUME NEW f \in Below(files, p, e) PROVE f \in OfRank(files, p, d, r)
    <2>1. f \in Seq(Segments) /\ f \in files /\ Len(f) \in Nat /\ Len(f) > i /\ Fits(f, p) /\ \A j \in 1..i : f[j] = e[j]
      BY <1>3 DEF Below, Site
    <2>2. Len(f) > Len(d) /\ \A j \in 1..Len(d) : f[j] = d[j]
      BY <1>1, <1>3, <2>1
    <2>3. f[i] = name
      BY <1>1, <1>3, <2>1
    <2>4. f \in Below(files, p, d)
      BY <2>1, <2>2 DEF Below
    <2>5. Rank(f, i) = r
      BY <1>1, <2>1, <2>3 DEF Rank
    <2> QED
      BY <2>4, <2>5 DEF OfRank
  <1>6. ASSUME NEW f \in OfRank(files, p, d, r) PROVE f \in Below(files, p, e)
    <2>1. /\ f \in Below(files, p, d) /\ Rank(f, i) = r /\ f \in files /\ Fits(f, p) /\ f \in Seq(Segments)
          /\ \A j \in 1..Len(d) : f[j] = d[j]
      BY DEF OfRank, Below, Site
    <2>2. f[i] = name /\ Len(f) > i
      BY <1>1, <2>1, Places
    <2>3. \A j \in 1..Len(e) : f[j] = e[j]
      BY <1>1, <1>3, <2>1, <2>2
    <2> QED
      BY <1>3, <2>1, <2>2, <2>3 DEF Below
  <1>7. ASSUME NEW f \in Below(files, p, e) PROVE IsDir(files, e)
    <2>1. f \in files /\ f \in Seq(Segments) /\ Len(f) > Len(e) /\ \A j \in 1..Len(e) : f[j] = e[j]
      BY DEF Below, Site
    <2>2. SubSeq(f, 1, Len(e)) = e
      BY <1>3, <2>1, Prefix
    <2> QED
      BY <2>1, <2>2 DEF IsDir
  <1>8. Below(files, p, e) = OfRank(files, p, d, r)
    BY <1>5, <1>6 DEF OfRank, Below
  <1>9. ~IsDir(files, e) => Below(files, p, e) = {}
    BY <1>7
  <1> HIDE DEF r
  <1>10. r = IF name = "[p]" THEN 2 ELSE 1
    BY DEF r
  <1> QED
    BY <1>2, <1>3, <1>4, <1>8, <1>9, <1>10 DEF e

LEMMA FileBelow ==
    ASSUME NEW files \in Site, NEW p \in PlainPaths, NEW d \in Seq(Segments), Along(d, p), Len(d) < Len(p),
           NEW r \in {0, 3, 4}, NEW name, r # 4 => Len(d) + 1 = Len(p),
           name = CASE r = 0 -> p[Len(d) + 1] [] r = 3 -> "[p]" [] r = 4 -> "[...]"
    PROVE  OfRank(files, p, d, r) = {Append(d, name)} \cap files
  <1> DEFINE f == Append(d, name)
             i == Len(d) + 1
  <1>1. Len(d) \in Nat /\ Len(p) \in Nat /\ i \in 1..Len(p) /\ p[i] \in Segments /\ p[i] \notin {"[p]", "[...]"}
    BY DEF PlainPaths, Plain, Params
  <1>2. name \in Segments
    BY <1>1, ServerJSAssumption
  <1>3. f \in Seq(Segments) /\ Len(f) = i /\ f[i] = name /\ \A j \in 1..Len(d) : f[j] = d[j]
    BY <1>1, <1>2, OneName
  <1>4. ASSUME NEW g \in OfRank(files, p, d, r) PROVE g = f
    <2>1. g \in Below(files, p, d) /\ Rank(g, i) = r
      BY DEF OfRank
    <2> QED
      BY <1>1, <2>1, Places
  <1> HIDE DEF f
  <1>5. ASSUME f \in files PROVE f \in OfRank(files, p, d, r)
    <2>1. \A j \in 1..Len(d) : f[j] \in {p[j], "[p]"}
      BY <1>3 DEF Along
    <2>2. Fits(f, p)
      <3>1. CASE r = 4
        <4>1. f[i] = "[...]" /\ i <= Len(p) /\ i - 1 = Len(d)
          BY <1>1, <1>3, <3>1
        <4> QED
          BY <1>3, <2>1, <4>1 DEF Fits
      <3>2. CASE r # 4
        <4>1. i = Len(p) /\ f[i] \in {p[i], "[p]"}
          BY <1>3, <3>2
        <4>2. \A j \in 1..i : f[j] \in {p[j], "[p]"}
          BY <1>1, <2>1, <4>1
        <4> QED
          BY <1>3, <4>1, <4>2 DEF Fits
      <3> QED
        BY <3>1, <3>2
    <2>3. Rank(f, i) = r
      BY <1>1, <1>3 DEF Rank
    <2>4. f \in Below(files, p, d)
      BY <1>1, <1>3, <1>5, <2>2 DEF Below
    <2> QED
      BY <2>3, <2>4 DEF OfRank
  <1>6. OfRank(files, p, d, r) \subseteq files
    BY DEF OfRank, Below
  <1>7. OfRank(files, p, d, r) = {f} \cap files
    BY <1>4, <1>5, <1>6
  <1> QED
    BY <1>7 DEF f

Routes == [script : Seq(Segments) \cup {Absent}, params : SUBSET (Seq(Segments) \X Nat)]
Later(f, k) == {i \in Params(f) : i > k}
Taken(f, p, i) == IF f[i] = "[...]" THEN Len(p) - i + 1 ELSE 1
ParamsOf(f, p, k) == {<<SubSeq(f, 1, i), Taken(f, p, i)>> : i \in Later(f, k)}

\* The route leads to the best of these scripts, if there is one, and has the parameters
\* that the script has from a place on, and no other.
Leads(route, scripts, p, k) ==
    /\ route \in Routes
    /\ route.script = Absent => scripts = {} /\ route.params = {}
    /\ route.script # Absent =>
         /\ route.script \in scripts /\ \A g \in scripts : Precedes(route.script, g)
         /\ route.params = ParamsOf(route.script, p, k)

\* The parameters of a script from a place on are that place's and those after it.
LEMMA LaterIs ==
    ASSUME NEW f \in Seq(Segments), NEW p, NEW k \in Nat, k < Len(f)
    PROVE  /\ f[k + 1] \in {"[p]", "[...]"} =>
                ParamsOf(f, p, k) = ParamsOf(f, p, k + 1) \cup {<<SubSeq(f, 1, k + 1), Taken(f, p, k + 1)>>}
           /\ f[k + 1] \notin {"[p]", "[...]"} => ParamsOf(f, p, k) = ParamsOf(f, p, k + 1)
           /\ Len(f) = k + 1 => ParamsOf(f, p, k + 1) = {}
  <1> DEFINE x == k + 1
  <1>1. Len(f) \in Nat /\ x \in 1..Len(f) /\ DOMAIN f = 1..Len(f)
    OBVIOUS
  <1>2. f[x] \in {"[p]", "[...]"} => Later(f, k) = Later(f, x) \cup {x}
    BY <1>1 DEF Later, Params
  <1>3. f[x] \notin {"[p]", "[...]"} => Later(f, k) = Later(f, x)
    BY <1>1 DEF Later, Params
  <1>4. Len(f) = x => Later(f, x) = {}
    BY <1>1 DEF Later, Params
  <1> HIDE DEF x
  <1>5. /\ f[x] \in {"[p]", "[...]"} => ParamsOf(f, p, k) = ParamsOf(f, p, x) \cup {<<SubSeq(f, 1, x), Taken(f, p, x)>>}
        /\ f[x] \notin {"[p]", "[...]"} => ParamsOf(f, p, k) = ParamsOf(f, p, x)
        /\ Len(f) = x => ParamsOf(f, p, x) = {}
    BY <1>2, <1>3, <1>4, Zenon DEF ParamsOf
  <1> QED
    BY <1>5 DEF x

\* What taking segments does to a route.
LEMMA TakingIs ==
    ASSUME NEW r \in Routes, NEW e \in Seq(Segments), NEW n \in Nat
    PROVE  /\ Taking(e, n, r) \in Routes /\ Taking(e, n, r).script = r.script
           /\ Taking(e, n, r).params = IF r.script = Absent THEN r.params ELSE r.params \cup {<<e, n>>}
  BY DEF Taking, Routes

\* What is not there leads to nothing.
LEMMA NothingLeads == \A p, k : Leads(NoRoute, {}, p, k)
  BY DEF NoRoute, Routes, Leads

\* A route that leads to the best of a set leads there when the place of a
\* parameter is counted and it takes that parameter's segments too.
LEMMA TakingLeads ==
    ASSUME NEW r, NEW scripts, NEW p, NEW k \in Nat, NEW n \in Nat, NEW name, NEW e \in Seq(Segments),
           Leads(r, scripts, p, k + 1),
           name \in {"[p]", "[...]"} => n = IF name = "[...]" THEN Len(p) - (k + 1) + 1 ELSE 1,
           \A f \in scripts : f \in Seq(Segments) /\ Len(f) > k /\ f[k + 1] = name /\ SubSeq(f, 1, k + 1) = e
    PROVE  Leads(IF name \in {"[p]", "[...]"} THEN Taking(e, n, r) ELSE r, scripts, p, k)
  <1> DEFINE f == r.script
             t == Taking(e, n, r)
  <1>1. r \in Routes
    BY DEF Leads
  <1>2. t \in Routes /\ t.script = r.script
        /\ t.params = IF r.script = Absent THEN r.params ELSE r.params \cup {<<e, n>>}
    BY <1>1, TakingIs
  <1>3. CASE r.script = Absent
    <2>1. scripts = {} /\ r.params = {}
      BY <1>3 DEF Leads
    <2> HIDE DEF t
    <2>2. Leads(t, scripts, p, k) /\ Leads(r, scripts, p, k)
      BY <1>1, <1>2, <1>3, <2>1 DEF Leads
    <2> QED
      BY <2>2 DEF t
  <1>4. CASE r.script # Absent
    <2>1. f \in scripts /\ (\A g \in scripts : Precedes(f, g)) /\ r.params = ParamsOf(f, p, k + 1)
      BY <1>4 DEF Leads
    <2>2. f \in Seq(Segments) /\ Len(f) > k /\ f[k + 1] = name /\ SubSeq(f, 1, k + 1) = e
      BY <2>1
    <2> HIDE DEF t
    <2>3. /\ name \in {"[p]", "[...]"} => ParamsOf(f, p, k) = ParamsOf(f, p, k + 1) \cup {<<e, Taken(f, p, k + 1)>>}
          /\ name \notin {"[p]", "[...]"} => ParamsOf(f, p, k) = ParamsOf(f, p, k + 1)
      <3> HIDE DEF f
      <3>1. k < Len(f)
        BY <2>2
      <3> QED
        BY <2>2, <3>1, LaterIs
    <2>4. name \in {"[p]", "[...]"} => n = Taken(f, p, k + 1)
      BY <2>2 DEF Taken
    <2>5. name \in {"[p]", "[...]"} => Leads(t, scripts, p, k)
      BY <1>2, <1>4, <2>1, <2>3, <2>4 DEF Leads
    <2>6. name \notin {"[p]", "[...]"} => Leads(r, scripts, p, k)
      BY <1>1, <1>4, <2>1, <2>3 DEF Leads
    <2> QED
      BY <2>5, <2>6 DEF t
  <1> QED
    BY <1>3, <1>4

\* A sequence is all of itself.
LEMMA Whole == ASSUME NEW S, NEW f \in Seq(S) PROVE SubSeq(f, 1, Len(f)) = f
  <1> DEFINE g == SubSeq(f, 1, Len(f))
  <1>1. Len(f) \in Nat /\ \A i \in 1..Len(f) : f[i] \in S
    OBVIOUS
  <1>2. g \in Seq(S) /\ Len(g) = Len(f) /\ \A i \in 1..Len(f) : g[i] = f[i]
    BY <1>1
  <1> HIDE DEF g
  <1>3. g = f
    BY <1>2, SeqEqual
  <1> QED
    BY <1>3 DEF g

\* A script of the directory itself; it takes a segment or more if its name says so.
LEMMA FileLeads ==
    ASSUME NEW files \in Site, NEW d \in Seq(Segments), NEW name \in Segments, NEW n \in Nat,
           NEW p, NEW f, f = Append(d, name),
           name \in {"[p]", "[...]"} => n = IF name = "[...]" THEN Len(p) - (Len(d) + 1) + 1 ELSE 1
    PROVE  Leads(IF name \in {"[p]", "[...]"} THEN Taking(f, n, Found(files, f)) ELSE Found(files, f),
                 {f} \cap files, p, Len(d))
  <1> DEFINE r == Found(files, f)
  <1>1. f \in Seq(Segments) /\ Len(f) = Len(d) + 1 /\ Len(d) \in Nat /\ f[Len(d) + 1] = name
    BY OneName
  <1>2. Leads(r, {f} \cap files, p, Len(d) + 1)
    <2>1. CASE f \in files
      <3>1. f # Absent /\ r = [script |-> f, params |-> {}] /\ {f} \cap files = {f}
        BY <2>1 DEF Site, Found
      <3> HIDE DEF r
      <3>2. r \in Routes /\ r.script = f /\ r.params = {}
        BY <1>1, <3>1 DEF Routes
      <3>3. ParamsOf(f, p, Len(d) + 1) = {}
        <4>1. Len(d) < Len(f)
          BY <1>1
        <4> QED
          BY <1>1, <4>1, LaterIs
      <3>4. Precedes(f, f)
        BY DEF Precedes
      <3>5. Leads(r, {f}, p, Len(d) + 1)
        BY <3>1, <3>2, <3>3, <3>4 DEF Leads
      <3> QED
        BY <3>1, <3>5
    <2>2. CASE f \notin files
      <3>1. r = NoRoute /\ {f} \cap files = {}
        BY <2>2 DEF Found
      <3> HIDE DEF r
      <3> QED
        BY <3>1, NothingLeads
    <2> QED
      BY <2>1, <2>2
  <1> HIDE DEF r
  <1>3. \A g \in {f} \cap files :
           g \in Seq(Segments) /\ Len(g) > Len(d) /\ g[Len(d) + 1] = name /\ SubSeq(g, 1, Len(d) + 1) = f
    <2>1. Len(f) > 0 /\ SubSeq(f, 1, Len(f)) = f
      BY <1>1, Whole
    <2>2. Len(f) = Len(d) + 1 /\ Len(f) > Len(d) /\ f[Len(d) + 1] = name /\ f \in Seq(Segments)
      BY <1>1
    <2>3. SubSeq(f, 1, Len(d) + 1) = f
      BY <2>1, <2>2, Zenon
    <2> QED
      BY <2>2, <2>3, Zenon
  <1>4. Leads(IF name \in {"[p]", "[...]"} THEN Taking(f, n, r) ELSE r, {f} \cap files, p, Len(d))
    BY <1>1, <1>2, <1>3, TakingLeads
  <1> QED
    BY <1>4 DEF r

\* The best of a subdirectory is that of the rank it has in the directory.
LEMMA SubLeads ==
    ASSUME NEW files \in Site, NEW p \in PlainPaths, NEW d \in Seq(Segments), Along(d, p), Len(d) < Len(p),
           NEW name \in {p[Len(d) + 1], "[p]"}, NEW walk, NEW e, e = Append(d, name),
           IsDir(files, e) => Leads(walk[e], Below(files, p, e), p, Len(e)),
           NEW r, r = IF IsDir(files, e) THEN walk[e] ELSE NoRoute,
           NEW scripts, scripts = OfRank(files, p, d, IF name = "[p]" THEN 2 ELSE 1)
    PROVE  Leads(IF name \in {"[p]", "[...]"} THEN Taking(e, 1, r) ELSE r, scripts, p, Len(d))
  <1>1. /\ name \in Segments /\ e \in Seq(Segments) /\ Len(e) = Len(d) + 1 /\ Len(d) \in Nat
        /\ Below(files, p, e) = scripts /\ (~IsDir(files, e) => scripts = {})
    BY SubBelow
  <1>2. e[Len(d) + 1] = name
    BY <1>1, OneName
  <1>3. Leads(r, scripts, p, Len(d) + 1)
    <2>1. CASE IsDir(files, e)
      BY <1>1, <2>1
    <2>2. CASE ~IsDir(files, e)
      <3>1. r = NoRoute /\ scripts = {}
        BY <1>1, <2>2
      <3> QED
        BY <3>1, NothingLeads
    <2> QED
      BY <2>1, <2>2
  <1>4. ASSUME NEW f \in scripts
        PROVE  f \in Seq(Segments) /\ Len(f) > Len(d) /\ f[Len(d) + 1] = name /\ SubSeq(f, 1, Len(d) + 1) = e
    <2>1. f \in Below(files, p, e)
      BY <1>1
    <2>2. f \in files /\ Len(f) > Len(e) /\ \A j \in 1..Len(e) : f[j] = e[j]
      BY <2>1 DEF Below
    <2>3. f \in Seq(Segments)
      BY <2>2 DEF Site
    <2>4. Len(d) + 1 \in 1..Len(e)
      BY <1>1
    <2>5. Len(f) > Len(d)
      BY <1>1, <2>2, <2>3
    <2>6. SubSeq(f, 1, Len(e)) = e
      BY <1>1, <2>2, <2>3, Prefix
    <2> QED
      BY <1>1, <1>2, <2>2, <2>3, <2>4, <2>5, <2>6
  <1>5. name \in {"[p]", "[...]"} => 1 = IF name = "[...]" THEN Len(p) - (Len(d) + 1) + 1 ELSE 1
    <2>1. p[Len(d) + 1] \notin {"[p]", "[...]"}
      BY <1>1 DEF PlainPaths, Plain, Params
    <2> QED
      BY <2>1
  <1> QED
    BY <1>1, <1>3, <1>4, <1>5, TakingLeads

\* One of a smaller rank at the place where the directory ends precedes one of a greater.
LEMMA RankPrecedes ==
    ASSUME NEW files \in Site, NEW p \in PlainPaths, NEW d \in Seq(Segments),
           NEW f \in Below(files, p, d), NEW g \in Below(files, p, d), Rank(f, Len(d) + 1) < Rank(g, Len(d) + 1)
    PROVE  Precedes(f, g)
  <1> DEFINE i == Len(d) + 1
  <1>1. /\ f \in Seq(Segments) /\ g \in Seq(Segments) /\ Len(f) > Len(d) /\ Len(g) > Len(d)
        /\ \A j \in 1..Len(d) : f[j] = d[j] /\ g[j] = d[j]
    BY DEF Below, Site
  <1>2. Len(d) \in Nat /\ Len(f) \in Nat /\ Len(g) \in Nat /\ DOMAIN f = 1..Len(f) /\ DOMAIN g = 1..Len(g)
    BY <1>1
  <1>3. i \in DOMAIN f \cap DOMAIN g
    BY <1>1, <1>2
  <1>4. ASSUME NEW j \in 1..(i - 1) PROVE Rank(f, j) = Rank(g, j)
    <2>1. f[j] = g[j] /\ j # Len(f) /\ j # Len(g)
      BY <1>1, <1>2
    <2> QED
      BY <2>1 DEF Rank
  <1> HIDE DEF i
  <1>5. Rank(f, i) < Rank(g, i)
    BY DEF i
  <1> QED
    BY <1>3, <1>4, <1>5 DEF Precedes

\* The first candidate that is there leads to the best of all ranks.
LEMMA FirstLeads ==
    ASSUME NEW files \in Site, NEW p \in PlainPaths, NEW d \in Seq(Segments), Along(d, p), Len(d) < Len(p),
           NEW cs, DOMAIN cs = 1..5,
           \A j \in 1..5 : Leads(cs[j], OfRank(files, p, d, j - 1), p, Len(d))
    PROVE  Leads(FirstOf(cs), Below(files, p, d), p, Len(d))
  <1> DEFINE Hits == {i \in 1..5 : cs[i].script # Absent}
             scripts == Below(files, p, d)
             i == Len(d) + 1
  <1>1. ASSUME NEW g \in scripts PROVE Rank(g, i) \in 0..4 /\ g \in OfRank(files, p, d, Rank(g, i))
    <2>1. Rank(g, i) \in 0..4
      BY Places
    <2> QED
      BY <2>1 DEF OfRank
  <1>2. ASSUME NEW g \in scripts PROVE Rank(g, i) + 1 \in Hits
    <2>1. Rank(g, i) + 1 \in 1..5 /\ (Rank(g, i) + 1) - 1 = Rank(g, i)
      BY <1>1
    <2>2. Leads(cs[Rank(g, i) + 1], OfRank(files, p, d, Rank(g, i)), p, Len(d))
      BY <2>1
    <2>3. cs[Rank(g, i) + 1].script # Absent
      BY <1>1, <2>2 DEF Leads
    <2> QED
      BY <2>1, <2>3
  <1> DEFINE Set_(I) == UNION {cs[x].params : x \in I}
  <1>0. \A j \in 1..5 : cs[j].script = Absent => cs[j].params = {}
    BY DEF Leads
  <1>3. CASE Hits = {}
    <2>1. FirstOf(cs) = NoRoute
      <3>1. FirstOf(cs) = [NoRoute EXCEPT !.params = Set_(1..5)]
        BY <1>3, Zenon DEF FirstOf
      <3>2. Set_(1..5) = {}
        BY <1>0, <1>3
      <3> HIDE DEF Set_
      <3> QED
        BY <3>1, <3>2 DEF NoRoute
    <2>2. scripts = {}
      BY <1>2, <1>3
    <2> QED
      BY <2>1, <2>2, NothingLeads
  <1>4. CASE Hits # {}
    <2>1. \E m \in Hits : \A j \in Hits : m <= j
      <3>1. Hits \in SUBSET Nat
        OBVIOUS
      <3> HIDE DEF Hits
      <3> QED
        BY <1>4, <3>1, LeastNumber
    <2> DEFINE m == CHOOSE x \in Hits : \A j \in Hits : x <= j
    <2>2. m \in Hits /\ \A j \in Hits : m <= j
      BY <2>1, Zenon
    <2>3. FirstOf(cs) = [cs[m] EXCEPT !.params = Set_(1..m)]
      BY <1>4, Zenon DEF FirstOf
    <2> HIDE DEF m
    <2> DEFINE f == cs[m].script
    <2>4. m \in 1..5 /\ f # Absent
      BY <2>2
    <2>5. /\ cs[m] \in Routes /\ f \in OfRank(files, p, d, m - 1)
          /\ (\A g \in OfRank(files, p, d, m - 1) : Precedes(f, g))
          /\ cs[m].params = ParamsOf(f, p, Len(d))
      BY <2>4 DEF Leads
    <2>6. f \in scripts /\ Rank(f, i) = m - 1
      BY <2>5 DEF OfRank
    <2>7. ASSUME NEW g \in scripts PROVE Precedes(f, g)
      <3>1. m <= Rank(g, i) + 1 /\ Rank(g, i) \in 0..4
        BY <1>1, <1>2, <2>2
      <3> HIDE DEF f, scripts
      <3>2. CASE Rank(g, i) = m - 1
        BY <1>1, <2>5, <3>2
      <3>3. CASE Rank(g, i) # m - 1
        <4>1. Rank(f, i) < Rank(g, i)
          BY <2>4, <2>6, <3>1, <3>3
        <4> QED
          BY <2>6, <4>1, RankPrecedes DEF scripts
      <3> QED
        BY <3>2, <3>3
    <2>8. Leads(cs[m], scripts, p, Len(d))
      BY <2>4, <2>5, <2>6, <2>7 DEF Leads
    <2>9. Set_(1..m) = cs[m].params
      <3>1. \A j \in 1..m : j = m \/ cs[j].params = {}
        <4>1. ASSUME NEW j \in 1..m, j # m PROVE cs[j].params = {}
          <5>1. j \in 1..5 /\ ~(m <= j)
            BY <2>4, <4>1
          <5>2. j \notin Hits
            BY <2>2, <5>1
          <5> QED
            BY <1>0, <5>1, <5>2
        <4> QED
          BY <4>1
      <3>2. m \in 1..m
        BY <2>4
      <3> QED
        BY <3>1, <3>2
    <2>10. [cs[m] EXCEPT !.params = cs[m].params] = cs[m]
      BY <2>5 DEF Routes
    <2> QED
      BY <2>3, <2>8, <2>9, <2>10
  <1> QED
    BY <1>3, <1>4

\* The index of a directory that has taken the whole path is all that is below it.
LEMMA IndexBelow ==
    ASSUME NEW files \in Site, NEW p \in PlainPaths, NEW d \in Seq(Segments), Along(d, p), Len(d) = Len(p)
    PROVE  Below(files, p, d) = {Append(d, "index")} \cap files
  <1> DEFINE f == Append(d, "index")
  <1>1. "index" \in Segments /\ Len(p) \in Nat
    BY ServerJSAssumption DEF PlainPaths
  <1>2. f \in Seq(Segments) /\ Len(f) = Len(p) + 1 /\ f[Len(p) + 1] = "index" /\ \A j \in 1..Len(d) : f[j] = d[j]
    BY <1>1, OneName
  <1>3. ASSUME NEW g \in Below(files, p, d) PROVE g = f
    <2>1. g \in Seq(Segments) /\ Len(g) > Len(p) /\ Fits(g, p) /\ \A j \in 1..Len(d) : g[j] = d[j]
      BY DEF Below, Site
    <2>2. Len(g) \in Nat
      BY <2>1
    <2>3. g[Len(g)] = "index" /\ Len(g) = Len(d) + 1
      BY <1>1, <2>1, <2>2 DEF Fits
    <2> QED
      BY <2>1, <2>3, LastName
  <1> HIDE DEF f
  <1>4. ASSUME f \in files PROVE f \in Below(files, p, d)
    <2>1. \A j \in 1..Len(p) : f[j] \in {p[j], "[p]"}
      BY <1>2 DEF Along
    <2>2. Fits(f, p)
      BY <1>1, <1>2, <2>1 DEF Fits
    <2> QED
      BY <1>1, <1>2, <1>4, <2>2 DEF Below
  <1>5. Below(files, p, d) \subseteq files
    BY DEF Below
  <1>6. Below(files, p, d) = {f} \cap files
    BY <1>3, <1>4, <1>5
  <1> QED
    BY <1>6 DEF f

\* What a directory has is the best below it, if that holds for its subdirectories.
LEMMA DirLeads ==
    ASSUME NEW files \in Site, NEW p \in PlainPaths, NEW d \in Dirs(files, p), Along(d, p), NEW walk,
           \A e \in Dirs(files, p) : Len(e) = Len(d) + 1 /\ Along(e, p) => Leads(walk[e], Below(files, p, e), p, Len(e))
    PROVE  Leads(Resolved(files, p, d, walk), Below(files, p, d), p, Len(d))
  <1> DEFINE n == Len(p)
             i == Len(d) + 1
             Sub(name) == IF IsDir(files, Append(d, name)) THEN walk[Append(d, name)] ELSE NoRoute
             OfLast(f) == IF i = n THEN Found(files, f) ELSE NoRoute
             Ranked(r) == OfRank(files, p, d, r)
  <1>1. files \in SUBSET Seq(Segments) /\ p \in Seq(Segments)
    BY DEF Site, PlainPaths
  <1>2. d \in Seq(Segments) /\ Len(d) \in Nat /\ n \in Nat /\ Len(d) <= n
    BY <1>1, DirIs
  <1>3. {"[p]", "[...]", "index"} \subseteq Segments
    BY ServerJSAssumption
  <1>4. CASE Len(d) = n
    <2>1. "index" \notin {"[p]", "[...]"} /\ 1 \in Nat
      OBVIOUS
    <2>2. Leads(Found(files, Append(d, "index")), {Append(d, "index")} \cap files, p, Len(d))
      BY <1>2, <1>3, <2>1, FileLeads
    <2>3. Below(files, p, d) = {Append(d, "index")} \cap files
      BY <1>2, <1>4, IndexBelow
    <2>4. Resolved(files, p, d, walk) = Found(files, Append(d, "index"))
      BY <1>4 DEF Resolved
    <2> QED
      BY <2>2, <2>3, <2>4
  <1>5. CASE Len(d) # n
    <2>1. Len(d) < n /\ p[i] \in Segments /\ p[i] \notin {"[p]", "[...]"} /\ n - i + 1 \in Nat /\ 1 \in Nat
      BY <1>1, <1>2, <1>5 DEF PlainPaths, Plain, Params
    <2>2. ASSUME NEW name \in {p[i], "[p]"}
          PROVE  Leads(IF name \in {"[p]", "[...]"} THEN Taking(Append(d, name), 1, Sub(name)) ELSE Sub(name),
                       Ranked(IF name = "[p]" THEN 2 ELSE 1), p, Len(d))
      <3> DEFINE e == Append(d, name)
      <3>1. name \in Segments
        BY <1>3, <2>1
      <3>2. Len(e) = Len(d) + 1 /\ Along(e, p)
        BY <1>2, <2>1, SubBelow
      <3>3. IsDir(files, e) => e \in Dirs(files, p)
        BY <1>1, <1>5, <3>1, SubDir
      <3>4. IsDir(files, e) => Leads(walk[e], Below(files, p, e), p, Len(e))
        BY <3>2, <3>3
      <3> QED
        BY <1>2, <2>1, <3>4, SubLeads
    <2>3. ASSUME NEW name \in {p[i], "[p]"}
          PROVE  Leads(IF name \in {"[p]", "[...]"} THEN Taking(Append(d, name), 1, OfLast(Append(d, name)))
                       ELSE OfLast(Append(d, name)),
                       Ranked(IF name = "[p]" THEN 3 ELSE 0), p, Len(d))
      <3> DEFINE f == Append(d, name)
                 r == IF name = "[p]" THEN 3 ELSE 0
      <3>1. name \in Segments
        BY <1>3, <2>1
      <3>2. CASE i = n
        <4>1. r \in {0, 3, 4} /\ (r # 4 => Len(d) + 1 = Len(p))
              /\ name = CASE r = 0 -> p[Len(d) + 1] [] r = 3 -> "[p]" [] r = 4 -> "[...]"
          BY <2>1, <3>2
        <4> HIDE DEF r
        <4>2. Ranked(r) = {f} \cap files
          BY <1>2, <2>1, <4>1, FileBelow
        <4> HIDE DEF f, Ranked
        <4>3. Leads(IF name \in {"[p]", "[...]"} THEN Taking(f, 1, Found(files, f)) ELSE Found(files, f),
                    {f} \cap files, p, Len(d))
          <5>1. name # "[...]"
            BY <2>1
          <5> QED
            BY <1>2, <2>1, <3>1, <5>1, FileLeads DEF f
        <4> QED
          BY <3>2, <4>2, <4>3 DEF r, f
      <3>3. CASE i # n
        <4>1. Ranked(r) = {}
          <5>1. ASSUME NEW g \in Ranked(r) PROVE FALSE
            <6>1. g \in Below(files, p, d) /\ Rank(g, Len(d) + 1) \in {0, 3}
              BY DEF OfRank
            <6> QED
              BY <1>2, <2>1, <3>3, <6>1, Places
          <5> QED
            BY <5>1
        <4>2. OfLast(f) = NoRoute
          BY <3>3
        <4>3. Taking(f, 1, NoRoute) = NoRoute
          BY DEF Taking, NoRoute
        <4> HIDE DEF Ranked, OfLast
        <4>4. Leads(NoRoute, Ranked(r), p, Len(d))
          BY <4>1, NothingLeads
        <4> QED
          BY <4>2, <4>3, <4>4
      <3> QED
        BY <3>2, <3>3
    <2>4. Leads(Taking(Append(d, "[...]"), n - i + 1, Found(files, Append(d, "[...]"))), Ranked(4), p, Len(d))
      <3> DEFINE f == Append(d, "[...]")
      <3>1. Ranked(4) = {f} \cap files
        <4>1. 4 \in {0, 3, 4} /\ (4 # 4 => Len(d) + 1 = Len(p))
              /\ "[...]" = CASE 4 = 0 -> p[Len(d) + 1] [] 4 = 3 -> "[p]" [] 4 = 4 -> "[...]"
          OBVIOUS
        <4> QED
          BY <1>2, <2>1, <4>1, FileBelow
      <3>2. "[...]" \in Segments /\ "[...]" \in {"[p]", "[...]"}
        BY <1>3
      <3>3. Leads(Taking(f, n - i + 1, Found(files, f)), {f} \cap files, p, Len(d))
        BY <1>2, <2>1, <3>2, FileLeads
      <3> QED
        BY <3>1, <3>3
    <2> DEFINE cs == Candidates(files, p, d, walk)
               P == Append(d, "[p]")
               Q == Append(d, "[...]")
    <2>5. cs = << OfLast(Append(d, p[i])), Sub(p[i]), Taking(P, 1, Sub("[p]")), Taking(P, 1, OfLast(P)),
                  Taking(Q, n - i + 1, Found(files, Q)) >>
      BY Zenon DEF Candidates
    <2>6. /\ Leads(OfLast(Append(d, p[i])), Ranked(0), p, Len(d))
          /\ Leads(Sub(p[i]), Ranked(1), p, Len(d))
          /\ Leads(Taking(P, 1, Sub("[p]")), Ranked(2), p, Len(d))
          /\ Leads(Taking(P, 1, OfLast(P)), Ranked(3), p, Len(d))
      <3> HIDE DEF OfLast, Sub, Ranked
      <3> QED
        BY <2>1, <2>2, <2>3
    <2> HIDE DEF OfLast, Sub, cs, Ranked
    <2>7. DOMAIN cs = 1..5 /\ \A j \in 1..5 : Leads(cs[j], Ranked(j - 1), p, Len(d))
      <3>1. /\ DOMAIN cs = 1..5 /\ cs[1] = OfLast(Append(d, p[i])) /\ cs[2] = Sub(p[i])
            /\ cs[3] = Taking(P, 1, Sub("[p]")) /\ cs[4] = Taking(P, 1, OfLast(P))
            /\ cs[5] = Taking(Q, n - i + 1, Found(files, Q))
        BY <2>5
      <3>2. \A j \in 1..5 : j = 1 \/ j = 2 \/ j = 3 \/ j = 4 \/ j = 5
        OBVIOUS
      <3>3. 1 - 1 = 0 /\ 2 - 1 = 1 /\ 3 - 1 = 2 /\ 4 - 1 = 3 /\ 5 - 1 = 4
        OBVIOUS
      <3>4. /\ Leads(cs[1], Ranked(1 - 1), p, Len(d)) /\ Leads(cs[2], Ranked(2 - 1), p, Len(d))
            /\ Leads(cs[3], Ranked(3 - 1), p, Len(d)) /\ Leads(cs[4], Ranked(4 - 1), p, Len(d))
            /\ Leads(cs[5], Ranked(5 - 1), p, Len(d))
        BY <2>4, <2>6, <3>1, <3>3
      <3> QED
        BY <3>1, <3>2, <3>4, Zenon
    <2>8. Leads(FirstOf(cs), Below(files, p, d), p, Len(d))
      <3>1. \A j \in 1..5 : Leads(cs[j], OfRank(files, p, d, j - 1), p, Len(d))
        BY <2>7 DEF Ranked
      <3> QED
        BY <1>2, <2>1, <2>7, <3>1, FirstLeads
    <2>9. Resolved(files, p, d, walk) = FirstOf(cs)
      BY <1>5 DEF Resolved, cs
    <2> QED
      BY <2>8, <2>9
  <1> QED
    BY <1>4, <1>5

\* The walk leads from every directory on the path to the best script below it:
\* otherwise take one with the fewest segments to go.
LEMMA WalkLeads ==
    ASSUME NEW files \in Site, NEW p \in PlainPaths, NEW d \in Dirs(files, p), Along(d, p)
    PROVE  Leads(Walks(files, p)[d], Below(files, p, d), p, Len(d))
  <1> DEFINE D == {e \in Dirs(files, p) : Along(e, p)}
             Good(e) == Leads(Walks(files, p)[e], Below(files, p, e), p, Len(e))
             T == {Len(p) - Len(e) : e \in {x \in D : ~Good(x)}}
  <1>1. files \in SUBSET Seq(Segments) /\ p \in Seq(Segments)
    BY DEF Site, PlainPaths
  <1>2. \A e \in Dirs(files, p) : Len(e) \in Nat /\ Len(p) \in Nat /\ Len(e) <= Len(p)
    BY <1>1, DirIs
  <1>3. ASSUME T # {} PROVE FALSE
    <2>1. T \in SUBSET Nat
      BY <1>2
    <2>2. PICK m \in T : \A k \in T : m <= k
      <3> HIDE DEF T
      <3> QED
        BY <1>3, <2>1, LeastNumber
    <2>3. PICK e \in D : ~Good(e) /\ m = Len(p) - Len(e)
      OBVIOUS
    <2>4. ASSUME NEW x \in Dirs(files, p), Len(x) = Len(e) + 1, Along(x, p) PROVE Good(x)
      <3>1. SUFFICES ASSUME ~Good(x) PROVE FALSE
        OBVIOUS
      <3>2. Len(p) - Len(x) \in T
        BY <2>4, <3>1
      <3>3. m <= Len(p) - Len(x)
        BY <2>2, <3>2
      <3> QED
        BY <1>2, <2>3, <2>4, <3>3
    <2>5. Leads(Resolved(files, p, e, Walks(files, p)), Below(files, p, e), p, Len(e))
      BY <2>4, DirLeads
    <2>6. Walks(files, p)[e] = Resolved(files, p, e, Walks(files, p))
      BY <1>1, WalkIs
    <2> QED
      BY <2>3, <2>5, <2>6
  <1> QED
    BY <1>3

\* What a path resolves to is the best of the scripts that fit it.
LEMMA ResolveIsBest ==
    ASSUME NEW files \in Site, NEW p \in PlainPaths
    PROVE  Best(files, p, Resolve(files, p))
  <1> DEFINE fit == {f \in files : Fits(f, p)}
             best == Resolve(files, p)
             f == best.script
  <1>1. <<>> \in Seq(Segments) /\ Len(<<>>) = 0 /\ Len(p) \in Nat /\ files \subseteq Seq(Segments) \ {<<>>}
    BY DEF PlainPaths, Site
  <1>2. <<>> \in Dirs(files, p) /\ Along(<<>>, p)
    BY <1>1 DEF Dirs, Along
  <1>3. Below(files, p, <<>>) = fit
    <2>1. \A g \in files : Len(g) > 0
      BY <1>1
    <2> QED
      BY <1>1, <2>1 DEF Below
  <1>4. \A g \in fit : Later(g, 0) = Params(g)
    BY <1>1 DEF Later, Params
  <1>5. best = Walks(files, p)[<<>>]
    BY DEF Resolve
  <1> HIDE DEF best, fit
  <1>6. Leads(best, fit, p, 0)
    BY <1>1, <1>2, <1>3, <1>5, WalkLeads
  <1>7. /\ (f = Absent) = (fit = {})
        /\ f # Absent => f \in fit /\ \A g \in fit : Precedes(f, g)
    BY <1>6 DEF Leads
  <1>8. f # Absent => best.params = {<<SubSeq(f, 1, i), Taken(f, p, i)>> : i \in Params(f)}
    <2>1. f # Absent => Later(f, 0) = Params(f) /\ best.params = ParamsOf(f, p, 0)
      BY <1>4, <1>6, <1>7 DEF Leads
    <2> QED
      BY <2>1 DEF ParamsOf
  <1> QED
    BY <1>7, <1>8, Zenon DEF Best, Taken, best, fit

-----------------------------------------------------------------------------
(* A script's engine.                                                      *)

\* A request is a record of these fields, whatever they hold: a route is what the walk over
\* the tree found.
Names == {"pc", "path", "route", "since", "put", "vm", "over", "flag", "body", "result", "resp"}
IsRequest(r) == r = [f \in Names |-> r[f]]

\* The handler has the engine only while the request waits for it.
Serial(r) == r.vm = "js" => r.pc = "run"

VmInv == /\ req = [c \in Clients |-> req[c]]
         /\ \A c \in Clients : IsRequest(req[c]) /\ Serial(req[c])

\* One request changes.
LEMMA OneRequest ==
    ASSUME VmInv, NEW c \in Clients, NEW r, IsRequest(r), Serial(r), Set(c, r)
    PROVE  VmInv'
  <1>1. req' = [x \in Clients |-> IF x = c THEN r ELSE req[x]]
    BY DEF VmInv, Set
  <1>2. \A x \in Clients : req'[x] = IF x = c THEN r ELSE req[x]
    BY <1>1
  <1>3. \A x \in Clients : IsRequest(req[x]) /\ Serial(req[x])
    BY DEF VmInv
  <1>4. \A x \in Clients : IsRequest(req'[x]) /\ Serial(req'[x])
    BY <1>2, <1>3
  <1>5. req' = [x \in Clients |-> req'[x]]
    BY <1>1
  <1> QED
    BY <1>4, <1>5 DEF VmInv

\* A client with no request.
LEMMA NobodyAsks == IsRequest(NoRequest) /\ Serial(NoRequest)
  BY DEF NoRequest, IsRequest, Names, Serial

\* What servePublic goes on with does not run yet.
LEMMA RoutedIsSerial ==
    ASSUME NEW r, IsRequest(r), r.vm # "js", NEW route, NEW since, NEW put
    PROVE  LET q == Routed(r, route, since, put)
           IN  /\ IsRequest(q) /\ Serial(q) /\ q.pc \in {"file", "require"}
               /\ q.path = r.path /\ q.route = route /\ q.since = since /\ q.put = put
  <1> DEFINE x == IF route.script = Absent \/ route.script \in Outside THEN "file" ELSE "require"
             q == [r EXCEPT !.pc = x, !.route = route, !.since = since, !.put = put]
  <1>1. x \in {"file", "require"}
    OBVIOUS
  <1> HIDE DEF x
  <1>2. /\ IsRequest(q) /\ q.vm = r.vm /\ q.pc = x
        /\ q.path = r.path /\ q.route = route /\ q.since = since /\ q.put = put
    BY DEF IsRequest, Names
  <1>3. Routed(r, route, since, put) = q
    BY DEF Routed, x
  <1> HIDE DEF q
  <1> QED
    BY <1>1, <1>2, <1>3 DEF Serial

\* Each step of a request leaves the engine with one goroutine.
LEMMA VmStep == VmInv /\ [Next]_vars => VmInv'
  <1> SUFFICES ASSUME VmInv, [Next]_vars
               PROVE  VmInv'
    OBVIOUS
  <1>1. CASE UNCHANGED req
    BY <1>1 DEF VmInv
  <1>2. \A c \in Clients : IsRequest(req[c]) /\ Serial(req[c])
    BY DEF VmInv
  <1>3. ASSUME NEW c \in Clients, NEW p \in Paths, Accept(c, p)
        PROVE  VmInv'
    <2> DEFINE r == [NoRequest EXCEPT !.path = p]
    <2>1. IsRequest(r) /\ r.vm = NoRequest.vm
      BY NobodyAsks DEF IsRequest, Names
    <2>2. NoRequest.vm = "none"
      BY DEF NoRequest
    <2>3. /\ IsRequest([r EXCEPT !.pc = "idle"]) /\ Serial([r EXCEPT !.pc = "idle"])
          /\ IsRequest([r EXCEPT !.pc = "lookup"]) /\ Serial([r EXCEPT !.pc = "lookup"])
      BY <2>1, <2>2 DEF Serial, IsRequest, Names
    <2>4. Set(c, NoRequest) \/ Set(c, [r EXCEPT !.pc = "idle"]) \/ Set(c, [r EXCEPT !.pc = "lookup"])
      BY <1>3 DEF Accept
    <2> HIDE DEF r
    <2> QED
      BY <2>3, <2>4, NobodyAsks, OneRequest
  <1>4. ASSUME NEW c \in Clients, Lookup(c)
        PROVE  VmInv'
    <2>1. req[c].vm # "js"
      BY <1>2, <1>4 DEF Lookup, Serial
    <2>2. PICK route, since, put : \/ Set(c, Routed(req[c], route, since, put))
                                   \/ Set(c, [req[c] EXCEPT !.pc = "walk", !.since = now])
      BY <1>4 DEF Lookup
    <2>3. LET q == [req[c] EXCEPT !.pc = "walk", !.since = now] IN IsRequest(q) /\ Serial(q)
      BY <1>2, <2>1 DEF Serial, IsRequest, Names
    <2> QED
      BY <1>2, <2>1, <2>2, <2>3, RoutedIsSerial, OneRequest
  <1>5. ASSUME NEW c \in Clients, WalkTree(c)
        PROVE  VmInv'
    <2>1. req[c].vm # "js"
      BY <1>2, <1>5 DEF WalkTree, Serial
    <2>2. PICK x : Set(c, [req[c] EXCEPT !.pc = "put", !.route = x])
      BY <1>5 DEF WalkTree, Only
    <2>3. LET q == [req[c] EXCEPT !.pc = "put", !.route = x] IN IsRequest(q) /\ q.vm = req[c].vm
      BY <1>2 DEF IsRequest, Names
    <2> QED
      BY <2>1, <2>2, <2>3, OneRequest DEF Serial
  <1>6. ASSUME NEW c \in Clients, PutRoute(c)
        PROVE  VmInv'
    <2>1. req[c].vm # "js"
      BY <1>2, <1>6 DEF PutRoute, Serial
    <2>2. Set(c, Routed(req[c], req[c].route, req[c].since, now))
      BY <1>6 DEF PutRoute
    <2> QED
      BY <1>2, <2>1, <2>2, RoutedIsSerial, OneRequest
  <1>7. ASSUME NEW c \in Clients, Require(c)
        PROVE  VmInv'
    <2>1. PICK over : \/ Set(c, [NoRequest EXCEPT !.pc = "run", !.vm = "js", !.over = over])
                      \/ Set(c, [NoRequest EXCEPT !.pc = "cleanup", !.resp = "500"])
      BY <1>7 DEF Require, Only
    <2>2. LET q == [NoRequest EXCEPT !.pc = "run", !.vm = "js", !.over = over]
          IN  IsRequest(q) /\ q.pc = "run"
      BY NobodyAsks DEF NoRequest, IsRequest, Names
    <2>3. LET q == [NoRequest EXCEPT !.pc = "cleanup", !.resp = "500"]
          IN  IsRequest(q) /\ q.vm = "none"
      BY NobodyAsks DEF NoRequest, IsRequest, Names
    <2> QED
      BY <2>1, <2>2, <2>3, OneRequest DEF Serial
  <1>8. ASSUME NEW c \in Clients, ReadBody(c) \/ ReadForm(c)
        PROVE  VmInv'
    <2>1. PICK x : Set(c, [req[c] EXCEPT !.body = x])
      BY <1>8 DEF ReadBody, ReadForm, Only
    <2>2. IsRequest([req[c] EXCEPT !.body = x]) /\ Serial([req[c] EXCEPT !.body = x])
      BY <1>2 DEF Serial, IsRequest, Names
    <2> QED
      BY <2>1, <2>2, OneRequest
  <1>9. ASSUME NEW c \in Clients, Return(c) \/ Interrupted(c)
        PROVE  VmInv'
    <2>1. PICK x : Set(c, Over(req[c], x))
      BY <1>9 DEF Return, Interrupted, Only
    <2>2. IsRequest(Over(req[c], x)) /\ Over(req[c], x).vm = "over"
      BY <1>2 DEF IsRequest, Names, Over
    <2> QED
      BY <2>1, <2>2, OneRequest DEF Serial
  <1>10. ASSUME NEW c \in Clients, Expire(c) \/ Interrupt(c)
         PROVE  VmInv'
    <2>1. Set(c, [req[c] EXCEPT !.over = TRUE]) \/ Set(c, [req[c] EXCEPT !.flag = TRUE])
      BY <1>10 DEF Expire, Interrupt, Only
    <2>2. /\ IsRequest([req[c] EXCEPT !.over = TRUE]) /\ Serial([req[c] EXCEPT !.over = TRUE])
          /\ IsRequest([req[c] EXCEPT !.flag = TRUE]) /\ Serial([req[c] EXCEPT !.flag = TRUE])
      BY <1>2 DEF Serial, IsRequest, Names
    <2> QED
      BY <2>1, <2>2, OneRequest
  <1>11. ASSUME NEW c \in Clients, NEW resp, req[c].vm # "js",
                Set(c, [NoRequest EXCEPT !.pc = "cleanup", !.resp = resp, !.vm = req[c].vm])
         PROVE  VmInv'
    <2>1. LET q == [NoRequest EXCEPT !.pc = "cleanup", !.resp = resp, !.vm = req[c].vm]
          IN  IsRequest(q) /\ q.vm = req[c].vm
      BY NobodyAsks DEF NoRequest, IsRequest, Names
    <2> QED
      BY <1>11, <2>1, OneRequest DEF Serial
  <1>12. ASSUME NEW c \in Clients, Receive(c)
         PROVE  VmInv'
    <2>1. req[c].vm = "over"
      BY <1>12 DEF Receive, Receives
    <2>2. \/ Set(c, [NoRequest EXCEPT !.pc = "cleanup", !.resp = "500", !.vm = req[c].vm])
          \/ Set(c, [req[c] EXCEPT !.pc = "extract"])
      BY <1>12 DEF Receive, Only
    <2>3. IsRequest([req[c] EXCEPT !.pc = "extract"]) /\ Serial([req[c] EXCEPT !.pc = "extract"])
      BY <1>2, <2>1 DEF Serial, IsRequest, Names
    <2> QED
      BY <1>11, <2>1, <2>2, <2>3, OneRequest
  <1>13. ASSUME NEW c \in Clients, Extract(c)
         PROVE  VmInv'
    <2>1. req[c].vm # "js"
      BY <1>2, <1>13 DEF Extract, Serial
    <2>2. PICK resp : Set(c, [NoRequest EXCEPT !.pc = "cleanup", !.resp = resp, !.vm = req[c].vm])
      BY <1>13 DEF Extract, Only
    <2> QED
      BY <1>11, <2>1, <2>2
  <1>14. ASSUME NEW c \in Clients, Cleanup(c) \/ ServeFile(c)
         PROVE  VmInv'
    BY <1>14, NobodyAsks, OneRequest DEF Cleanup, ServeFile, Only
  <1>15. CASE Tick \/ \E s \in Edited : Edit(s)
    BY <1>1, <1>15 DEF Tick, Edit
  <1> QED
    BY <1>1, <1>3, <1>4, <1>5, <1>6, <1>7, <1>8, <1>9, <1>10, <1>12, <1>13, <1>14, <1>15 DEF Next, vars

\* At first nobody asks for anything.
LEMMA VmInit == Init => VmInv
  BY NobodyAsks DEF Init, VmInv

\* The engine of a script is used by one goroutine at a time: whatever expires, is interrupted or
\* hangs, its answer is read and it is cleaned up only when the handler is over.
THEOREM EngineIsSerial == Spec => []VmIsSerial
  <1>1. VmInv => VmIsSerial
    BY DEF VmInv, Serial, VmIsSerial
  <1> QED
    BY <1>1, VmInit, VmStep, PTL DEF Spec

-----------------------------------------------------------------------------
(* The cache of routes.                                                    *)

Keys(m) == DOMAIN m

\* Every entry has its key in the order, and expires a cache's time after it was put.
CacheInv ==
    /\ \E S : order \in Seq(S)
    /\ IsFiniteSet(Keys(entries)) /\ Keys(entries) \subseteq Range(order) /\ Cardinality(Keys(entries)) <= CacheMax
    /\ \A k \in Keys(entries) : entries[k].expires = entries[k].put + CacheTTL

\* What removing an element leaves, and what is in the sequence with it at the end.
LEMMA RemovedIs ==
    ASSUME NEW S, NEW s \in Seq(S), NEW i \in 1..Len(s), NEW t, t = RemoveAt(s, i)
    PROVE  /\ t \in Seq(S) /\ Len(t) = Len(s) - 1
           /\ \A j \in 1..(Len(s) - 1) : t[j] = IF j < i THEN s[j] ELSE s[j + 1]
  <1> DEFINE n == Len(s)
             a == SubSeq(s, 1, i - 1)
             b == SubSeq(s, i + 1, n)
  <1>1. n \in Nat /\ i \in 1..n /\ \A j \in 1..n : s[j] \in S
    OBVIOUS
  <1> HIDE DEF n
  <1>2. a \in Seq(S) /\ Len(a) = i - 1 /\ \A j \in 1..(i - 1) : a[j] = s[j]
    <2>1. 1 \in Int /\ i - 1 \in Int /\ \A j \in 1..(i - 1) : s[j] \in S
      BY <1>1
    <2>2. /\ a \in Seq(S) /\ Len(a) = IF 1 <= i - 1 THEN (i - 1) - 1 + 1 ELSE 0
          /\ \A j \in 1..((i - 1) - 1 + 1) : a[j] = s[1 + j - 1]
      BY <2>1, SubSeqProperties
    <2> HIDE DEF a
    <2> QED
      BY <1>1, <2>2
  <1>3. b \in Seq(S) /\ Len(b) = n - i /\ \A j \in 1..(n - i) : b[j] = s[i + j]
    <2>1. i + 1 \in Int /\ n \in Int /\ \A j \in (i + 1)..n : s[j] \in S
      BY <1>1
    <2>2. /\ b \in Seq(S) /\ Len(b) = IF i + 1 <= n THEN n - (i + 1) + 1 ELSE 0
          /\ \A j \in 1..(n - (i + 1) + 1) : b[j] = s[(i + 1) + j - 1]
      BY <2>1, SubSeqProperties
    <2> HIDE DEF b
    <2> QED
      BY <1>1, <2>2
  <1>4. t = a \o b
    BY Zenon DEF RemoveAt, n, a, b
  <1> HIDE DEF a, b
  <1>5. /\ t \in Seq(S) /\ Len(t) = Len(a) + Len(b)
        /\ \A j \in 1..(Len(a) + Len(b)) : t[j] = IF j <= Len(a) THEN a[j] ELSE b[j - Len(a)]
    <2>1. a \in Seq(S) /\ b \in Seq(S)
      BY <1>2, <1>3
    <2> QED
      BY <1>4, <2>1, ConcatProperties, ZenonT(40)
  <1>6. Len(t) = n - 1
    BY <1>1, <1>2, <1>3, <1>5
  <1>7. ASSUME NEW j \in 1..(n - 1) PROVE t[j] = IF j < i THEN s[j] ELSE s[j + 1]
    <2>1. CASE j < i
      <3>1. j \in 1..(i - 1) /\ j <= Len(a) /\ j \in 1..(Len(a) + Len(b))
        BY <1>1, <1>2, <1>3, <2>1
      <3> QED
        BY <1>2, <1>5, <2>1, <3>1
    <2>2. CASE ~(j < i)
      <3>1. ~(j <= Len(a)) /\ j \in 1..(Len(a) + Len(b)) /\ j - Len(a) \in 1..(n - i) /\ i + (j - Len(a)) = j + 1
        BY <1>1, <1>2, <1>3, <2>2
      <3> QED
        BY <1>3, <1>5, <2>2, <3>1
    <2> QED
      BY <2>1, <2>2
  <1> QED
    BY <1>5, <1>6, <1>7 DEF n

\* The range of a sequence, by its places.
LEMMA RangeIs ==
    ASSUME NEW S, NEW s \in Seq(S)
    PROVE  Range(s) = {s[i] : i \in 1..Len(s)}
  <1>1. DOMAIN s = 1..Len(s)
    OBVIOUS
  <1> QED
    BY <1>1, Zenon DEF Range

\* A key that is touched moves to the end; no other leaves the order.
LEMMA TouchedIs ==
    ASSUME NEW S, order \in Seq(S), NEW k
    PROVE  Touched(k) \in Seq(S) /\ Range(Touched(k)) = Range(order)
  <1> DEFINE First(j) == j \in DOMAIN order /\ order[j] = k /\ \A l \in 1..(j - 1) : order[l] # k
             i == CHOOSE j \in DOMAIN order : order[j] = k /\ \A l \in 1..(j - 1) : order[l] # k
             n == Len(order)
  <1>1. CASE k \notin Range(order)
    BY <1>1, Zenon DEF Touched
  <1>2. CASE k \in Range(order)
    <2> DEFINE T == {j \in DOMAIN order : order[j] = k}
    <2>1. n \in Nat /\ DOMAIN order = 1..n
      OBVIOUS
    <2>2. T \in SUBSET Nat /\ T # {}
      BY <1>2, <2>1 DEF Range
    <2>3. PICK m \in T : \A j \in T : m <= j
      <3> HIDE DEF T
      <3> QED
        BY <2>2, LeastNumber
    <2>4. First(m)
      BY <2>1, <2>3
    <2>5. First(i)
      BY <2>4, Zenon
    <2> HIDE DEF i
    <2> DEFINE t == RemoveAt(order, i)
               s == Append(t, k)
    <2>6. i \in 1..n /\ order[i] = k /\ k \in S
      BY <2>1, <2>5
    <2>7. t \in Seq(S) /\ Len(t) = n - 1 /\ \A j \in 1..(n - 1) : t[j] = IF j < i THEN order[j] ELSE order[j + 1]
      BY <2>6, RemovedIs
    <2> HIDE DEF t
    <2>8. s \in Seq(S) /\ Len(s) = n /\ s[n] = k /\ \A j \in 1..(n - 1) : s[j] = t[j]
      <3>1. Len(t) + 1 = n /\ Len(t) = n - 1
        BY <2>1, <2>7
      <3>2. s \in Seq(S) /\ Len(s) = Len(t) + 1 /\ s[Len(t) + 1] = k /\ \A j \in 1..Len(t) : s[j] = t[j]
        BY <2>6, <2>7
      <3> QED
        BY <3>1, <3>2
    <2> HIDE DEF s, n
    <2>9. ASSUME NEW j \in 1..n PROVE order[j] \in {s[l] : l \in 1..n}
      <3>1. CASE j < i
        <4>1. j \in 1..(n - 1) /\ s[j] = order[j]
          BY <2>1, <2>6, <2>7, <2>8, <3>1
        <4> QED
          BY <4>1
      <3>2. CASE j = i
        <4>1. n \in 1..n /\ s[n] = order[j]
          BY <2>1, <2>6, <2>8, <3>2
        <4> QED
          BY <4>1
      <3>3. CASE j > i
        <4>1. j - 1 \in 1..(n - 1) /\ j - 1 \in 1..n /\ ~(j - 1 < i) /\ (j - 1) + 1 = j
          BY <2>1, <2>6, <3>3
        <4>2. s[j - 1] = order[j]
          BY <2>7, <2>8, <4>1
        <4> QED
          BY <4>1, <4>2
      <3> QED
        BY <2>1, <2>6, <3>1, <3>2, <3>3
    <2>10. ASSUME NEW j \in 1..n PROVE s[j] \in {order[l] : l \in 1..n}
      <3>1. CASE j = n
        BY <2>6, <2>8, <3>1
      <3>2. CASE j # n
        <4>1. j \in 1..(n - 1) /\ j + 1 \in 1..n
          BY <2>1, <3>2
        <4>2. s[j] = order[j] \/ s[j] = order[j + 1]
          BY <2>7, <2>8, <4>1
        <4> QED
          BY <4>1, <4>2
      <3> QED
        BY <3>1, <3>2
    <2>11. Range(s) = {s[l] : l \in 1..n} /\ Range(order) = {order[l] : l \in 1..n}
      BY <2>8, RangeIs DEF n
    <2>12. Range(s) = Range(order)
      BY <2>9, <2>10, <2>11
    <2>13. Touched(k) = s
      BY <1>2, Zenon DEF Touched, s, t, i
    <2> QED
      BY <2>8, <2>12, <2>13
  <1> QED
    BY <1>1, <1>2

\* Taking keys from the front makes room, at the latest when there are none left.
LEMMA EvictedIs ==
    ASSUME CacheInv
    PROVE  /\ Evicted \in 0..Len(order) /\ Len(order) \in Nat
           /\ Cardinality(Keys(entries) \ {order[j] : j \in 1..Evicted}) < CacheMax
  <1> DEFINE Kept(n) == DOMAIN entries \ {order[j] : j \in 1..n}
             Room == {n \in 0..Len(order) : Cardinality(Kept(n)) < CacheMax}
  <1>1. PICK S : order \in Seq(S)
    BY DEF CacheInv
  <1>2. Len(order) \in Nat /\ DOMAIN order = 1..Len(order)
    BY <1>1
  <1>3. Kept(Len(order)) = {}
    BY <1>2 DEF CacheInv, Range, Keys
  <1>4. Len(order) \in Room
    <2>1. Cardinality(Kept(Len(order))) = 0
      <3> HIDE DEF Kept
      <3> QED
        BY <1>3, FS_EmptySet
    <2>2. CacheMax > 0
      BY ServerJSAssumption
    <2> HIDE DEF Kept
    <2> QED
      BY <1>2, <2>1, <2>2
  <1>5. Room \in SUBSET Nat /\ Room \subseteq 0..Len(order)
    BY <1>2
  <1>6. \E n \in Room : \A m \in Room : n <= m
    <2> HIDE DEF Room
    <2> QED
      BY <1>4, <1>5, LeastNumber
  <1>7. Evicted = CHOOSE n \in Room : \A m \in Room : n <= m
    BY <1>4, Zenon DEF Evicted
  <1>8. Evicted \in Room
    BY <1>6, <1>7, Zenon
  <1> QED
    BY <1>2, <1>8 DEF Keys

\* More names may follow.
LEMMA OrderGrows ==
    ASSUME NEW S, NEW s \in Seq(S), NEW k
    PROVE  /\ Append(s, k) \in Seq(S \cup {k}) /\ Range(Append(s, k)) = Range(s) \cup {k}
  <1>1. s \in Seq(S \cup {k}) /\ Len(s) \in Nat /\ DOMAIN s = 1..Len(s)
    OBVIOUS
  <1>2. Append(s, k) \in Seq(S \cup {k}) /\ Len(Append(s, k)) = Len(s) + 1 /\ Append(s, k)[Len(s) + 1] = k
        /\ \A i \in 1..Len(s) : Append(s, k)[i] = s[i]
    BY <1>1
  <1> DEFINE t == Append(s, k)
  <1> HIDE DEF t
  <1>3. DOMAIN t = 1..(Len(s) + 1) /\ t[Len(s) + 1] = k /\ \A i \in 1..Len(s) : t[i] = s[i]
    BY <1>2 DEF t
  <1>4. Range(t) = Range(s) \cup {k}
    <2>1. Range(t) = {t[i] : i \in 1..(Len(s) + 1)} /\ Range(s) = {s[i] : i \in 1..Len(s)}
      <3>1. Len(t) = Len(s) + 1 /\ t \in Seq(S \cup {k})
        BY <1>2 DEF t
      <3> QED
        BY <3>1, RangeIs
    <2>2. \A i \in 1..(Len(s) + 1) : i \in 1..Len(s) \/ i = Len(s) + 1
      BY <1>1
    <2>3. Len(s) + 1 \in 1..(Len(s) + 1) /\ 1..Len(s) \subseteq 1..(Len(s) + 1)
      BY <1>1
    <2>4. ASSUME NEW x \in Range(t) PROVE x \in Range(s) \cup {k}
      BY <1>3, <2>1, <2>2
    <2>5. ASSUME NEW x \in Range(s) PROVE x \in Range(t)
      BY <1>3, <2>1, <2>3
    <2>6. k \in Range(t)
      BY <1>3, <2>1, <2>3
    <2> QED
      BY <2>4, <2>5, <2>6
  <1> QED
    BY <1>2, <1>4 DEF t

\* Looking a route up keeps it.
LEMMA GetKeeps ==
    ASSUME CacheInv, NEW k, Get(k)
    PROVE  CacheInv'
  <1>1. PICK S : order \in Seq(S)
    BY DEF CacheInv
  <1>2. CASE GetHit(k)
    <2>1. order' = Touched(k) /\ entries' = entries
      BY <1>2 DEF Get
    <2>2. order' \in Seq(S) /\ Range(order') = Range(order)
      BY <1>1, <2>1, TouchedIs
    <2> QED
      BY <2>1, <2>2 DEF CacheInv, Keys
  <1>3. CASE ~GetHit(k)
    <2>1. entries' = Without(k) /\ order' = order
      BY <1>3 DEF Get
    <2>2. Keys(entries') = Keys(entries) \ {k} /\ \A x \in Keys(entries') : entries'[x] = entries[x]
      BY <2>1 DEF Without, Keys
    <2>3. IsFiniteSet(Keys(entries) \ {k}) /\ Cardinality(Keys(entries) \ {k}) <= Cardinality(Keys(entries))
      BY FS_Subset DEF CacheInv
    <2>4. /\ IsFiniteSet(Keys(entries)) /\ Cardinality(Keys(entries)) <= CacheMax /\ CacheMax \in Nat
          /\ Cardinality(Keys(entries)) \in Nat /\ Cardinality(Keys(entries) \ {k}) \in Nat
      BY <2>3, FS_CardinalityType, ServerJSAssumption DEF CacheInv
    <2>5. IsFiniteSet(Keys(entries')) /\ Cardinality(Keys(entries')) <= CacheMax
      BY <2>2, <2>3, <2>4
    <2>6. Keys(entries') \subseteq Range(order') /\ \E s : order' \in Seq(s)
      BY <1>1, <2>1, <2>2 DEF CacheInv
    <2>7. \A x \in Keys(entries') : entries'[x].expires = entries'[x].put + CacheTTL
      BY <2>2 DEF CacheInv
    <2> QED
      BY <2>5, <2>6, <2>7 DEF CacheInv
  <1> QED
    BY <1>2, <1>3

\* Adding an entry.
LEMMA WithIs ==
    ASSUME NEW m, NEW k, NEW e
    PROVE  /\ Keys(With(m, k, e)) = Keys(m) \cup {k}
           /\ \A x \in Keys(m) \cup {k} : With(m, k, e)[x] = IF x = k THEN e ELSE m[x]
  BY DEF With, Keys

\* Putting one in does, with what it evicts.
LEMMA PutKeeps ==
    ASSUME CacheInv, NEW k, NEW route, NEW since, Put(k, route, since), now \in Nat
    PROVE  CacheInv'
  <1> DEFINE e == [route |-> route, since |-> since, put |-> now, expires |-> now + CacheTTL]
             gone == {order[j] : j \in 1..Evicted}
             kept == [x \in DOMAIN entries \ gone |-> entries[x]]
             rest == SubSeq(order, Evicted + 1, Len(order))
  <1>1. PICK S : order \in Seq(S)
    BY DEF CacheInv
  <1>2. e.expires = e.put + CacheTTL
    OBVIOUS
  <1>3. CASE k \in DOMAIN entries
    <2>1. order' = Touched(k) /\ entries' = With(entries, k, e)
      BY <1>3 DEF Put
    <2>2. order' \in Seq(S) /\ Range(order') = Range(order)
      BY <1>1, <2>1, TouchedIs
    <2> HIDE DEF e
    <2>3. Keys(entries') = Keys(entries) /\ \A x \in Keys(entries) : entries'[x] = IF x = k THEN e ELSE entries[x]
      <3>1. Keys(entries) \cup {k} = Keys(entries)
        BY <1>3 DEF Keys
      <3> QED
        BY <2>1, <3>1, WithIs
    <2> QED
      BY <1>2, <2>2, <2>3 DEF CacheInv
  <1>4. CASE k \notin DOMAIN entries
    <2>1. order' = Append(rest, k) /\ entries' = With(kept, k, e)
      BY <1>4 DEF Put
    <2>2. /\ Evicted \in 0..Len(order) /\ Len(order) \in Nat /\ Cardinality(Keys(entries) \ gone) < CacheMax
      BY EvictedIs
    <2>3. rest \in Seq(S) /\ Len(rest) = Len(order) - Evicted
          /\ \A j \in 1..(Len(order) - Evicted) : rest[j] = order[Evicted + j]
      <3> DEFINE v == Evicted
      <3>1. v \in 0..Len(order) /\ \A j \in (v + 1)..Len(order) : order[j] \in S
        BY <1>1, <2>2
      <3> HIDE DEF v
      <3> DEFINE r == SubSeq(order, v + 1, Len(order))
      <3>2. /\ r \in Seq(S) /\ Len(r) = IF v + 1 <= Len(order) THEN Len(order) - (v + 1) + 1 ELSE 0
            /\ \A j \in 1..(Len(order) - (v + 1) + 1) : r[j] = order[(v + 1) + j - 1]
        <4>1. v + 1 \in Int /\ Len(order) \in Int
          BY <2>2, <3>1
        <4> QED
          BY <3>1, <4>1, SubSeqProperties
      <3> HIDE DEF r
      <3>3. Len(r) = Len(order) - v /\ \A j \in 1..(Len(order) - v) : r[j] = order[v + j]
        BY <2>2, <3>1, <3>2
      <3> QED
        BY <3>2, <3>3 DEF r, v
    <2> HIDE DEF rest
    <2>4. ASSUME NEW x \in Keys(entries) \ gone PROVE x \in Range(rest)
      <3>1. PICK i \in 1..Len(order) : x = order[i]
        <4>1. x \in Range(order) /\ Range(order) = {order[i] : i \in 1..Len(order)}
          BY <1>1, <2>4, RangeIs DEF CacheInv
        <4> QED
          BY <4>1
      <3>2. ~(i \in 1..Evicted)
        BY <3>1
      <3>3. i - Evicted \in 1..Len(rest) /\ i - Evicted \in 1..(Len(order) - Evicted) /\ Evicted + (i - Evicted) = i
        BY <2>2, <2>3, <3>2
      <3>4. x = rest[i - Evicted]
        BY <2>3, <3>1, <3>3
      <3>5. Range(rest) = {rest[j] : j \in 1..Len(rest)}
        BY <2>3, RangeIs
      <3> QED
        BY <3>3, <3>4, <3>5
    <2>5. Keys(kept) = Keys(entries) \ gone /\ \A x \in Keys(kept) : kept[x] = entries[x]
      BY DEF Keys
    <2> HIDE DEF kept, e, gone
    <2>6. Keys(entries') = Keys(kept) \cup {k}
          /\ \A x \in Keys(kept) \cup {k} : entries'[x] = IF x = k THEN e ELSE kept[x]
      BY <2>1, WithIs
    <2>7. order' \in Seq(S \cup {k}) /\ Range(order') = Range(rest) \cup {k}
      BY <2>1, <2>3, OrderGrows
    <2>8. Keys(entries') \subseteq Range(order')
      BY <2>4, <2>5, <2>6, <2>7
    <2>9. IsFiniteSet(Keys(entries')) /\ Cardinality(Keys(entries')) <= CacheMax
      <3> DEFINE K == Keys(kept)
      <3>1. IsFiniteSet(K)
        BY <2>5, FS_Subset DEF CacheInv
      <3>2. Cardinality(K) < CacheMax /\ CacheMax \in Nat
        BY <2>2, <2>5, ServerJSAssumption
      <3> HIDE DEF K
      <3>3. Cardinality(K) \in Nat
        BY <3>1, FS_CardinalityType
      <3>4. IsFiniteSet(K \cup {k}) /\ Cardinality(K \cup {k}) = IF k \in K THEN Cardinality(K) ELSE Cardinality(K) + 1
        BY <3>1, FS_AddElement
      <3>5. Cardinality(K \cup {k}) <= CacheMax
        BY <3>2, <3>3, <3>4
      <3> QED
        BY <2>6, <3>4, <3>5 DEF K
    <2>10. \A x \in Keys(entries') : entries'[x].expires = entries'[x].put + CacheTTL
      <3>1. \A x \in Keys(kept) : kept[x].expires = kept[x].put + CacheTTL
        BY <2>5 DEF CacheInv
      <3> QED
        BY <1>2, <2>6, <3>1 DEF e
    <2> QED
      BY <2>7, <2>8, <2>9, <2>10 DEF CacheInv
  <1> QED
    BY <1>3, <1>4

CacheHolds == CacheInv /\ now \in Nat

\* Nothing but a look-up or a put touches the cache, and the clock only goes on.
LEMMA CacheStep == CacheHolds /\ [Next]_vars => CacheHolds'
  <1> SUFFICES ASSUME CacheInv, now \in Nat, [Next]_vars PROVE CacheInv' /\ now' \in Nat
    BY DEF CacheHolds
  <1>1. CASE UNCHANGED <<entries, order, now>>
    BY <1>1 DEF CacheInv, Keys
  <1>2. ASSUME NEW c \in Clients, \E p \in Paths : Accept(c, p) PROVE UNCHANGED <<entries, order, now>>
    BY <1>2 DEF Accept
  <1>3. ASSUME NEW c \in Clients, WalkTree(c) \/ ServeFile(c) \/ Require(c) PROVE UNCHANGED <<entries, order, now>>
    BY <1>3 DEF WalkTree, ServeFile, Require, Only
  <1>4. ASSUME NEW c \in Clients, ReadBody(c) \/ ReadForm(c) \/ Return(c) PROVE UNCHANGED <<entries, order, now>>
    BY <1>4 DEF ReadBody, ReadForm, Return, Only
  <1>5. ASSUME NEW c \in Clients, Interrupted(c) \/ Expire(c) \/ Interrupt(c) PROVE UNCHANGED <<entries, order, now>>
    BY <1>5 DEF Interrupted, Expire, Interrupt, Only
  <1>6. ASSUME NEW c \in Clients, Receive(c) \/ Extract(c) \/ Cleanup(c) PROVE UNCHANGED <<entries, order, now>>
    BY <1>6 DEF Receive, Extract, Cleanup, Only
  <1>7. ASSUME NEW c \in Clients, Lookup(c) PROVE CacheInv' /\ now' \in Nat
    <2>1. Get(req[c].path) /\ now' = now
      BY <1>7 DEF Lookup
    <2> QED
      BY <2>1, GetKeeps
  <1>8. ASSUME NEW c \in Clients, PutRoute(c) PROVE CacheInv' /\ now' \in Nat
    <2>1. Put(req[c].path, req[c].route, req[c].since) /\ now' = now
      BY <1>8 DEF PutRoute
    <2> QED
      BY <2>1, PutKeeps
  <1>9. ASSUME NEW s \in Edited, Edit(s) PROVE UNCHANGED <<entries, order, now>>
    BY <1>9 DEF Edit
  <1>10. CASE Tick
    <2>1. now' \in Nat /\ UNCHANGED <<entries, order>>
      BY <1>10 DEF Tick
    <2> QED
      BY <2>1 DEF CacheInv, Keys
  <1>11. CASE UNCHANGED vars
    BY <1>1, <1>11 DEF vars
  <1> QED
    BY <1>1, <1>2, <1>3, <1>4, <1>5, <1>6, <1>7, <1>8, <1>9, <1>10, <1>11 DEF Next

\* An empty cache.
LEMMA CacheInit == Init => CacheHolds
  <1> SUFFICES ASSUME Init PROVE CacheInv /\ now \in Nat
    BY DEF CacheHolds
  <1>1. entries = << >> /\ order = << >> /\ now = 0
    BY DEF Init
  <1>2. Keys(entries) = {}
    BY <1>1 DEF Keys
  <1>3. \E S : order \in Seq(S)
    <2>1. << >> \in Seq({})
      OBVIOUS
    <2> QED
      BY <1>1, <2>1
  <1>4. Cardinality({}) = 0 /\ IsFiniteSet({})
    BY FS_EmptySet
  <1>5. CacheMax \in Nat
    BY ServerJSAssumption
  <1>6. now \in Nat /\ Cardinality(Keys(entries)) <= CacheMax
    <2>1. Cardinality(Keys(entries)) = 0
      BY <1>2, <1>4, Zenon
    <2>2. 0 <= CacheMax
      BY <1>5
    <2> QED
      BY <1>1, <2>1, <2>2
  <1> QED
    BY <1>2, <1>3, <1>4, <1>6 DEF CacheInv

\* However look-ups, expiries and evictions of all requests interleave, the cache
\* holds no more routes than it may, and each of them can be evicted.
THEOREM CacheKeepsItsBound == Spec => []CacheIsBounded
  <1>1. CacheHolds => CacheIsBounded
    BY DEF CacheHolds, CacheInv, CacheIsBounded, Keys
  <1> QED
    BY <1>1, CacheInit, CacheStep, PTL DEF Spec

-----------------------------------------------------------------------------
(* The routes that answer.                                                 *)

\* A request that looks its route up or has walked for it goes on only by that.
LEMMA RoutesOnly ==
    ASSUME VmInv, Next, NEW c \in Clients, req[c].pc \in {"lookup", "put"}
    PROVE  req'[c] = req[c] \/ Lookup(c) \/ PutRoute(c)
  <1>1. ASSUME NEW x \in Clients, NEW r, Set(x, r), x # c PROVE req'[c] = req[c]
    BY <1>1 DEF VmInv, Set
  <1>2. req[c].vm # "js"
    BY DEF VmInv, Serial
  <1>3. ASSUME NEW x \in Clients, \E p \in Paths : Accept(x, p) PROVE req'[c] = req[c]
    <2>1. x # c
      BY <1>3 DEF Accept
    <2>2. \E r : Set(x, r)
      BY <1>3 DEF Accept
    <2> QED
      BY <1>1, <2>1, <2>2
  <1>4. ASSUME NEW x \in Clients, WalkTree(x) \/ ServeFile(x) \/ Require(x) PROVE req'[c] = req[c]
    <2>1. x # c
      BY <1>4 DEF WalkTree, ServeFile, Require
    <2>2. \E r : Set(x, r)
      BY <1>4 DEF WalkTree, ServeFile, Require, Only
    <2> QED
      BY <1>1, <2>1, <2>2
  <1>5. ASSUME NEW x \in Clients, ReadBody(x) \/ ReadForm(x) \/ Return(x) \/ Interrupted(x) PROVE req'[c] = req[c]
    <2>1. x # c
      BY <1>2, <1>5 DEF ReadBody, ReadForm, Return, Interrupted
    <2>2. \E r : Set(x, r)
      BY <1>5 DEF ReadBody, ReadForm, Return, Interrupted, Only
    <2> QED
      BY <1>1, <2>1, <2>2
  <1>6. ASSUME NEW x \in Clients, Expire(x) \/ Interrupt(x) PROVE req'[c] = req[c]
    <2>1. x # c
      BY <1>6 DEF Expire, Interrupt, Interrupts
    <2>2. \E r : Set(x, r)
      BY <1>6 DEF Expire, Interrupt, Only
    <2> QED
      BY <1>1, <2>1, <2>2
  <1>7. ASSUME NEW x \in Clients, Receive(x) \/ Extract(x) \/ Cleanup(x) PROVE req'[c] = req[c]
    <2>1. x # c
      BY <1>7 DEF Receive, Extract, Cleanup
    <2>2. \E r : Set(x, r)
      BY <1>7 DEF Receive, Extract, Cleanup, Only
    <2> QED
      BY <1>1, <2>1, <2>2
  <1>8. ASSUME NEW x \in Clients, Lookup(x) \/ PutRoute(x) PROVE req'[c] = req[c] \/ Lookup(c) \/ PutRoute(c)
    <2>1. \E r : Set(x, r)
      BY <1>8 DEF Lookup, PutRoute
    <2> QED
      BY <1>1, <1>8, <2>1
  <1>9. CASE Tick \/ \E s \in Edited : Edit(s)
    BY <1>9 DEF Tick, Edit
  <1> QED
    BY <1>3, <1>4, <1>5, <1>6, <1>7, <1>8, <1>9 DEF Next

\* The trees the site had, the last of which it has.
Versions == [tree : SUBSET Scripts, from : Nat]
PastInv ==
    /\ now \in Nat /\ past \in Seq(Versions) /\ past # <<>> /\ past[Len(past)].tree = tree
    /\ \A k \in DOMAIN past : past[k].from <= now

LEMMA TreesBefore == PastInv => \A k \in DOMAIN past : past[k].from \in Nat /\ past[k].from <= now
  <1> SUFFICES ASSUME PastInv, NEW k \in DOMAIN past PROVE past[k].from \in Nat /\ past[k].from <= now
    OBVIOUS
  <1>1. past[k] \in Versions
    BY DEF PastInv
  <1> QED
    BY <1>1 DEF PastInv, Versions

\* A route that was the best for the path at some time from since to put.
WasBest(p, route, since, put) ==
    /\ since \in Nat /\ put \in Nat /\ since <= put /\ put <= now
    /\ Plain(p) => \E k \in DOMAIN past : WasSite(k, since, put) /\ Best(past[k].tree, p, route)

\* What a request knows on its way to a route, and what the cache does.
OnItsWay(r) ==
    /\ r.pc \in {"lookup", "walk", "put"} => r.path \in Paths
    /\ r.pc \in {"walk", "put"} => r.since \in Nat /\ r.since <= now
    /\ r.pc = "put" => WasBest(r.path, r.route, r.since, now)
Cached == \A k \in Keys(entries) : WasBest(k, entries[k].route, entries[k].since, entries[k].put)

RouteInv == PastInv /\ Cached /\ \A c \in Clients : OnItsWay(req[c])

\* The site goes on: what was the best once stays so.
LEMMA PastGrows ==
    ASSUME PastInv,
           \/ past' = past /\ now' \in Nat /\ now <= now'
           \/ now' = now /\ \E t \in Versions : past' = Append(past, t) /\ t.from = now
    PROVE  \A p, route, since, put : WasBest(p, route, since, put) => WasBest(p, route, since, put)'
  <1> SUFFICES ASSUME NEW p, NEW route, NEW since, NEW put, WasBest(p, route, since, put)
               PROVE  WasBest(p, route, since, put)'
    OBVIOUS
  <1>1. since \in Nat /\ put \in Nat /\ since <= put /\ put <= now /\ now \in Nat /\ now' \in Nat /\ now <= now'
    BY DEF WasBest, PastInv
  <1>2. ASSUME Plain(p) PROVE (\E k \in DOMAIN past : WasSite(k, since, put) /\ Best(past[k].tree, p, route))'
    <2>1. PICK k \in DOMAIN past : WasSite(k, since, put) /\ Best(past[k].tree, p, route)
      BY <1>2 DEF WasBest
    <2>2. CASE past' = past
      <3>1. WasSite(k, since, put)'
        BY <2>1, <2>2 DEF WasSite
      <3> QED
        BY <2>1, <2>2, <3>1
    <2>3. CASE \E t \in Versions : past' = Append(past, t) /\ t.from = now
      <3>1. PICK t \in Versions : past' = Append(past, t) /\ t.from = now
        BY <2>3
      <3>2. /\ Len(past) \in Nat /\ DOMAIN past = 1..Len(past) /\ DOMAIN past' = 1..(Len(past) + 1)
            /\ past'[Len(past) + 1] = t /\ \A i \in 1..Len(past) : past'[i] = past[i]
        BY <3>1 DEF PastInv
      <3>3. past[k].from <= put /\ (k + 1 \in DOMAIN past => since <= past[k + 1].from)
        BY <2>1 DEF WasSite
      <3>4. k \in DOMAIN past' /\ past'[k] = past[k]
        BY <3>2
      <3>5. ASSUME k + 1 \in DOMAIN past' PROVE since <= past'[k + 1].from
        <4>1. CASE k + 1 \in DOMAIN past
          BY <3>2, <3>3, <4>1
        <4>2. CASE k + 1 \notin DOMAIN past
          <5>1. k + 1 = Len(past) + 1
            BY <3>2, <3>5, <4>2
          <5>2. past'[k + 1].from = now
            BY <3>1, <3>2, <5>1, Zenon
          <5>3. since <= now
            BY <1>1
          <5> QED
            BY <5>2, <5>3, Zenon
        <4> QED
          BY <4>1, <4>2
      <3>6. WasSite(k, since, put)'
        BY <3>3, <3>4, <3>5 DEF WasSite
      <3> QED
        BY <2>1, <3>4, <3>6
    <2>4. past' = past \/ \E t \in Versions : past' = Append(past, t) /\ t.from = now
      OBVIOUS
    <2> QED
      BY <2>2, <2>3, <2>4
  <1> QED
    BY <1>1, <1>2 DEF WasBest

\* What holds of the requests goes on to hold while the site does.
LEMMA OnTheirWay ==
    ASSUME RouteInv,
           \/ past' = past /\ now' \in Nat /\ now <= now'
           \/ now' = now /\ \E t \in Versions : past' = Append(past, t) /\ t.from = now
    PROVE  \A r : OnItsWay(r) => OnItsWay(r)'
  <1>1. \A p, route, since, put : WasBest(p, route, since, put) => WasBest(p, route, since, put)'
    BY PastGrows DEF RouteInv
  <1> SUFFICES ASSUME NEW r, OnItsWay(r) PROVE OnItsWay(r)'
    OBVIOUS
  <1>2. now \in Nat /\ now' \in Nat /\ now <= now'
    BY DEF RouteInv, PastInv
  <1>3. r.pc \in {"walk", "put"} => r.since \in Nat /\ r.since <= now'
    BY <1>2 DEF OnItsWay
  <1>4. ASSUME r.pc = "put" PROVE WasBest(r.path, r.route, r.since, now)'
    <2>1. WasBest(r.path, r.route, r.since, now)
      BY <1>4 DEF OnItsWay
    <2>2. CASE past' = past
      <3>1. r.since \in Nat /\ r.since <= now'
        BY <1>2, <1>3, <1>4
      <3>2. ASSUME Plain(r.path)
            PROVE  (\E k \in DOMAIN past : WasSite(k, r.since, now) /\ Best(past[k].tree, r.path, r.route))'
        <4>1. PICK k \in DOMAIN past : WasSite(k, r.since, now) /\ Best(past[k].tree, r.path, r.route)
          BY <2>1, <3>2 DEF WasBest
        <4>2. past[k].from \in Nat /\ past[k].from <= now
          BY TreesBefore DEF RouteInv
        <4>3. past[k].from <= now'
          BY <1>2, <4>2
        <4>4. WasSite(k, r.since, now)'
          BY <2>2, <4>1, <4>3 DEF WasSite
        <4> QED
          BY <2>2, <4>1, <4>4
      <3> QED
        BY <1>2, <3>1, <3>2 DEF WasBest
    <2>3. CASE now' = now
      <3>1. PICK n : n = now
        OBVIOUS
      <3>2. WasBest(r.path, r.route, r.since, n)'
        BY <1>1, <2>1, <3>1
      <3> QED
        BY <2>3, <3>1, <3>2 DEF WasBest, WasSite
    <2> QED
      BY <2>2, <2>3
  <1> QED
    BY <1>3, <1>4 DEF OnItsWay

\* One request changes, and neither the site nor the time.
LEMMA OneGoesOn ==
    ASSUME RouteInv, VmInv, NEW c \in Clients, NEW r, Set(c, r), OnItsWay(r), UNCHANGED <<tree, past, now>>
    PROVE  PastInv' /\ \A x \in Clients : OnItsWay(req[x])'
  <1>1. \A x \in Clients : req'[x] = IF x = c THEN r ELSE req[x]
    BY DEF VmInv, Set
  <1>2. \A q : OnItsWay(q) => OnItsWay(q)'
    BY OnTheirWay DEF RouteInv, PastInv
  <1>3. ASSUME NEW x \in Clients PROVE OnItsWay(req[x])'
    <2>1. OnItsWay(req'[x])
      BY <1>1 DEF RouteInv
    <2> DEFINE q == req'[x]
    <2>2. OnItsWay(q) => OnItsWay(req[x])'
      BY DEF OnItsWay, WasBest, WasSite
    <2> QED
      BY <2>1, <2>2
  <1>4. PastInv'
    BY DEF RouteInv, PastInv
  <1> QED
    BY <1>3, <1>4

\* What the cache holds is still of these entries or of one more.
LEMMA CachedKeeps ==
    ASSUME RouteInv, UNCHANGED <<past, now>>, NEW k, NEW e, WasBest(k, e.route, e.since, e.put),
           \A x \in Keys(entries') : (entries'[x] = entries[x] /\ x \in Keys(entries)) \/ (x = k /\ entries'[x] = e)
    PROVE  Cached'
  <1>1. \A x \in Keys(entries') : WasBest(x, entries'[x].route, entries'[x].since, entries'[x].put)
    BY DEF RouteInv, Cached
  <1> QED
    BY <1>1 DEF Cached, WasBest, WasSite

\* While neither the cache nor a request changes, what was the best stays in them.
LEMMA StaysBest ==
    ASSUME RouteInv, UNCHANGED <<entries, req>>, PastInv',
           \A p, route, since, put : WasBest(p, route, since, put) => WasBest(p, route, since, put)',
           \A r : OnItsWay(r) => OnItsWay(r)'
    PROVE  RouteInv'
  <1>1. Cached'
    <2> SUFFICES ASSUME NEW k \in Keys(entries')
                 PROVE  WasBest(k, entries[k].route, entries[k].since, entries[k].put)'
      BY DEF Cached
    <2>1. PICK e : e = entries[k]
      OBVIOUS
    <2>2. WasBest(k, e.route, e.since, e.put)
      BY <2>1 DEF RouteInv, Cached, Keys
    <2>3. WasBest(k, e.route, e.since, e.put)' /\ entries'[k] = e
      BY <2>1, <2>2
    <2> QED
      BY <2>3 DEF WasBest, WasSite
  <1>2. ASSUME NEW c \in Clients PROVE OnItsWay(req[c])'
    <2> DEFINE r == req[c]
    <2>1. OnItsWay(r) => OnItsWay(r)'
      OBVIOUS
    <2> QED
      BY <2>1 DEF RouteInv
  <1> QED
    BY <1>1, <1>2 DEF RouteInv

\* Each step leaves in the cache, and with the requests, what was the best.
LEMMA RouteStep == VmInv /\ RouteInv /\ [Next]_vars => RouteInv'
  <1> SUFFICES ASSUME VmInv, RouteInv, [Next]_vars PROVE RouteInv'
    OBVIOUS
  <1>0. now \in Nat /\ \A c \in Clients : IsRequest(req[c]) /\ Serial(req[c]) /\ OnItsWay(req[c])
    BY DEF VmInv, RouteInv, PastInv
  <1>1. ASSUME NEW c \in Clients, NEW r, Set(c, r), OnItsWay(r), UNCHANGED <<tree, past, now, entries>>
        PROVE  RouteInv'
    <2>1. Cached'
      BY <1>1 DEF RouteInv, Cached, Keys, WasBest, WasSite
    <2> QED
      BY <1>1, <2>1, OneGoesOn DEF RouteInv
  <1>2. ASSUME NEW c \in Clients, NEW r, Set(c, r), r.pc \notin {"lookup", "walk", "put"},
               UNCHANGED <<tree, past, now, entries>>
        PROVE  RouteInv'
    BY <1>1, <1>2 DEF OnItsWay
  <1>3. ASSUME NEW c \in Clients, NEW p \in Paths, Accept(c, p) PROVE RouteInv'
    <2> DEFINE q == [NoRequest EXCEPT !.path = p]
               a == [q EXCEPT !.pc = "idle"]
               b == [q EXCEPT !.pc = "lookup"]
    <2>1. UNCHANGED <<tree, past, now, entries>> /\ (Set(c, NoRequest) \/ Set(c, a) \/ Set(c, b))
      BY <1>3 DEF Accept
    <2>2. NoRequest.pc = "idle" /\ a.pc = "idle" /\ b.pc = "lookup" /\ b.path = p
      BY DEF NoRequest
    <2> HIDE DEF a, b, q
    <2>3. OnItsWay(b) /\ OnItsWay(a) /\ OnItsWay(NoRequest)
      BY <2>2 DEF OnItsWay
    <2> QED
      BY <1>1, <2>1, <2>3
  <1>4. ASSUME NEW c \in Clients, Lookup(c) PROVE RouteInv'
    <2> DEFINE r == req[c]
               e == entries[r.path]
               w == [r EXCEPT !.pc = "walk", !.since = now]
               q == Routed(r, e.route, e.since, e.put)
    <2>1. r.pc = "lookup" /\ Get(r.path) /\ UNCHANGED <<tree, past, now>> /\ (Set(c, q) \/ Set(c, w))
      BY <1>4 DEF Lookup
    <2>2. w.pc = "walk" /\ w.since = now /\ w.path = r.path
      BY <1>0 DEF IsRequest, Names
    <2>3. OnItsWay(w)
      <3> HIDE DEF w
      <3> QED
        BY <1>0, <2>1, <2>2 DEF OnItsWay
    <2>4. q.pc \in {"file", "require"}
      <3>1. r.vm # "js"
        BY <1>0, <2>1 DEF Serial
      <3> QED
        BY <1>0, <3>1, RoutedIsSerial
    <2> HIDE DEF q, w
    <2>5. OnItsWay(q)
      BY <2>4 DEF OnItsWay
    <2>6. \A x \in Keys(entries') : x \in Keys(entries) /\ entries'[x] = entries[x]
      BY <2>1 DEF Get, Without, Keys
    <2>7. Cached'
      <3>1. \A x \in Keys(entries') : WasBest(x, entries'[x].route, entries'[x].since, entries'[x].put)
        BY <2>6 DEF RouteInv, Cached
      <3> QED
        BY <2>1, <3>1 DEF Cached, WasBest, WasSite
    <2> QED
      BY <2>1, <2>3, <2>5, <2>7, OneGoesOn DEF RouteInv
  <1>5. ASSUME NEW c \in Clients, WalkTree(c) PROVE RouteInv'
    <2> DEFINE r == req[c]
               route == Resolve(tree, r.path)
               q == [r EXCEPT !.pc = "put", !.route = route]
    <2>1. r.pc = "walk" /\ Set(c, q) /\ UNCHANGED <<tree, past, now, entries>>
      BY <1>5 DEF WalkTree, Only
    <2>2. r.path \in Paths /\ r.since \in Nat /\ r.since <= now
      BY <1>0, <2>1 DEF OnItsWay
    <2>3. q.pc = "put" /\ q.route = route /\ q.path = r.path /\ q.since = r.since
      BY <1>0 DEF IsRequest, Names
    <2>4. ASSUME Plain(r.path) PROVE Best(tree, r.path, route)
      <3>1. tree \in Site /\ r.path \in PlainPaths
        <4>1. tree \subseteq Scripts
          <5>1. Len(past) \in 1..Len(past) /\ past[Len(past)] \in Versions
            BY DEF RouteInv, PastInv
          <5> QED
            BY <5>1 DEF RouteInv, PastInv, Versions
        <4> QED
          BY <2>2, <2>4, <4>1, ServerJSAssumption DEF Site, PlainPaths
      <3> HIDE DEF r
      <3> QED
        BY <3>1, ResolveIsBest
    <2> HIDE DEF q, route
    <2>5. WasBest(r.path, route, r.since, now)
      <3> DEFINE k == Len(past)
      <3>1. k \in DOMAIN past /\ k + 1 \notin DOMAIN past /\ past[k].tree = tree /\ past[k].from <= now
        BY DEF RouteInv, PastInv
      <3>2. WasSite(k, r.since, now)
        BY <3>1 DEF WasSite
      <3> HIDE DEF k
      <3> QED
        BY <1>0, <2>2, <2>4, <3>1, <3>2 DEF WasBest
    <2>6. OnItsWay(q)
      BY <2>2, <2>3, <2>5 DEF OnItsWay
    <2> QED
      BY <1>1, <2>1, <2>6
  <1>6. ASSUME NEW c \in Clients, PutRoute(c) PROVE RouteInv'
    <2> DEFINE r == req[c]
               e == [route |-> r.route, since |-> r.since, put |-> now, expires |-> now + CacheTTL]
               q == Routed(r, r.route, r.since, now)
    <2>1. r.pc = "put" /\ Put(r.path, r.route, r.since) /\ Set(c, q) /\ UNCHANGED <<tree, past, now>>
      BY <1>6 DEF PutRoute
    <2>2. WasBest(r.path, e.route, e.since, e.put)
      BY <1>0, <2>1 DEF OnItsWay
    <2>3. q.pc \in {"file", "require"}
      <3>1. r.vm # "js"
        BY <1>0, <2>1 DEF Serial
      <3> QED
        BY <1>0, <3>1, RoutedIsSerial
    <2> HIDE DEF q
    <2>4. OnItsWay(q)
      BY <2>3 DEF OnItsWay
    <2>5. \A x \in Keys(entries') : (entries'[x] = entries[x] /\ x \in Keys(entries)) \/ (x = r.path /\ entries'[x] = e)
      <3> DEFINE gone == {order[j] : j \in 1..Evicted}
                 kept == [x \in DOMAIN entries \ gone |-> entries[x]]
      <3>1. entries' = With(entries, r.path, e) \/ entries' = With(kept, r.path, e)
        BY <2>1 DEF Put
      <3>2. Keys(kept) \subseteq Keys(entries) /\ \A x \in Keys(kept) : kept[x] = entries[x]
        BY DEF Keys
      <3> HIDE DEF kept, e
      <3>3. CASE entries' = With(entries, r.path, e)
        BY <3>3, WithIs
      <3>4. CASE entries' = With(kept, r.path, e)
        <4> SUFFICES ASSUME NEW x \in Keys(entries')
                     PROVE  (entries'[x] = entries[x] /\ x \in Keys(entries)) \/ (x = r.path /\ entries'[x] = e)
          OBVIOUS
        <4>1. x \in Keys(kept) \cup {r.path} /\ entries'[x] = IF x = r.path THEN e ELSE kept[x]
          BY <3>4, WithIs
        <4> QED
          BY <3>2, <4>1
      <3> QED
        BY <3>1, <3>3, <3>4
    <2> HIDE DEF e
    <2>6. Cached'
      BY <2>1, <2>2, <2>5, CachedKeeps
    <2> QED
      BY <2>1, <2>4, <2>6, OneGoesOn DEF RouteInv
  <1>7. ASSUME NEW c \in Clients, Require(c) \/ ServeFile(c) \/ Cleanup(c) \/ Extract(c) PROVE RouteInv'
    <2>1. /\ UNCHANGED <<tree, past, now, entries>>
          /\ \E r : Set(c, r) /\ r.pc \in {"idle", "run", "cleanup"}
      <3>1. CASE Require(c)
        <4> DEFINE a == [NoRequest EXCEPT !.pc = "run", !.vm = "js", !.over = req[c].over]
                   b == [NoRequest EXCEPT !.pc = "cleanup", !.resp = "500"]
        <4>1. a.pc = "run" /\ b.pc = "cleanup"
          BY DEF NoRequest
        <4> QED
          BY <3>1, <4>1 DEF Require, Only
      <3>2. CASE ServeFile(c) \/ Cleanup(c)
        BY <3>2 DEF ServeFile, Cleanup, Only, NoRequest
      <3>3. CASE Extract(c)
        <4>1. PICK resp : Only(c, [NoRequest EXCEPT !.pc = "cleanup", !.resp = resp, !.vm = req[c].vm])
          BY <3>3 DEF Extract
        <4> DEFINE q == [NoRequest EXCEPT !.pc = "cleanup", !.resp = resp, !.vm = req[c].vm]
        <4>2. q.pc = "cleanup"
          BY DEF NoRequest
        <4> QED
          BY <4>1, <4>2 DEF Only
      <3> QED
        BY <1>7, <3>1, <3>2, <3>3
    <2> QED
      BY <1>2, <2>1
  <1>8. ASSUME NEW c \in Clients, NEW z, req[c].pc \notin {"lookup", "walk", "put"},
               \/ Only(c, [req[c] EXCEPT !.body = z])
               \/ Only(c, Over(req[c], z))
               \/ Only(c, [req[c] EXCEPT !.over = z])
               \/ Only(c, [req[c] EXCEPT !.flag = z])
        PROVE  RouteInv'
    <2> DEFINE A == [req[c] EXCEPT !.body = z]
               B == Over(req[c], z)
               C == [req[c] EXCEPT !.over = z]
               D == [req[c] EXCEPT !.flag = z]
    <2>1. A.pc = req[c].pc /\ C.pc = req[c].pc /\ D.pc = req[c].pc
      BY <1>0 DEF IsRequest, Names
    <2>2. B.pc = req[c].pc
      BY <1>0 DEF IsRequest, Names, Over
    <2> HIDE DEF A, B, C, D
    <2>3. UNCHANGED <<tree, past, now, entries>> /\ (Set(c, A) \/ Set(c, B) \/ Set(c, C) \/ Set(c, D))
      BY <1>8 DEF Only, A, B, C, D
    <2> QED
      BY <1>2, <1>8, <2>1, <2>2, <2>3
  <1>9. ASSUME NEW c \in Clients, ReadBody(c) \/ ReadForm(c) \/ Return(c) \/ Interrupted(c) PROVE RouteInv'
    <2>1. req[c].pc = "run"
      BY <1>0, <1>9 DEF ReadBody, ReadForm, Return, Interrupted, Serial
    <2>2. \/ \E z : Only(c, [req[c] EXCEPT !.body = z])
          \/ \E z : Only(c, Over(req[c], z))
      BY <1>9 DEF ReadBody, ReadForm, Return, Interrupted
    <2> QED
      BY <1>8, <2>1, <2>2
  <1>10. ASSUME NEW c \in Clients, Expire(c) \/ Interrupt(c) PROVE RouteInv'
    BY <1>8, <1>10 DEF Expire, Interrupt, Interrupts
  <1>11. ASSUME NEW c \in Clients, Receive(c) PROVE RouteInv'
    <2> DEFINE a == [NoRequest EXCEPT !.pc = "cleanup", !.resp = "500", !.vm = req[c].vm]
               b == [req[c] EXCEPT !.pc = "extract"]
    <2>1. UNCHANGED <<tree, past, now, entries>> /\ (Set(c, a) \/ Set(c, b))
      BY <1>11 DEF Receive, Only
    <2>2. a.pc = "cleanup" /\ b.pc = "extract"
      BY <1>0 DEF NoRequest, IsRequest, Names
    <2> QED
      BY <1>2, <2>1, <2>2
  <1>12. ASSUME NEW s \in Edited, Edit(s) PROVE RouteInv'
    <2> DEFINE t == [tree |-> tree', from |-> now]
    <2>1. past' = Append(past, t) /\ now' = now /\ UNCHANGED <<entries, req>>
      BY <1>12 DEF Edit
    <2>2. tree \subseteq Scripts
      <3>1. Len(past) \in 1..Len(past) /\ past[Len(past)] \in Versions
        BY DEF RouteInv, PastInv
      <3> QED
        BY <3>1 DEF RouteInv, PastInv, Versions
    <2>3. t \in Versions /\ t.from = now /\ t.tree = tree'
      BY <1>0, <1>12, <2>2, ServerJSAssumption DEF Edit, Versions
    <2> HIDE DEF t
    <2>4. \A r : OnItsWay(r) => OnItsWay(r)'
      BY <2>1, <2>3, OnTheirWay
    <2>5. \A p, route, since, put : WasBest(p, route, since, put) => WasBest(p, route, since, put)'
      BY <2>1, <2>3, PastGrows DEF RouteInv
    <2>6. PastInv'
      <3>1. /\ Len(past) \in Nat /\ DOMAIN past = 1..Len(past) /\ past' \in Seq(Versions)
            /\ Len(past') = Len(past) + 1 /\ DOMAIN past' = 1..(Len(past) + 1)
            /\ past'[Len(past) + 1] = t /\ \A i \in 1..Len(past) : past'[i] = past[i]
        BY <2>1, <2>3 DEF RouteInv, PastInv
      <3> QED
        BY <1>0, <2>1, <2>3, <3>1 DEF RouteInv, PastInv
    <2> QED
      BY <2>1, <2>4, <2>5, <2>6, StaysBest
  <1>13. CASE Tick
    <2>1. past' = past /\ tree' = tree /\ now' \in Nat /\ now <= now' /\ UNCHANGED <<entries, req>>
      BY <1>0, <1>13 DEF Tick
    <2>2. \A r : OnItsWay(r) => OnItsWay(r)'
      BY <2>1, OnTheirWay
    <2>3. \A p, route, since, put : WasBest(p, route, since, put) => WasBest(p, route, since, put)'
      BY <2>1, PastGrows DEF RouteInv
    <2>4. PastInv'
      <3>1. \A k \in DOMAIN past : past[k].from \in Nat /\ past[k].from <= now
        BY TreesBefore DEF RouteInv
      <3>2. \A k \in DOMAIN past : past[k].from <= now'
        BY <1>0, <2>1, <3>1
      <3> QED
        BY <2>1, <3>2 DEF RouteInv, PastInv
    <2> QED
      BY <2>1, <2>2, <2>3, <2>4, StaysBest
  <1>14. CASE UNCHANGED vars
    BY <1>14 DEF vars, RouteInv, PastInv, Cached, OnItsWay, WasBest, WasSite, Keys
  <1> QED
    BY <1>3, <1>4, <1>5, <1>6, <1>7, <1>9, <1>10, <1>11, <1>12, <1>13, <1>14 DEF Next

\* A site with the tree it starts with, an empty cache and no request.
LEMMA RouteInit == Init => RouteInv
  <1> SUFFICES ASSUME Init PROVE RouteInv
    OBVIOUS
  <1>1. /\ tree \in SUBSET Scripts /\ past = << [tree |-> tree, from |-> 0] >> /\ now = 0
        /\ entries = << >> /\ req = [c \in Clients |-> NoRequest]
    BY ServerJSAssumption DEF Init
  <1> DEFINE t == [tree |-> tree, from |-> 0]
  <1>2. t \in Versions /\ t.tree = tree /\ t.from = 0
    BY <1>1 DEF Versions
  <1> HIDE DEF t
  <1>3. PastInv
    BY <1>1, <1>2 DEF PastInv, t
  <1>4. Cached /\ \A c \in Clients : OnItsWay(req[c])
    BY <1>1 DEF Cached, Keys, OnItsWay, NoRequest
  <1> QED
    BY <1>3, <1>4 DEF RouteInv

\* However the site is edited and whatever the cache still holds, what answers a request was
\* the best for its path among all scripts of the site, at a moment while the request that
\* walked for it did, which put it into the cache no longer ago than the cache keeps it.
THEOREM RoutesAreBest == Spec => RouteIsBest
  <1> DEFINE Answers(c) == req[c].pc \in {"lookup", "put"} /\ req'[c].pc \in {"require", "file"} =>
               LET r == req'[c]
               IN  /\ r.path = req[c].path /\ r.since <= r.put
                   /\ r.put <= now /\ now <= r.put + CacheTTL
                   /\ Plain(r.path) => \E k \in DOMAIN past :
                         WasSite(k, r.since, r.put) /\ Best(past[k].tree, r.path, r.route)
             Best_ == \A c \in Clients : Answers(c)
  <1>1. VmInv /\ CacheHolds /\ RouteInv /\ [Next]_vars => [Best_]_vars
    <2> SUFFICES ASSUME VmInv, CacheInv, now \in Nat, RouteInv, Next, NEW c \in Clients,
                        req[c].pc \in {"lookup", "put"}, req'[c].pc \in {"require", "file"}
                 PROVE  LET r == req'[c]
                        IN  /\ r.path = req[c].path /\ r.put <= now /\ now <= r.put + CacheTTL
                            /\ WasBest(r.path, r.route, r.since, r.put)
      BY DEF CacheHolds, WasBest
    <2> DEFINE r == req[c]
               k == r.path
    <2>1. Lookup(c) \/ PutRoute(c)
      BY RoutesOnly
    <2>2. IsRequest(r) /\ r.vm # "js" /\ CacheTTL \in Nat
      BY ServerJSAssumption DEF VmInv, Serial
    <2>3. CASE Lookup(c)
      <3> DEFINE w == [r EXCEPT !.pc = "walk", !.since = now]
                 e == entries[k]
                 q == Routed(r, e.route, e.since, e.put)
      <3>1. req'[c] = IF GetHit(k) THEN q ELSE w
        BY <2>3 DEF Lookup, Set, VmInv
      <3>2. w.pc = "walk"
        BY <2>2 DEF IsRequest, Names
      <3>3. GetHit(k) /\ req'[c] = q
        BY <3>1, <3>2
      <3>4. q.path = k /\ q.route = e.route /\ q.since = e.since /\ q.put = e.put
        BY <2>2, RoutedIsSerial
      <3>5. WasBest(k, e.route, e.since, e.put) /\ now <= e.put + CacheTTL
        BY <3>3 DEF GetHit, CacheInv, RouteInv, Cached, Keys
      <3> HIDE DEF q, e
      <3> QED
        BY <3>3, <3>4, <3>5 DEF WasBest
    <2>4. CASE PutRoute(c)
      <3> DEFINE q == Routed(r, r.route, r.since, now)
      <3>1. req'[c] = q /\ r.pc = "put"
        BY <2>4 DEF PutRoute, Set, VmInv
      <3>2. q.path = k /\ q.route = r.route /\ q.since = r.since /\ q.put = now
        BY <2>2, RoutedIsSerial
      <3>3. WasBest(k, r.route, r.since, now)
        BY <3>1 DEF RouteInv, OnItsWay
      <3> HIDE DEF q
      <3> QED
        BY <2>2, <3>1, <3>2, <3>3
    <2> QED
      BY <2>1, <2>3, <2>4
  <1> QED
    BY <1>1, VmInit, VmStep, CacheInit, CacheStep, RouteInit, RouteStep, PTL DEF Spec, RouteIsBest

-----------------------------------------------------------------------------
(* The tunnel.                                                             *)

TunnelFields == [pc : TunnelPcs, cancelled : BOOLEAN, session : {"none", "open", "closed"}, profile : BOOLEAN]
States == [tunnel : Tunnels \cup {NoTunnel}, status : {"disconnected", "connecting", "connected"}]

\* ts shows "disconnected" only while it holds no tunnel; a start that nobody overlapped is the
\* only one, and finds no tunnel alive.
TunnelInv ==
    /\ ts \in States /\ tunnel \in [Tunnels -> TunnelFields]
    /\ call \in [Callers \cup {Main} -> CallPcs]
    /\ ts.status = "disconnected" => ts.tunnel = NoTunnel
    /\ ~up => Starting = {} /\ Live = {}
    /\ ~overlap => /\ Live \subseteq {ts.tunnel}
                   /\ \A k, l \in Starting : k = l
                   /\ Starting # {} => Live = {}

\* A step that begins no start, brings no tunnel to life and keeps what ts holds.
LEMMA QuietStep ==
    ASSUME TunnelInv, up' = up, overlap' = overlap, ts' \in States,
           ts'.tunnel = ts.tunnel, ts'.status = "disconnected" => ts.status = "disconnected",
           tunnel' \in [Tunnels -> TunnelFields], Live' \subseteq Live,
           call' \in [Callers \cup {Main} -> CallPcs], Starting' \subseteq Starting
    PROVE  TunnelInv'
  <1>1. ts'.status = "disconnected" => ts'.tunnel = NoTunnel
    BY DEF TunnelInv
  <1>2. ~up' => Starting' = {} /\ Live' = {}
    BY DEF TunnelInv
  <1>3. ~overlap' => /\ Live' \subseteq {ts'.tunnel}
                     /\ \A k, l \in Starting' : k = l
                     /\ Starting' # {} => Live' = {}
    BY DEF TunnelInv
  <1> QED
    BY <1>1, <1>2, <1>3 DEF TunnelInv

\* Who is starting after a caller has gone on.
LEMMA StartingAfter ==
    ASSUME call \in [Callers \cup {Main} -> CallPcs], NEW k \in Callers \cup {Main}, NEW pc \in CallPcs, Then(k, pc)
    PROVE  /\ call' \in [Callers \cup {Main} -> CallPcs]
           /\ Starting' = IF pc \in {"discover", "set"} THEN Starting \cup {k} ELSE Starting \ {k}
  <1>1. call' \in [Callers \cup {Main} -> CallPcs]
    BY DEF Then
  <1>2. \A l \in Callers \cup {Main} : call'[l] = IF l = k THEN pc ELSE call[l]
    BY DEF Then
  <1> QED
    BY <1>1, <1>2 DEF Starting

\* A client that goes on: none comes to life, and ts keeps the tunnel it holds.
LEMMA ClientStep ==
    ASSUME TunnelInv, NEW t \in Tunnels, Client(t) \/ SessionDies(t)
    PROVE  TunnelInv'
  <1>1. tunnel \in [Tunnels -> TunnelFields] /\ ts \in States /\ tunnel[t] \in TunnelFields
    BY DEF TunnelInv
  <1>2. ASSUME NEW s \in TunnelFields, tunnel' = [tunnel EXCEPT ![t] = s],
               s.pc \notin {"unused", "ended"} /\ ~s.cancelled
                 => tunnel[t].pc \notin {"unused", "ended"} /\ ~tunnel[t].cancelled
        PROVE  tunnel' \in [Tunnels -> TunnelFields] /\ Live' \subseteq Live
    <2>1. tunnel' \in [Tunnels -> TunnelFields] /\ \A u \in Tunnels : tunnel'[u] = IF u = t THEN s ELSE tunnel[u]
      BY <1>1, <1>2
    <2> QED
      BY <1>2, <2>1 DEF Live
  <1>3. ASSUME NEW pc \in TunnelPcs, Go(t, pc), tunnel[t].pc \notin {"unused", "ended"}
        PROVE  tunnel' \in [Tunnels -> TunnelFields] /\ Live' \subseteq Live
    <2>1. PICK s : s = [tunnel[t] EXCEPT !.pc = pc]
      OBVIOUS
    <2>2. s \in TunnelFields /\ s.cancelled = tunnel[t].cancelled
      BY <1>1, <2>1 DEF TunnelFields
    <2>3. tunnel' = [tunnel EXCEPT ![t] = s]
      BY <1>3, <2>1 DEF Go
    <2> QED
      BY <1>2, <1>3, <2>2, <2>3
  <1>4. CASE Register(t) /\ tunnel' = [tunnel EXCEPT ![t].pc = "onConnect", ![t].session = "open"]
    <2>1. PICK s : s = [tunnel[t] EXCEPT !.pc = "onConnect", !.session = "open"]
      OBVIOUS
    <2>2. s \in TunnelFields /\ s.cancelled = tunnel[t].cancelled
      BY <1>1, <2>1 DEF TunnelFields, TunnelPcs
    <2>3. tunnel' = [tunnel EXCEPT ![t] = s] /\ tunnel[t].pc = "register"
      BY <1>4, <2>1 DEF Register, On
    <2>4. tunnel' \in [Tunnels -> TunnelFields] /\ Live' \subseteq Live
      BY <1>2, <2>2, <2>3
    <2> QED
      BY <1>1, <1>4, <2>4, QuietStep DEF Register, process, TunnelInv, Starting
  <1>5. CASE ApplyProfile(t)
    <2>1. PICK s : s = [tunnel[t] EXCEPT !.pc = "report", !.profile = FALSE]
      OBVIOUS
    <2>2. s \in TunnelFields /\ s.cancelled = tunnel[t].cancelled
      BY <1>1, <2>1 DEF TunnelFields, TunnelPcs
    <2>3. tunnel' = [tunnel EXCEPT ![t] = s] /\ tunnel[t].pc = "apply"
      BY <1>5, <2>1 DEF ApplyProfile, On
    <2>4. tunnel' \in [Tunnels -> TunnelFields] /\ Live' \subseteq Live
      BY <1>2, <2>2, <2>3
    <2> QED
      BY <1>1, <1>5, <2>4, QuietStep DEF ApplyProfile, process, TunnelInv, Starting
  <1>6. CASE Serve(t)
    <2>1. PICK s : s = [tunnel[t] EXCEPT !.pc = Retry(t), !.session = "closed"]
      OBVIOUS
    <2>2. s \in TunnelFields /\ s.cancelled = tunnel[t].cancelled
      BY <1>1, <2>1 DEF TunnelFields, TunnelPcs, Retry
    <2>3. tunnel' = [tunnel EXCEPT ![t] = s] /\ tunnel[t].pc = "serve"
      BY <1>6, <2>1 DEF Serve, On
    <2>4. tunnel' \in [Tunnels -> TunnelFields] /\ Live' \subseteq Live
      BY <1>2, <2>2, <2>3
    <2> QED
      BY <1>1, <1>6, <2>4, QuietStep DEF Serve, process, TunnelInv, Starting
  <1>7. CASE SessionDies(t)
    <2>1. PICK s : s = [tunnel[t] EXCEPT !.session = "closed"]
      OBVIOUS
    <2>2. s \in TunnelFields /\ s.cancelled = tunnel[t].cancelled /\ s.pc = tunnel[t].pc
      BY <1>1, <2>1 DEF TunnelFields
    <2>3. tunnel' = [tunnel EXCEPT ![t] = s]
      BY <1>7, <2>1 DEF SessionDies
    <2>4. tunnel' \in [Tunnels -> TunnelFields] /\ Live' \subseteq Live
      BY <1>2, <2>2, <2>3
    <2> QED
      BY <1>1, <1>7, <2>4, QuietStep DEF SessionDies, process, TunnelInv, Starting
  <1>8. CASE Connected(t) \/ Disconnected(t)
    <2>1. ts' \in States /\ ts'.tunnel = ts.tunnel /\ (ts'.status = "disconnected" => ts.status = "disconnected")
      BY <1>1, <1>8 DEF Connected, Disconnected, States
    <2>2. tunnel' \in [Tunnels -> TunnelFields] /\ Live' \subseteq Live
      <3>1. PICK pc \in TunnelPcs : Go(t, pc)
        BY <1>8 DEF Connected, Disconnected, TunnelPcs
      <3>2. tunnel[t].pc \in {"onConnect", "onDisconnect"}
        BY <1>8 DEF Connected, Disconnected, On
      <3> QED
        BY <1>3, <3>1, <3>2
    <2> QED
      BY <1>8, <2>1, <2>2, QuietStep DEF Connected, Disconnected, process, TunnelInv, Starting
  <1>9. CASE \/ Top(t) \/ Authorize(t) \/ Dial(t) \/ SaveHost(t) \/ NewReporter(t) \/ Slept(t)
             \/ Register(t) /\ ~(tunnel' = [tunnel EXCEPT ![t].pc = "onConnect", ![t].session = "open"])
    <2>1. \E pc \in TunnelPcs : Go(t, pc)
      <3>1. CASE Top(t) \/ SaveHost(t) \/ NewReporter(t) \/ Slept(t)
        BY <3>1 DEF Top, SaveHost, NewReporter, Slept, TunnelPcs
      <3>2. Retry(t) \in TunnelPcs
        BY DEF Retry, TunnelPcs
      <3>3. CASE Authorize(t)
        BY <3>2, <3>3 DEF Authorize, TunnelPcs
      <3>4. CASE Dial(t)
        BY <3>2, <3>4 DEF Dial, TunnelPcs
      <3>5. CASE Register(t)
        <4>1. ~(tunnel' = [tunnel EXCEPT ![t].pc = "onConnect", ![t].session = "open"])
          BY <1>9, <3>5 DEF Top, Authorize, Dial, SaveHost, NewReporter, Slept, Register, On
        <4>2. Go(t, Retry(t))
          BY <3>5, <4>1 DEF Register
        <4> QED
          BY <3>2, <4>2
      <3> QED
        BY <1>9, <3>1, <3>3, <3>4, <3>5
    <2>2. tunnel[t].pc \notin {"unused", "ended"}
      BY <1>9 DEF Top, Authorize, Dial, SaveHost, NewReporter, Slept, Register, On
    <2>3. tunnel' \in [Tunnels -> TunnelFields] /\ Live' \subseteq Live
      BY <1>3, <2>1, <2>2
    <2>4. ts' = ts /\ up' = up /\ overlap' = overlap /\ call' = call
      BY <1>9 DEF Top, Authorize, Dial, SaveHost, NewReporter, Slept, Register, process
    <2> QED
      BY <1>1, <2>3, <2>4, QuietStep DEF TunnelInv, Starting
  <1> QED
    BY <1>4, <1>5, <1>6, <1>7, <1>8, <1>9 DEF Client

\* A tunnel that is cut is not alive.
LEMMA CutStep ==
    ASSUME TunnelInv, tunnel' = Cut(tunnel), ts' = Offline, up' = up, overlap' = overlap,
           call' \in [Callers \cup {Main} -> CallPcs], Starting' \subseteq Starting
    PROVE  TunnelInv'
  <1>1. tunnel \in [Tunnels -> TunnelFields] /\ ts \in States
    BY DEF TunnelInv
  <1>2. PICK held : held = ts.tunnel
    OBVIOUS
  <1>3. /\ tunnel' \in [Tunnels -> TunnelFields]
        /\ \A t \in Tunnels : /\ tunnel'[t].pc = tunnel[t].pc
                              /\ tunnel'[t].cancelled <=> tunnel[t].cancelled \/ t = held
    <2>1. CASE held = NoTunnel
      BY <1>1, <1>2, <2>1, TunnelAssumption DEF Cut, TunnelFields
    <2>2. CASE held # NoTunnel
      <3>1. held \in Tunnels
        BY <1>1, <1>2, <2>2 DEF States
      <3>2. PICK s : s = [tunnel[held] EXCEPT !.cancelled = TRUE, !.session = IF @ = "open" THEN "closed" ELSE @]
        OBVIOUS
      <3>3. s \in TunnelFields /\ s.cancelled /\ s.pc = tunnel[held].pc
        BY <1>1, <3>1, <3>2 DEF TunnelFields
      <3>4. tunnel' = [tunnel EXCEPT ![held] = s]
        BY <1>2, <2>2, <3>2 DEF Cut
      <3>5. \A t \in Tunnels : tunnel'[t] = IF t = held THEN s ELSE tunnel[t]
        BY <1>1, <3>4
      <3>6. tunnel' \in [Tunnels -> TunnelFields]
        BY <1>1, <3>3, <3>4
      <3> QED
        BY <3>3, <3>5, <3>6
    <2> QED
      BY <2>1, <2>2
  <1>4. Live' = Live \ {held}
    <2>1. Live' = {t \in Tunnels : tunnel'[t].pc \notin {"unused", "ended"} /\ ~tunnel'[t].cancelled}
      BY DEF Live
    <2>2. \A t \in Tunnels : t \in Live <=> tunnel[t].pc \notin {"unused", "ended"} /\ ~tunnel[t].cancelled
      BY DEF Live
    <2>3. Live \subseteq Tunnels
      BY DEF Live
    <2>4. \A t \in Tunnels : t \in Live' <=> t \in Live /\ t # held
      <3> TAKE t \in Tunnels
      <3>2. t \in Live' <=> tunnel'[t].pc \notin {"unused", "ended"} /\ ~tunnel'[t].cancelled
        BY <2>1
      <3>3. t \in Live <=> tunnel[t].pc \notin {"unused", "ended"} /\ ~tunnel[t].cancelled
        BY <2>2
      <3>4. tunnel'[t].pc = tunnel[t].pc
        BY <1>3
      <3>5. tunnel'[t].cancelled <=> tunnel[t].cancelled \/ t = held
        BY <1>3
      <3> QED
        BY <3>2, <3>3, <3>4, <3>5
    <2>5. Live' \subseteq Tunnels
      BY <2>1
    <2> QED
      BY <2>3, <2>4, <2>5
  <1>5. ts' \in States /\ ts'.tunnel = NoTunnel
    BY DEF Offline, States
  <1>6. ~up' => Starting' = {} /\ Live' = {}
    BY <1>4 DEF TunnelInv
  <1>7. ~overlap' => Live' = {} /\ \A k, l \in Starting' : k = l
    BY <1>2, <1>4 DEF TunnelInv
  <1>8. ~overlap' => /\ Live' \subseteq {ts'.tunnel}
                     /\ \A k, l \in Starting' : k = l
                     /\ Starting' # {} => Live' = {}
    BY <1>7
  <1> QED
    BY <1>3, <1>5, <1>6, <1>8 DEF TunnelInv

\* The callers and the process.
LEMMA TunnelStep == TunnelInv /\ [TunnelNext]_tunnelVars => TunnelInv'
  <1> SUFFICES ASSUME TunnelInv, [TunnelNext]_tunnelVars
               PROVE  TunnelInv'
    OBVIOUS
  <1>1. /\ ts \in States /\ tunnel \in [Tunnels -> TunnelFields]
        /\ call \in [Callers \cup {Main} -> CallPcs]
    BY DEF TunnelInv
  <1>2. NoTunnel \notin Live
    BY TunnelAssumption DEF Live
  <1>3. CASE UNCHANGED <<up, ts, tunnel, call, overlap>>
    BY <1>1, <1>3, QuietStep DEF Live, Starting
  <1>4. CASE Start
    <2>1. Starting = {} /\ Live = {} /\ up'
      BY <1>4 DEF Start, TunnelInv
    <2>2. PICK pc \in {"discover", "idle"} : Then(Main, pc)
      BY <1>4 DEF Start, Then
    <2>3. call' \in [Callers \cup {Main} -> CallPcs] /\ Starting' \subseteq {Main}
      BY <1>1, <2>1, <2>2, StartingAfter DEF CallPcs
    <2>4. UNCHANGED <<ts, tunnel, overlap>>
      BY <1>4 DEF Start
    <2>5. Live' = {}
      BY <2>1, <2>4 DEF Live
    <2> QED
      BY <1>1, <2>1, <2>3, <2>4, <2>5 DEF TunnelInv
  <1>5. CASE Down
    <2>1. call' = [k \in Callers \cup {Main} |-> "idle"] /\ ts' = Offline /\ ~up'
      BY <1>5 DEF Down
    <2>2. Starting' = {} /\ call' \in [Callers \cup {Main} -> CallPcs]
      BY <2>1 DEF Starting, CallPcs
    <2>3. Unused \in TunnelFields /\ Unused.pc = "unused"
      BY DEF Unused, TunnelFields, TunnelPcs
    <2>4. [Unused EXCEPT !.pc = "ended"] \in TunnelFields /\ [Unused EXCEPT !.pc = "ended"].pc = "ended"
      BY DEF Unused, TunnelFields, TunnelPcs
    <2>5. tunnel' = [t \in Tunnels |-> IF tunnel[t].pc = "unused" THEN Unused
                                       ELSE [Unused EXCEPT !.pc = "ended"]]
      BY <1>5 DEF Down
    <2>6. tunnel' \in [Tunnels -> TunnelFields] /\ \A t \in Tunnels : tunnel'[t].pc \in {"unused", "ended"}
      BY <2>3, <2>4, <2>5
    <2>7. Live' = {}
      BY <2>6 DEF Live
    <2>8. ts' \in States /\ ts'.tunnel = NoTunnel
      BY <2>1 DEF Offline, States
    <2> QED
      BY <2>1, <2>2, <2>6, <2>7, <2>8 DEF TunnelInv
  <1>6. ASSUME NEW k \in Callers, TunnelConnect(k)
        PROVE  TunnelInv'
    <2>1. /\ Then(k, "discover") /\ ts.status = "disconnected" /\ up /\ up' = up
          /\ overlap' = (overlap \/ Starting # {}) /\ UNCHANGED <<ts, tunnel>>
      BY <1>6 DEF TunnelConnect, Ask, Listening, process
    <2>2. call' \in [Callers \cup {Main} -> CallPcs] /\ Starting' = Starting \cup {k}
      BY <1>1, <2>1, StartingAfter DEF CallPcs
    <2>3. Live' = Live
      BY <2>1 DEF Live
    <2>4. ~overlap => Live = {}
      BY <1>2, <2>1 DEF TunnelInv
    <2> QED
      BY <1>1, <2>1, <2>2, <2>3, <2>4 DEF TunnelInv
  <1>7. ASSUME NEW k \in Callers \cup {Main}, SetTunnel(k)
        PROVE  TunnelInv'
    <2>1. k \in Starting /\ up /\ up' = up /\ overlap' = overlap
      BY <1>7 DEF SetTunnel, At, Starting, process
    <2>2. PICK pc \in {"idle", "persist"} : Then(k, pc)
      BY <1>7 DEF SetTunnel
    <2>3. call' \in [Callers \cup {Main} -> CallPcs] /\ Starting' = Starting \ {k}
      BY <1>1, <2>2, StartingAfter DEF CallPcs
    <2>4. PICK t \in Tunnels : /\ ts' = [tunnel |-> t, status |-> "connecting"]
                               /\ tunnel' = [tunnel EXCEPT ![t] = [Unused EXCEPT !.pc = "top", !.profile = t \in Profiled]]
      BY <1>7 DEF SetTunnel
    <2>5. [Unused EXCEPT !.pc = "top", !.profile = t \in Profiled] \in TunnelFields
      <3>1. \A b \in BOOLEAN : [Unused EXCEPT !.pc = "top", !.profile = b] \in TunnelFields
        BY DEF Unused, TunnelFields, TunnelPcs
      <3>2. (t \in Profiled) \in BOOLEAN
        OBVIOUS
      <3> QED
        BY <3>1, <3>2
    <2>6. tunnel' \in [Tunnels -> TunnelFields] /\ \A u \in Tunnels \ {t} : tunnel'[u] = tunnel[u]
      BY <1>1, <2>4, <2>5
    <2>7. Live' \subseteq Live \cup {t}
      BY <2>6 DEF Live
    <2>8. ~overlap => Live = {} /\ Starting = {k}
      BY <2>1 DEF TunnelInv
    <2>9. ts' \in States /\ ts'.tunnel = t /\ ts'.status = "connecting"
      BY <2>4 DEF States
    <2> QED
      BY <2>1, <2>3, <2>6, <2>7, <2>8, <2>9 DEF TunnelInv
  <1>8. ASSUME NEW k \in Callers \cup {Main}, Discover(k)
        PROVE  TunnelInv'
    <2>1. PICK pc \in {"set", "idle"} : Then(k, pc)
      BY <1>8 DEF Discover
    <2>2. k \in Starting
      BY <1>8 DEF Discover, At, Starting
    <2>3. call' \in [Callers \cup {Main} -> CallPcs] /\ Starting' \subseteq Starting
      BY <1>1, <2>1, <2>2, StartingAfter DEF CallPcs
    <2>4. UNCHANGED <<up, ts, tunnel, overlap>>
      BY <1>8 DEF Discover, process
    <2> QED
      BY <1>1, <2>3, <2>4, QuietStep DEF Live
  <1>9. ASSUME NEW k \in Callers \cup {Main},
               Persist(k) \/ Drop(k) \/ Load(k) \/ ClearMode(k) \/ ClearRow(k)
        PROVE  TunnelInv'
    <2>1. PICK pc \in {"idle", "load", "save"} : Then(k, pc)
      BY <1>9 DEF Persist, Drop, Load, ClearMode, ClearRow
    <2>2. call' \in [Callers \cup {Main} -> CallPcs] /\ Starting' \subseteq Starting
      BY <1>1, <2>1, StartingAfter DEF CallPcs
    <2>3. UNCHANGED <<up, ts, tunnel, overlap>>
      BY <1>9 DEF Persist, Drop, Load, ClearMode, ClearRow, process
    <2> QED
      BY <1>1, <2>2, <2>3, QuietStep DEF Live
  <1>10. ASSUME NEW k \in Callers, TunnelDisconnect(k) \/ ConfirmedDisconnect(k) \/ ConfirmedUnpair(k)
         PROVE  TunnelInv'
    <2>1. PICK pc \in {"drop", "save", "patch"} : Then(k, pc)
      BY <1>10 DEF TunnelDisconnect, ConfirmedDisconnect, ConfirmedUnpair
    <2>2. call' \in [Callers \cup {Main} -> CallPcs] /\ Starting' \subseteq Starting
      BY <1>1, <2>1, StartingAfter DEF CallPcs
    <2>3. tunnel' = Cut(tunnel) /\ ts' = Offline /\ up' = up /\ overlap' = overlap
      BY <1>10 DEF TunnelDisconnect, ConfirmedDisconnect, ConfirmedUnpair, process
    <2> QED
      BY <2>2, <2>3, CutStep
  <1>11. CASE TunnelUnpair \/ TunnelPair
    BY <1>3, <1>11 DEF TunnelUnpair, TunnelPair, process
  <1> QED
    BY <1>3, <1>4, <1>5, <1>6, <1>7, <1>8, <1>9, <1>10, <1>11, ClientStep
    DEF TunnelNext, tunnelVars, Request, Caller

\* As long as no two starts overlapped, the tunnel that runs is the one ts holds: whatever
\* reconnects, fails, is disconnected from the page or by a script, or comes back after a restart.
THEOREM TheTunnelIsHeld == TunnelSpec => []OneTunnel
  <1>1. TunnelInit => TunnelInv
    <2> SUFFICES ASSUME TunnelInit
                 PROVE  TunnelInv
      OBVIOUS
    <2>1. ts \in States /\ ts.tunnel = NoTunnel
      BY DEF TunnelInit, Offline, States
    <2>2. tunnel \in [Tunnels -> TunnelFields] /\ Live = {}
      BY DEF TunnelInit, Unused, TunnelFields, TunnelPcs, Live
    <2>3. call \in [Callers \cup {Main} -> CallPcs] /\ Starting = {}
      BY DEF TunnelInit, CallPcs, Starting
    <2> QED
      BY <2>1, <2>2, <2>3 DEF TunnelInv
  <1>2. TunnelInv => OneTunnel
    BY DEF TunnelInv, OneTunnel
  <1> QED
    BY <1>1, <1>2, TunnelStep, PTL DEF TunnelSpec

\* The reporter that runs is the one ts can stop: however connections, reconnections and
\* both kinds of disconnect interleave, no other is left behind, and none is stopped twice.
THEOREM TheReporterIsHeld == TunnelSpec => []OneReporter
  <1>1. TunnelInit => OneReporter
    BY DEF TunnelInit, OneReporter
  <1>2. OneReporter /\ [TunnelNext]_tunnelVars => OneReporter'
    <2> SUFFICES ASSUME OneReporter, [TunnelNext]_tunnelVars PROVE OneReporter'
      OBVIOUS
    <2>1. CASE UNCHANGED reports
      BY <2>1 DEF OneReporter, reports
    <2>2. CASE Down
      BY <2>2 DEF Down, OneReporter
    <2>3. ASSUME NEW k \in Callers, TunnelDisconnect(k) PROVE OneReporter'
      BY <2>3 DEF TunnelDisconnect, StopReporter, OneReporter
    <2>4. ASSUME NEW t \in Tunnels, NewReporter(t) PROVE OneReporter'
      <3>1. stopCh' = Fresh /\ reporters' = (reporters \ {stopCh}) \cup {Fresh} /\ Fresh # 0
        BY <2>4 DEF NewReporter, Fresh
      <3> QED
        BY <3>1 DEF OneReporter
    <2>5. ASSUME NEW t \in Tunnels, Client(t), ~NewReporter(t) PROVE UNCHANGED reports
      BY <2>5 DEF Client, Top, Authorize, Dial, Register, Connected, SaveHost, ApplyProfile, Serve, Disconnected, Slept
    <2>6. ASSUME NEW t \in Tunnels, SessionDies(t) PROVE UNCHANGED reports
      BY <2>6 DEF SessionDies
    <2>7. ASSUME NEW k \in Callers, Request(k), ~TunnelDisconnect(k) PROVE UNCHANGED reports
      BY <2>7 DEF Request, TunnelConnect, ConfirmedDisconnect, ConfirmedUnpair
    <2>8. ASSUME NEW k \in Callers \cup {Main}, Caller(k) PROVE UNCHANGED reports
      BY <2>8 DEF Caller, Discover, SetTunnel, Persist, Drop, Load, ClearMode, ClearRow
    <2>9. CASE Start \/ TunnelUnpair \/ TunnelPair
      BY <2>1, <2>9 DEF Start, TunnelUnpair, TunnelPair
    <2>10. CASE UNCHANGED tunnelVars
      BY <2>1, <2>10 DEF tunnelVars, reports
    <2> QED
      BY <2>1, <2>2, <2>3, <2>4, <2>5, <2>6, <2>7, <2>8, <2>9, <2>10 DEF TunnelNext
  <1> QED
    BY <1>1, <1>2, PTL DEF TunnelSpec
=============================================================================
