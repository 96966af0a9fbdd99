-------------------------- MODULE ProbeCacheProofs --------------------------
(***************************************************************************)
(* The safety of the probe and its cache, for any threads, processes,      *)
(* codecs, boots and nodes, whatever is written, dies or reboots meanwhile:*)
(* ProbeCache's InitFindsDevices and, when no two threads share a          *)
(* temporary name, LaterProcessesDoNotProbe.                               *)
(***************************************************************************)
EXTENDS ProbeCache, FiniteSetTheorems, WellFoundedInduction, TLAPS

(* The nodes up to k of boot b that a walk keeps.                          *)
Kept(b, k) ==
  {n \in 1 .. k : Layout[b][n].m2m /\ Layout[b][n].out \cup Layout[b][n].cap # {}}

(* Those of them that fit a role, and those of all nodes that do.          *)
FitsRole(d, r) ==
  CASE r = "jpeg" -> "jpeg" \in d.cap
    [] r = "vpp"  -> d.rotate /\ "jpeg" \notin d.cap /\ d.out \cap Codecs = {}
    [] OTHER      -> d.request /\ r \in d.out

Fit(b, r) == {m \in Nodes : Layout[b][m].m2m /\ FitsRole(Layout[b][m], r)}

IsFirst(n, S) == IF S = {} THEN n = NoNode ELSE n \in S /\ \A m \in S : n <= m

(* A result names the devices of boot b.                                   *)
FindsDevices(b, result) == \A r \in Roles : IsFirst(result[r], Fit(b, r))

(* Where a thread is tells what it has walked, found and opened; what it   *)
(* found is right unless a scan has missed a node.                         *)
ThreadOK(x, b, miss) ==
  /\ x.fd # NoFile <=> x.at \in {"read", "write"}
  /\ x.at \in {"idle", "open", "read"} => x.node = 0 /\ x.walked = {}
  /\ x.at = "walk" => x.node < Cardinality(Nodes)
  /\ x.at = "pick" => x.node = Cardinality(Nodes)
  /\ ~miss => /\ x.at \in {"walk", "pick"} => x.walked = Kept(b, x.node)
              /\ x.at \in {"create", "write", "rename", "done"} => FindsDevices(b, x.result)

(* A file is of an earlier boot, or names the devices of this one.         *)
File == [boot : {0} \cup Boots, result : Result]

FileOK(file, b, miss) ==
  /\ file \in File /\ file.boot <= b
  /\ file.boot = b /\ ~miss => FindsDevices(b, file.result)

FilesOK(d, b, miss) ==
  /\ d = [f \in Inodes |-> d[f]]
  /\ \A f \in Inodes : FileOK(d[f], b, miss)

IInv ==
  /\ TypeOK
  /\ FilesOK(data, boot, missed)
  /\ \A t \in Threads : ThreadOK(thr[t], boot, missed)

-----------------------------------------------------------------------------
(* The layout, and what the operators return.                              *)

LEMMA LayoutFacts ==
  /\ Boots = 1 .. Len(Layout) /\ Len(Layout) \in Nat /\ 1 \in Boots
  /\ Nodes = 1 .. Cardinality(Nodes) /\ Cardinality(Nodes) \in Nat \ {0}
  /\ \A b \in Boots, n \in Nodes : Layout[b][n] \in Node
<1>1. Len(Layout) \in Nat \ {0} /\ Boots = 1 .. Len(Layout) /\ 1 \in Boots
  BY LayoutAssumption DEF Boots
<1>2. \A b \in Boots : Layout[b] \in Seq(Node)
  BY <1>1, LayoutAssumption
<1>3. Len(Layout[1]) \in Nat \ {0} /\ Nodes = 1 .. Len(Layout[1])
  BY <1>1, <1>2, LayoutAssumption DEF Nodes
<1>4. Cardinality(Nodes) = Len(Layout[1])
  BY <1>3, FS_Interval
<1>5. \A b \in Boots, n \in Nodes : Layout[b][n] \in Node
  BY <1>2, <1>3, LayoutAssumption
<1> QED
  BY <1>1, <1>3, <1>4, <1>5

LEMMA RecordTypes ==
  /\ Nothing \in Result /\ NoNode \notin Nodes
  /\ Idle \in Thread /\ Idle.at = "idle" /\ Idle.fd = NoFile /\ Idle.node = 0
  /\ Idle.walked = {} /\ Idle.late = FALSE
  /\ Empty \in File /\ Empty.boot = 0
<1>1. Nothing \in Result
  BY DEF Nothing, Result
<1> QED
  BY <1>1, LayoutFacts DEF Idle, Thread, Places, Empty, File, NoNode

(* A non-empty set of naturals has a first member.                         *)
LEMMA FirstExists ==
  ASSUME NEW S \in SUBSET Nat, S # {}
  PROVE  \E m \in S : \A k \in S : m <= k
<1>1. \E m \in S : \A k \in S : ~(<<k, m>> \in OpToRel(<, Nat))
  BY NatLessThanWellFounded, WFMin
<1>2. \A k \in Nat, m \in Nat : k < m => <<k, m>> \in OpToRel(<, Nat)
  BY DEF OpToRel
<1>3. PICK m \in S : \A k \in S : ~(<<k, m>> \in OpToRel(<, Nat))
  BY <1>1
<1>4. \A k \in S : ~(k < m)
  BY <1>2, <1>3
<1> QED
  BY <1>4

LEMMA Min0First ==
  ASSUME NEW S \in SUBSET Nodes
  PROVE  IsFirst(Min0(S), S) /\ Min0(S) \in Nodes \cup {NoNode}
<1>1. S \in SUBSET Nat
  BY LayoutFacts
<1> QED
  BY <1>1, FirstExists DEF Min0, IsFirst

(* A scan that has seen every node finds the devices: what a walk leaves   *)
(* out fits no role.                                                       *)
LEMMA ScanFinds ==
  ASSUME boot \in Boots, NEW W \in SUBSET Nodes
  PROVE  /\ ScanResult(W) \in Result
         /\ W = Kept(boot, Cardinality(Nodes)) => FindsDevices(boot, ScanResult(W))
<1> DEFINE S(r) == {n \in W : FitsRole(Layout[boot][n], r)}
<1>1. \A n \in W : Layout[boot][n] \in Node
  BY LayoutFacts
<1>2. ASSUME NEW r \in Roles
      PROVE  ScanResult(W)[r] = Min0(S(r))
  <2>1. CASE r = "jpeg"
    <3>1. {n \in W : "jpeg" \in Device(n).cap} = S(r)
      BY <2>1 DEF FitsRole, Device
    <3> QED
      BY <2>1, <3>1 DEF ScanResult
  <2>2. CASE r = "vpp"
    <3>1. {n \in W : Device(n).rotate /\ "jpeg" \notin Device(n).cap /\ ~HasCodedOutput(n)} = S(r)
      BY <2>2 DEF FitsRole, Device, HasCodedOutput
    <3> QED
      BY <2>2, <3>1 DEF ScanResult
  <2>3. CASE r # "jpeg" /\ r # "vpp"
    <3>1. {n \in W : Device(n).request /\ r \in Device(n).out} = S(r)
      BY <2>3 DEF FitsRole, Device
    <3> QED
      BY <2>3, <3>1 DEF ScanResult, PickDeviceForCodec
  <2> QED
    BY <2>1, <2>2, <2>3
<1>3. ScanResult(W) \in Result
  <2>1. \A r \in Roles : ScanResult(W)[r] \in Nodes \cup {NoNode}
    BY <1>2, Min0First
  <2>2. ScanResult(W) = [r \in Roles |-> ScanResult(W)[r]]
    BY DEF ScanResult
  <2> QED
    BY <2>1, <2>2 DEF Result
<1>4. ASSUME W = Kept(boot, Cardinality(Nodes)), NEW r \in Roles
      PROVE  S(r) = Fit(boot, r)
  <2>1. \A n \in Nodes : Layout[boot][n] \in Node
    BY LayoutFacts
  <2>2. ASSUME NEW n \in Nodes, Layout[boot][n].m2m, FitsRole(Layout[boot][n], r)
        PROVE  Layout[boot][n].out \cup Layout[boot][n].cap # {}
    BY <2>2, LayoutAssumption DEF FitsRole
  <2> QED
    BY <1>4, <2>2, LayoutFacts DEF Kept, Fit
<1>5. ASSUME W = Kept(boot, Cardinality(Nodes))
      PROVE  FindsDevices(boot, ScanResult(W))
  <2>1. ASSUME NEW r \in Roles
        PROVE  IsFirst(ScanResult(W)[r], Fit(boot, r))
    <3>1. S(r) \in SUBSET Nodes
      OBVIOUS
    <3> QED
      BY <1>2, <1>4, <1>5, <2>1, <3>1, Min0First
  <2> QED
    BY <2>1 DEF FindsDevices
<1> QED
  BY <1>3, <1>5

(* What must hold follows.                                                 *)
LEMMA InvFinds == IInv => InitFindsDevices
<1> SUFFICES ASSUME IInv PROVE InitFindsDevices
  OBVIOUS
<1>1. \A r \in Roles, m \in Nodes :
        Expected(r, m) <=> (Layout[boot][m].m2m /\ FitsRole(Layout[boot][m], r))
  BY DEF Expected, FitsRole, Device, HasCodedOutput
<1>2. \A r \in Roles : {m \in Nodes : Expected(r, m)} = Fit(boot, r)
  BY <1>1 DEF Fit
<1> QED
  BY <1>2 DEF IInv, InitFindsDevices, ThreadOK, FindsDevices, IsFirst

-----------------------------------------------------------------------------
(* An inode for a new file.                                                *)

LEMMA PidsFinite ==
  /\ IsFiniteSet(Threads) /\ Cardinality(Threads) \in Nat
  /\ IsFiniteSet(Pids) /\ Cardinality(Pids) \in Nat
<1>1. IsFiniteSet(Threads)
  BY ProbeAssumption
<1> DEFINE f == [t \in Threads |-> Pid[t]]
<1>2. f \in Surjection(Threads, Pids)
  BY DEF Surjection, Pids
<1>3. IsFiniteSet(Pids)
  BY <1>1, <1>2, FS_Surjection
<1> QED
  BY <1>1, <1>3, FS_CardinalityType

(* The values of a function on all but one of its arguments.               *)
LEMMA OthersBound ==
  ASSUME NEW S, IsFiniteSet(S), NEW x \in S, NEW f
  PROVE  /\ IsFiniteSet({f[y] : y \in S \ {x}})
         /\ Cardinality({f[y] : y \in S \ {x}}) <= Cardinality(S) - 1
<1>1. IsFiniteSet(S \ {x}) /\ Cardinality(S \ {x}) = Cardinality(S) - 1
  BY FS_RemoveElement
<1> DEFINE g == [y \in S \ {x} |-> f[y]]
           T == {f[y] : y \in S \ {x}}
<1>2. g \in Surjection(S \ {x}, T)
  BY DEF Surjection
<1> HIDE DEF g, T
<1>3. IsFiniteSet(T) /\ Cardinality(T) <= Cardinality(S \ {x})
  BY <1>1, <1>2, FS_Surjection
<1> QED
  BY <1>1, <1>3 DEF T

LEMMA UnionBound ==
  ASSUME NEW S, IsFiniteSet(S), NEW T, IsFiniteSet(T)
  PROVE  /\ IsFiniteSet(S \cup T) /\ Cardinality(S) \in Nat /\ Cardinality(T) \in Nat
         /\ Cardinality(S \cup T) \in Nat
         /\ Cardinality(S \cup T) <= Cardinality(S) + Cardinality(T)
<1>1. IsFiniteSet(S \cap T)
  BY FS_Intersection
<1>2. /\ Cardinality(S) \in Nat /\ Cardinality(T) \in Nat /\ Cardinality(S \cap T) \in Nat
      /\ IsFiniteSet(S \cup T)
      /\ Cardinality(S \cup T) = Cardinality(S) + Cardinality(T) - Cardinality(S \cap T)
  BY <1>1, FS_Union, FS_CardinalityType
<1>3. Cardinality(S \cup T) \in Nat
  BY <1>2, FS_CardinalityType
<1> QED
  BY <1>2, <1>3

LEMMA NewFileExists ==
  ASSUME NEW t \in Threads, tmp[Pid[t]] = NoFile, thr[t].fd = NoFile
  PROVE  NewFile \in Inodes /\ NewFile \notin Named \cup Held
<1> DEFINE P == {tmp[i] : i \in Pids \ {Pid[t]}}
           fds == [u \in Threads |-> thr[u].fd]
           H == {fds[u] : u \in Threads \ {t}}
           U == ({path} \cup P) \cup H
<1>1. IsFiniteSet(P) /\ Cardinality(P) <= Cardinality(Pids) - 1
  BY PidsFinite, OthersBound DEF Pids
<1>2. IsFiniteSet(H) /\ Cardinality(H) <= Cardinality(Threads) - 1
  BY PidsFinite, OthersBound
<1>3. Named \cup Held \subseteq U \cup {NoFile}
  BY DEF Named, Held
<1> HIDE DEF P, H, fds
<1>4. IsFiniteSet({path}) /\ Cardinality({path}) = 1
  BY FS_Singleton
<1>5. IsFiniteSet(U) /\ Cardinality(U) < Cardinality(Pids) + Cardinality(Threads)
  <2>1. /\ IsFiniteSet({path} \cup P) /\ Cardinality({path} \cup P) \in Nat
        /\ Cardinality({path} \cup P) <= 1 + Cardinality(P) /\ Cardinality(P) \in Nat
    BY <1>1, <1>4, UnionBound
  <2>2. /\ IsFiniteSet(U) /\ Cardinality(H) \in Nat /\ Cardinality(U) \in Nat
        /\ Cardinality(U) <= Cardinality({path} \cup P) + Cardinality(H)
    BY <1>2, <2>1, UnionBound
  <2> HIDE DEF U
  <2> QED
    BY <1>1, <1>2, <2>1, <2>2, PidsFinite
<1>6. ~(Inodes \subseteq U)
  <2> SUFFICES ASSUME Inodes \subseteq U PROVE FALSE
    OBVIOUS
  <2> HIDE DEF U
  <2>1. Cardinality(Inodes) <= Cardinality(U)
    BY <1>5, FS_Subset
  <2>2. Cardinality(Inodes) \in Nat /\ Cardinality(U) \in Nat
    BY <1>5, InodesAssumption, FS_CardinalityType
  <2> QED
    BY <1>5, <2>1, <2>2, PidsFinite, InodesAssumption
<1>7. \E f \in Inodes : f \notin Named \cup Held
  BY <1>3, <1>6, InodesAssumption
<1> QED
  BY <1>7 DEF NewFile

-----------------------------------------------------------------------------
(* Steps.                                                                  *)

LEMMA KeptZero ==
  ASSUME NEW b
  PROVE  Kept(b, 0) = {}
BY DEF Kept

LEMMA KeptNext ==
  ASSUME NEW b, NEW k \in Nat
  PROVE  Kept(b, k + 1) =
           Kept(b, k) \cup IF Layout[b][k + 1].m2m /\
                              Layout[b][k + 1].out \cup Layout[b][k + 1].cap # {}
                           THEN {k + 1} ELSE {}
<1>1. 1 .. k + 1 = (1 .. k) \cup {k + 1}
  OBVIOUS
<1> QED
  BY <1>1 DEF Kept

(* Files that no name and no stream leads to are gone; the others stay.    *)
LEMMA ContentsOK ==
  ASSUME NEW d, NEW b \in Boots, NEW m, FilesOK(d, b, m), Contents(d)
  PROVE  FilesOK(data', b, m)
<1>1. FileOK(Empty, b, m)
  BY RecordTypes, LayoutFacts DEF FileOK
<1> QED
  BY <1>1 DEF FilesOK, Contents

(* A step of one thread.                                                   *)
LEMMA OneThread ==
  ASSUME IInv, NEW t \in Threads, NEW rec \in Thread, Set(t, rec), boot' = boot,
         present' \subseteq Nodes, path' \in Inodes \cup {NoFile},
         tmp' \in [Pids -> Inodes \cup {NoFile}],
         missed' \in BOOLEAN, missed => missed', stored' \in BOOLEAN,
         ThreadOK(rec, boot, missed'), FilesOK(data', boot, missed')
  PROVE  IInv'
<1>1. TypeOK'
  BY DEF IInv, TypeOK, Set
<1>2. \A u \in Threads : ThreadOK(thr'[u], boot', missed')
  <2> SUFFICES ASSUME NEW u \in Threads PROVE ThreadOK(thr'[u], boot, missed')
    OBVIOUS
  <2>1. CASE u = t
    BY <2>1 DEF IInv, TypeOK, Set
  <2>2. CASE u # t
    <3>1. thr'[u] = thr[u] /\ ThreadOK(thr[u], boot, missed)
      BY <2>2 DEF IInv, TypeOK, Set
    <3> QED
      BY <3>1 DEF ThreadOK
  <2> QED
    BY <2>1, <2>2
<1> QED
  BY <1>1, <1>2 DEF IInv

LEMMA StartKeeps ==
  ASSUME IInv, NEW t \in Threads, Start(t)
  PROVE  IInv'
<1>1. PICK a \in {"open", "walk"}, late \in BOOLEAN :
        Set(t, [Idle EXCEPT !.at = a, !.late = late])
  BY DEF Start, IInv, TypeOK
<1> DEFINE rec == [Idle EXCEPT !.at = a, !.late = late]
<1>2. /\ rec \in Thread /\ rec.at = a /\ rec.fd = NoFile /\ rec.node = 0 /\ rec.walked = {}
  BY RecordTypes DEF Thread, Places
<1> HIDE DEF rec
<1>3. ThreadOK(rec, boot, missed)
  BY <1>2, LayoutFacts, KeptZero DEF ThreadOK
<1> QED
  BY <1>1, <1>2, <1>3, OneThread DEF Start, IInv, TypeOK, rec

LEMMA OpenCacheKeeps ==
  ASSUME IInv, NEW t \in Threads, OpenCache(t)
  PROVE  IInv'
<1> DEFINE a == IF path = NoFile THEN "walk" ELSE "read"
           rec == [thr[t] EXCEPT !.at = a, !.fd = path]
<1>1. /\ thr[t] \in Thread /\ thr[t].at = "open" /\ ThreadOK(thr[t], boot, missed)
      /\ path \in Inodes \cup {NoFile} /\ Set(t, rec)
  BY DEF IInv, TypeOK, OpenCache
<1>2. thr[t].node = 0 /\ thr[t].walked = {}
  BY <1>1 DEF ThreadOK
<1>3. /\ rec \in Thread /\ rec.at = a /\ rec.fd = path /\ rec.node = 0 /\ rec.walked = {}
  BY <1>1, <1>2 DEF Thread, Places
<1> HIDE DEF rec
<1>4. ThreadOK(rec, boot, missed)
  BY <1>3, LayoutFacts, KeptZero DEF ThreadOK
<1> QED
  BY <1>1, <1>3, <1>4, OneThread DEF OpenCache, IInv, TypeOK

LEMMA ReadCacheKeeps ==
  ASSUME IInv, NEW t \in Threads, ReadCache(t)
  PROVE  IInv'
<1> DEFINE file == data[thr[t].fd]
<1>1. /\ thr[t] \in Thread /\ thr[t].at = "read" /\ ThreadOK(thr[t], boot, missed)
      /\ boot \in Boots
  BY DEF IInv, TypeOK, ReadCache
<1>2. thr[t].fd \in Inodes
  BY <1>1 DEF ThreadOK, Thread
<1>3. FileOK(file, boot, missed)
  BY <1>2 DEF IInv, FilesOK
<1>4. FilesOK(data', boot, missed)
  BY <1>1, ContentsOK DEF ReadCache, IInv
<1>5. ASSUME NEW rec \in Thread, Set(t, rec), ThreadOK(rec, boot, missed)
      PROVE  IInv'
  BY <1>4, <1>5, OneThread DEF ReadCache, IInv, TypeOK
<1>6. CASE CacheHit(file)
  <2> DEFINE rec == [Idle EXCEPT !.at = "done", !.result = file.result]
  <2>1. /\ rec \in Thread /\ rec.at = "done" /\ rec.fd = NoFile /\ rec.result = file.result
    BY <1>3, RecordTypes DEF Thread, Places, FileOK, File
  <2>2. Set(t, rec)
    BY <1>6 DEF ReadCache
  <2> HIDE DEF rec
  <2>3. ThreadOK(rec, boot, missed)
    BY <1>3, <1>6, <2>1 DEF ThreadOK, FileOK, CacheHit
  <2> QED
    BY <1>5, <2>1, <2>2, <2>3
<1>7. CASE ~CacheHit(file)
  <2> DEFINE rec == Missed(thr[t])
  <2>4. thr[t].node = 0 /\ thr[t].walked = {}
    BY <1>1 DEF ThreadOK
  <2>1. /\ rec \in Thread /\ rec.at = "walk" /\ rec.fd = NoFile /\ rec.node = 0
        /\ rec.walked = {}
    BY <1>1, <2>4 DEF Thread, Places, Missed
  <2>2. Set(t, rec)
    BY <1>7 DEF ReadCache
  <2> HIDE DEF rec
  <2>3. ThreadOK(rec, boot, missed)
    BY <2>1, LayoutFacts, KeptZero DEF ThreadOK
  <2> QED
    BY <1>5, <2>1, <2>2, <2>3
<1> QED
  BY <1>6, <1>7

LEMMA WalkNodeKeeps ==
  ASSUME IInv, NEW t \in Threads, WalkNode(t)
  PROVE  IInv'
<1> DEFINE n == thr[t].node + 1
           a == IF WalkedAll(n) THEN "pick" ELSE "walk"
           accepted == Device(n).m2m /\ Device(n).out \cup Device(n).cap # {}
           W == IF accepted THEN thr[t].walked \cup {n} ELSE thr[t].walked
<1>1. /\ thr[t] \in Thread /\ thr[t].at = "walk" /\ ThreadOK(thr[t], boot, missed)
      /\ boot \in Boots /\ missed \in BOOLEAN
  BY DEF IInv, TypeOK, WalkNode
<1>2. /\ thr[t].node \in Nat /\ n \in Nodes /\ thr[t].walked \subseteq Nodes
      /\ n <= Cardinality(Nodes)
  BY <1>1, LayoutFacts DEF ThreadOK, Thread
<1>3. a = "pick" => n = Cardinality(Nodes)
  BY DEF WalkedAll
<1>4. a = "walk" => n < Cardinality(Nodes)
  BY <1>2, LayoutFacts DEF WalkedAll
<1>5. ASSUME NEW w \in SUBSET Nodes, NEW rec,
             rec = [thr[t] EXCEPT !.node = n, !.at = a, !.walked = w], Set(t, rec),
             missed' \in BOOLEAN, missed => missed',
             ~missed' => w = Kept(boot, n)
      PROVE  IInv'
  <2>1. /\ rec \in Thread /\ rec.at = a /\ rec.fd = thr[t].fd /\ rec.node = n
        /\ rec.walked = w
    BY <1>1, <1>2, <1>5 DEF Thread, Places
  <2>2. ThreadOK(rec, boot, missed')
    BY <1>1, <1>3, <1>4, <1>5, <2>1 DEF ThreadOK
  <2>3. FilesOK(data', boot, missed')
    BY <1>5 DEF WalkNode, IInv, FilesOK, FileOK
  <2> QED
    BY <1>5, <2>1, <2>2, <2>3, OneThread DEF WalkNode, IInv, TypeOK
<1>6. ~missed => W = Kept(boot, n)
  <2>1. ~missed => thr[t].walked = Kept(boot, thr[t].node)
    BY <1>1 DEF ThreadOK
  <2>2. Kept(boot, n) = Kept(boot, thr[t].node) \cup IF accepted THEN {n} ELSE {}
    BY <1>2, KeptNext DEF Device
  <2> HIDE DEF n, accepted
  <2> QED
    BY <2>1, <2>2
<1>7. CASE /\ Set(t, IF accepted
                     THEN [[thr[t] EXCEPT !.node = n, !.at = a] EXCEPT !.walked = @ \cup {n}]
                     ELSE [thr[t] EXCEPT !.node = n, !.at = a])
           /\ missed' = missed
  <2>1. /\ [[thr[t] EXCEPT !.node = n, !.at = a] EXCEPT !.walked = @ \cup {n}]
             = [thr[t] EXCEPT !.node = n, !.at = a, !.walked = thr[t].walked \cup {n}]
        /\ [thr[t] EXCEPT !.node = n, !.at = a]
             = [thr[t] EXCEPT !.node = n, !.at = a, !.walked = thr[t].walked]
    BY <1>1 DEF Thread
  <2>2. Set(t, [thr[t] EXCEPT !.node = n, !.at = a, !.walked = W])
    BY <1>7, <2>1
  <2>3. W \in SUBSET Nodes
    BY <1>2
  <2> HIDE DEF W
  <2> QED
    BY <1>1, <1>5, <1>6, <1>7, <2>2, <2>3
<1>8. CASE Set(t, [thr[t] EXCEPT !.node = n, !.at = a]) /\ missed' = TRUE
  <2>1. [thr[t] EXCEPT !.node = n, !.at = a]
          = [thr[t] EXCEPT !.node = n, !.at = a, !.walked = thr[t].walked]
    BY <1>1 DEF Thread
  <2> QED
    BY <1>2, <1>5, <1>8, <2>1
<1> QED
  BY <1>7, <1>8 DEF WalkNode

LEMMA PickKeeps ==
  ASSUME IInv, NEW t \in Threads, Pick(t)
  PROVE  IInv'
<1>1. /\ thr[t] \in Thread /\ thr[t].at = "pick" /\ ThreadOK(thr[t], boot, missed)
      /\ boot \in Boots
  BY DEF IInv, TypeOK, Pick
<1>2. PICK a \in {"create", "done"} :
        Set(t, [Idle EXCEPT !.at = a, !.result = ScanResult(thr[t].walked)])
  BY DEF Pick
<1> DEFINE rec == [Idle EXCEPT !.at = a, !.result = ScanResult(thr[t].walked)]
<1>3. /\ thr[t].walked \in SUBSET Nodes
      /\ ~missed => thr[t].walked = Kept(boot, Cardinality(Nodes))
  BY <1>1 DEF Thread, ThreadOK
<1>4. /\ ScanResult(thr[t].walked) \in Result
      /\ ~missed => FindsDevices(boot, ScanResult(thr[t].walked))
  BY <1>1, <1>3, ScanFinds
<1>5. /\ rec \in Thread /\ rec.at = a /\ rec.fd = NoFile
      /\ rec.result = ScanResult(thr[t].walked)
  BY <1>4, RecordTypes DEF Thread, Places
<1> HIDE DEF rec
<1>6. ThreadOK(rec, boot, missed)
  BY <1>4, <1>5 DEF ThreadOK
<1> QED
  BY <1>2, <1>5, <1>6, OneThread DEF Pick, IInv, TypeOK, rec

LEMMA DoneOK ==
  ASSUME IInv, NEW t \in Threads, thr[t].at \in {"create", "write", "rename"}, Done(t)
  PROVE  \E rec \in Thread : Set(t, rec) /\ ThreadOK(rec, boot, missed)
<1> DEFINE rec == [Idle EXCEPT !.at = "done", !.result = thr[t].result]
<1>1. thr[t] \in Thread /\ ThreadOK(thr[t], boot, missed)
  BY DEF IInv, TypeOK
<1>2. rec \in Thread /\ rec.at = "done" /\ rec.fd = NoFile /\ rec.result = thr[t].result
  BY <1>1, RecordTypes DEF Thread, Places
<1>3. Set(t, rec)
  BY DEF Done
<1> HIDE DEF rec
<1>4. ThreadOK(rec, boot, missed)
  BY <1>1, <1>2 DEF ThreadOK
<1> QED
  BY <1>2, <1>3, <1>4

LEMMA StoreFileExists ==
  ASSUME IInv, NEW t \in Threads, thr[t].at = "create"
  PROVE  StoreFile(t) \in Inodes
<1>1. thr[t].fd = NoFile /\ Pid[t] \in Pids
  BY DEF IInv, ThreadOK, Pids
<1>2. CASE tmp[Pid[t]] = NoFile
  BY <1>1, <1>2, NewFileExists DEF StoreFile
<1>3. CASE tmp[Pid[t]] # NoFile
  BY <1>1, <1>3 DEF StoreFile, IInv, TypeOK
<1> QED
  BY <1>2, <1>3

LEMMA CreateTmpKeeps ==
  ASSUME IInv, NEW t \in Threads, CreateTmp(t)
  PROVE  IInv'
<1>1. /\ thr[t] \in Thread /\ thr[t].at = "create" /\ ThreadOK(thr[t], boot, missed)
      /\ boot \in Boots /\ Pid[t] \in Pids
  BY DEF IInv, TypeOK, CreateTmp, Pids
<1>2. CASE Done(t) /\ UNCHANGED <<tmp, data>>
  BY <1>1, <1>2, DoneOK, OneThread DEF CreateTmp, IInv, TypeOK
<1>3. CASE ~(Done(t) /\ UNCHANGED <<tmp, data>>)
  <2> DEFINE f == StoreFile(t)
             rec == [thr[t] EXCEPT !.at = "write", !.fd = f]
  <2>1. f \in Inodes
    BY <1>1, StoreFileExists
  <2>2. /\ tmp' = [tmp EXCEPT ![Pid[t]] = f]
        /\ data' = [data EXCEPT ![f] = Empty]
        /\ Set(t, rec)
    BY <1>3 DEF CreateTmp
  <2>3. /\ rec \in Thread /\ rec.at = "write" /\ rec.fd = f /\ rec.result = thr[t].result
    BY <1>1, <2>1 DEF Thread, Places
  <2> HIDE DEF rec, f
  <2>4. ThreadOK(rec, boot, missed)
    BY <1>1, <2>1, <2>3, InodesAssumption DEF ThreadOK
  <2>5. FileOK(Empty, boot, missed)
    BY <1>1, RecordTypes, LayoutFacts DEF FileOK
  <2>6. FilesOK(data', boot, missed)
    BY <2>1, <2>2, <2>5 DEF FilesOK, IInv
  <2>7. tmp' \in [Pids -> Inodes \cup {NoFile}]
    BY <2>1, <2>2 DEF IInv, TypeOK
  <2> QED
    BY <2>2, <2>3, <2>4, <2>6, <2>7, OneThread DEF CreateTmp, IInv, TypeOK
<1> QED
  BY <1>2, <1>3

LEMMA WriteTmpKeeps ==
  ASSUME IInv, NEW t \in Threads, WriteTmp(t)
  PROVE  IInv'
<1>1. /\ thr[t] \in Thread /\ thr[t].at = "write" /\ ThreadOK(thr[t], boot, missed)
      /\ boot \in Boots /\ Pid[t] \in Pids
  BY DEF IInv, TypeOK, WriteTmp, Pids
<1>2. CASE tmp' = [tmp EXCEPT ![Pid[t]] = NoFile] /\ Done(t) /\ Contents(data)
  <2>1. tmp' \in [Pids -> Inodes \cup {NoFile}]
    BY <1>2 DEF IInv, TypeOK
  <2>2. FilesOK(data', boot, missed)
    BY <1>1, <1>2, ContentsOK DEF IInv
  <2> QED
    BY <1>1, <1>2, <2>1, <2>2, DoneOK, OneThread DEF WriteTmp, IInv, TypeOK
<1>3. CASE ~(tmp' = [tmp EXCEPT ![Pid[t]] = NoFile] /\ Done(t) /\ Contents(data))
  <2> DEFINE file == [boot |-> boot, result |-> thr[t].result]
             rec == [thr[t] EXCEPT !.at = "rename", !.fd = NoFile]
  <2>1. /\ data' = [data EXCEPT ![thr[t].fd] = file]
        /\ Set(t, rec) /\ tmp' = tmp
    BY <1>3 DEF WriteTmp
  <2>2. thr[t].fd \in Inodes
    BY <1>1 DEF ThreadOK, Thread
  <2>3. /\ rec \in Thread /\ rec.at = "rename" /\ rec.fd = NoFile
        /\ rec.result = thr[t].result
    BY <1>1 DEF Thread, Places
  <2> HIDE DEF rec
  <2>4. ThreadOK(rec, boot, missed)
    BY <1>1, <2>3 DEF ThreadOK
  <2>5. FileOK(file, boot, missed)
    <3>1. ~missed => FindsDevices(boot, thr[t].result)
      BY <1>1 DEF ThreadOK
    <3>2. file \in File /\ file.boot = boot /\ file.result = thr[t].result
      BY <1>1 DEF File, Thread
    <3> HIDE DEF file
    <3> QED
      BY <1>1, <3>1, <3>2, LayoutFacts DEF FileOK
  <2> HIDE DEF file
  <2>6. FilesOK(data', boot, missed)
    BY <2>1, <2>2, <2>5 DEF FilesOK, IInv
  <2> QED
    BY <2>1, <2>3, <2>4, <2>6, OneThread DEF WriteTmp, IInv, TypeOK
<1> QED
  BY <1>2, <1>3

LEMMA RenameTmpKeeps ==
  ASSUME IInv, NEW t \in Threads, RenameTmp(t)
  PROVE  IInv'
<1>1. /\ thr[t] \in Thread /\ thr[t].at = "rename" /\ boot \in Boots /\ Pid[t] \in Pids
  BY DEF IInv, TypeOK, RenameTmp, Pids
<1>2. tmp' \in [Pids -> Inodes \cup {NoFile}] /\ path' \in Inodes \cup {NoFile}
  BY <1>1 DEF RenameTmp, IInv, TypeOK
<1>3. FilesOK(data', boot, missed)
  BY <1>1, ContentsOK DEF RenameTmp, IInv
<1>4. Done(t) /\ boot' = boot /\ present' = present /\ missed' = missed /\ stored' = TRUE
  BY DEF RenameTmp
<1> QED
  BY <1>1, <1>2, <1>3, <1>4, DoneOK, OneThread DEF IInv, TypeOK

LEMMA LeaveKeeps ==
  ASSUME IInv, NEW t \in Threads, Leave(t)
  PROVE  IInv'
<1>1. ThreadOK(Idle, boot, missed)
  BY RecordTypes DEF ThreadOK
<1> QED
  BY <1>1, RecordTypes, OneThread DEF Leave, IInv, TypeOK

LEMMA CrashKeeps ==
  ASSUME IInv, NEW i \in Pids, Crash(i)
  PROVE  IInv'
<1>1. ThreadOK(Idle, boot, missed) /\ boot \in Boots
  BY RecordTypes DEF ThreadOK, IInv, TypeOK
<1>2. FilesOK(data', boot, missed)
  BY <1>1, ContentsOK DEF Crash, IInv
<1>3. TypeOK'
  BY RecordTypes DEF Crash, IInv, TypeOK
<1> QED
  BY <1>1, <1>2, <1>3 DEF Crash, IInv, TypeOK

(* After a reboot every file is of an earlier boot.                        *)
LEMMA RebootKeeps ==
  ASSUME IInv, Reboot
  PROVE  IInv'
<1>1. boot \in Nat /\ boot' = boot + 1 /\ boot' \in Boots /\ missed' = FALSE
  BY LayoutFacts DEF IInv, TypeOK, Reboot
<1>2. ThreadOK(Idle, boot', FALSE)
  <2>1. ~(Idle.at \in {"walk", "pick", "create", "write", "rename", "done", "read"})
    BY RecordTypes
  <2> QED
    BY <2>1, RecordTypes DEF ThreadOK
<1>3. FilesOK(data, boot', FALSE)
  <2>1. \A f \in Inodes : data[f] \in File /\ data[f].boot <= boot /\ data[f].boot \in Nat
    BY LayoutFacts DEF IInv, FilesOK, FileOK, File
  <2> QED
    BY <1>1, <2>1 DEF IInv, FilesOK, FileOK
<1>4. FilesOK(data', boot', FALSE)
  <2>1. ASSUME NEW b \in Boots, FilesOK(data, b, FALSE)
        PROVE  FilesOK(data', b, FALSE)
    BY <2>1, ContentsOK DEF Reboot
  <2> QED
    BY <1>1, <1>3, <2>1
<1>5. TypeOK'
  <2>1. present' \subseteq Nodes
    BY DEF Reboot, PresentAtBoot
  <2>2. path' \in Inodes \cup {NoFile} /\ tmp' \in [Pids -> Inodes \cup {NoFile}]
    BY DEF Reboot, IInv, TypeOK
  <2> QED
    BY <1>1, <2>1, <2>2, RecordTypes DEF Reboot, TypeOK
<1>6. \A t \in Threads : thr'[t] = Idle
  BY DEF Reboot
<1> QED
  BY <1>1, <1>2, <1>4, <1>5, <1>6 DEF IInv

LEMMA AppearKeeps ==
  ASSUME IInv, NEW n \in LateNodes, Appear(n)
  PROVE  IInv'
BY LayoutAssumption DEF Appear, IInv, TypeOK

LEMMA InitInv == Init => IInv
<1> SUFFICES ASSUME Init PROVE IInv
  OBVIOUS
<1>1. boot = 1 /\ boot \in Boots
  BY LayoutFacts DEF Init
<1>2. TypeOK
  BY <1>1, RecordTypes DEF Init, TypeOK, PresentAtBoot
<1>3. ThreadOK(Idle, boot, missed)
  BY RecordTypes DEF ThreadOK
<1>4. FileOK(Empty, boot, missed)
  BY <1>1, RecordTypes, LayoutFacts DEF FileOK
<1> QED
  BY <1>2, <1>3, <1>4 DEF Init, IInv, FilesOK

LEMMA InvKept == IInv /\ [Next]_vars => IInv'
<1> SUFFICES ASSUME IInv, [Next]_vars PROVE IInv'
  OBVIOUS
<1>1. CASE UNCHANGED vars
  BY <1>1 DEF vars, IInv, TypeOK
<1>2. CASE \E t \in Threads : Start(t)
  BY <1>2, StartKeeps
<1>3. CASE \E t \in Threads : Scan(t)
  BY <1>3, OpenCacheKeeps, ReadCacheKeeps, WalkNodeKeeps, PickKeeps DEF Scan
<1>4. CASE \E t \in Threads : Store(t)
  BY <1>4, CreateTmpKeeps, WriteTmpKeeps, RenameTmpKeeps DEF Store
<1>5. CASE \E t \in Threads : Leave(t)
  BY <1>5, LeaveKeeps
<1>6. CASE \E i \in Pids : Crash(i)
  BY <1>6, CrashKeeps
<1>7. CASE \E n \in LateNodes : Appear(n)
  BY <1>7, AppearKeeps
<1>8. CASE Reboot
  BY <1>8, RebootKeeps
<1> QED
  BY <1>1, <1>2, <1>3, <1>4, <1>5, <1>6, <1>7, <1>8 DEF Next

LEMMA InvHolds == Spec => []IInv
BY InitInv, InvKept, PTL DEF Spec

(***************************************************************************)
(* Whether from the file or from a scan, whoever else was writing, dying   *)
(* or rebooting, every vaInitialize gets the first fitting nodes of this   *)
(* boot, unless some scan of this boot has missed a node.                  *)
(***************************************************************************)
THEOREM DevicesFound == Spec => []InitFindsDevices
BY InvHolds, InvFinds, PTL

-----------------------------------------------------------------------------
(***************************************************************************)
(* Later processes do not probe.  It needs that no two threads write the   *)
(* same temporary file, as two of one process would.                       *)
(***************************************************************************)
OwnNames == \A t, u \in Threads : Pid[t] = Pid[u] => t = u

(* One name, one file; and no temporary file is being read.                *)
NamesDistinct ==
  \A i \in Pids : tmp[i] # NoFile =>
    /\ tmp[i] # path
    /\ \A j \in Pids \ {i} : tmp[j] # tmp[i]
    /\ \A t \in Threads : thr[t].at = "read" => thr[t].fd # tmp[i]

(* d[f] is a whole file of boot b.                                         *)
OfBoot(f, d, b) == f # NoFile /\ d[f].boot = b

(* What a thread writes, and then renames, is its own temporary file.      *)
StoreOK(x, f, d, b) ==
  /\ x.at = "write" => x.fd = f
  /\ x.at = "rename" => OfBoot(f, d, b)

(* A late one finds a file of this boot.                                   *)
LateOK(x, s, d, b) ==
  x.late => s /\ x.at \in {"open", "read"} /\ (x.at = "read" => OfBoot(x.fd, d, b))

CacheInv ==
  /\ NamesDistinct
  /\ stored => OfBoot(path, data, boot)
  /\ \A t \in Threads : /\ StoreOK(thr[t], tmp[Pid[t]], data, boot)
                        /\ LateOK(thr[t], stored, data, boot)

(* A file that a name or a stream still leads to is not gone.              *)
LEMMA ContentsKept ==
  ASSUME NEW d, Contents(d), NEW f \in Inodes,
         f = path' \/ (\E i \in Pids : f = tmp'[i]) \/ (\E t \in Threads : f = thr'[t].fd)
  PROVE  data'[f] = d[f]
BY DEF Contents, Gone

LEMMA PidInPids == \A t \in Threads : Pid[t] \in Pids
BY DEF Pids

(* A step of one thread that leaves the names alone.                       *)
LEMMA ThreadStep ==
  ASSUME IInv, CacheInv, NEW t \in Threads, NEW rec \in Thread, Set(t, rec),
         UNCHANGED <<boot, path, tmp, stored>>, data' = data \/ Contents(data),
         StoreOK(rec, tmp[Pid[t]], data, boot), LateOK(rec, stored, data, boot),
         rec.at \in {"read", "write"} <=> rec.fd # NoFile,
         \A i \in Pids : tmp[i] # NoFile /\ rec.at = "read" => rec.fd # tmp[i]
  PROVE  CacheInv'
<1>1. \A u \in Threads : thr'[u] = IF u = t THEN rec ELSE thr[u]
  BY DEF IInv, TypeOK, Set
<1>2. NamesDistinct'
  BY <1>1 DEF CacheInv, NamesDistinct
<1>3. ASSUME NEW f \in Inodes, f = path \/ (\E i \in Pids : f = tmp[i])
                               \/ (\E u \in Threads : f = thr'[u].fd)
      PROVE  data'[f] = data[f]
  BY <1>3, ContentsKept
<1>4. stored' => OfBoot(path, data', boot)
  BY <1>3 DEF CacheInv, OfBoot, IInv, TypeOK
<1>5. ASSUME NEW u \in Threads
      PROVE  /\ StoreOK(thr'[u], tmp[Pid[u]], data', boot)
             /\ LateOK(thr'[u], stored, data', boot)
  <2>1. /\ StoreOK(thr'[u], tmp[Pid[u]], data, boot) /\ LateOK(thr'[u], stored, data, boot)
        /\ thr'[u] \in Thread
    BY <1>1 DEF CacheInv, IInv, TypeOK
  <2>2. OfBoot(tmp[Pid[u]], data, boot) => OfBoot(tmp[Pid[u]], data', boot)
    BY <1>3, PidInPids DEF OfBoot, IInv, TypeOK
  <2>3. OfBoot(thr'[u].fd, data, boot) => OfBoot(thr'[u].fd, data', boot)
    BY <1>3, <2>1 DEF OfBoot, Thread
  <2> QED
    BY <2>1, <2>2, <2>3 DEF StoreOK, LateOK
<1> QED
  BY <1>2, <1>4, <1>5 DEF CacheInv

(* A step that leaves a thread with nothing open and nothing to rename.    *)
LEMMA RestsKeeps ==
  ASSUME IInv, CacheInv, NEW t \in Threads, NEW rec \in Thread, Set(t, rec),
         rec.at \notin {"read", "write", "rename"}, rec.fd = NoFile,
         rec.late => rec.at = "open" /\ stored,
         UNCHANGED <<boot, path, tmp, stored>>, data' = data \/ Contents(data)
  PROVE  CacheInv'
<1>1. StoreOK(rec, tmp[Pid[t]], data, boot) /\ LateOK(rec, stored, data, boot)
  BY DEF StoreOK, LateOK
<1> QED
  BY <1>1, ThreadStep

LEMMA StartKeepsCache ==
  ASSUME IInv, CacheInv, NEW t \in Threads, Start(t)
  PROVE  CacheInv'
<1>1. PICK a \in {"open", "walk"}, late \in BOOLEAN :
        Set(t, [Idle EXCEPT !.at = a, !.late = late]) /\ (late => a = "open" /\ stored)
  BY DEF Start, IInv, TypeOK
<1> DEFINE rec == [Idle EXCEPT !.at = a, !.late = late]
<1>2. rec \in Thread /\ rec.at = a /\ rec.fd = NoFile /\ rec.late = late
  BY RecordTypes DEF Thread, Places
<1> HIDE DEF rec
<1> QED
  BY <1>1, <1>2, RestsKeeps DEF Start, rec

LEMMA OpenCacheKeepsCache ==
  ASSUME IInv, CacheInv, NEW t \in Threads, OpenCache(t)
  PROVE  CacheInv'
<1> DEFINE a == IF path = NoFile THEN "walk" ELSE "read"
           rec == [thr[t] EXCEPT !.at = a, !.fd = path]
<1>1. /\ thr[t] \in Thread /\ thr[t].at = "open" /\ path \in Inodes \cup {NoFile}
      /\ Set(t, rec) /\ LateOK(thr[t], stored, data, boot)
      /\ stored => OfBoot(path, data, boot)
  BY DEF IInv, TypeOK, OpenCache, CacheInv
<1>2. rec \in Thread /\ rec.at = a /\ rec.fd = path /\ rec.late = thr[t].late
  BY <1>1 DEF Thread, Places
<1> HIDE DEF rec
<1>3. StoreOK(rec, tmp[Pid[t]], data, boot) /\ LateOK(rec, stored, data, boot)
  BY <1>1, <1>2 DEF StoreOK, LateOK, OfBoot
<1>4. \A i \in Pids : tmp[i] # NoFile => tmp[i] # path
  BY DEF CacheInv, NamesDistinct
<1> QED
  BY <1>1, <1>2, <1>3, <1>4, ThreadStep DEF OpenCache

LEMMA ReadCacheKeepsCache ==
  ASSUME IInv, CacheInv, NEW t \in Threads, ReadCache(t)
  PROVE  CacheInv'
<1> DEFINE file == data[thr[t].fd]
<1>1. /\ thr[t] \in Thread /\ thr[t].at = "read" /\ LateOK(thr[t], stored, data, boot)
      /\ ThreadOK(thr[t], boot, missed)
  BY DEF IInv, TypeOK, ReadCache, CacheInv
<1>2. thr[t].fd \in Inodes
  BY <1>1 DEF ThreadOK, Thread
<1>3. file.result \in Result
  BY <1>2 DEF IInv, FilesOK, FileOK, File
<1>4. CASE CacheHit(file)
  <2> DEFINE rec == [Idle EXCEPT !.at = "done", !.result = file.result]
  <2>1. rec \in Thread /\ rec.at = "done" /\ rec.fd = NoFile /\ rec.late = FALSE
    BY <1>3, RecordTypes DEF Thread, Places
  <2>2. Set(t, rec)
    BY <1>4 DEF ReadCache
  <2> HIDE DEF rec
  <2> QED
    BY <2>1, <2>2, RestsKeeps DEF ReadCache
<1>5. CASE ~CacheHit(file)
  <2> DEFINE rec == Missed(thr[t])
  <2>1. rec \in Thread /\ rec.at = "walk" /\ rec.fd = NoFile /\ rec.late = thr[t].late
    BY <1>1 DEF Thread, Places, Missed
  <2>2. Set(t, rec)
    BY <1>5 DEF ReadCache
  <2> HIDE DEF rec
  <2>3. ~rec.late
    BY <1>1, <1>5, <2>1 DEF LateOK, OfBoot, CacheHit
  <2>4. StoreOK(rec, tmp[Pid[t]], data, boot) /\ LateOK(rec, stored, data, boot)
    BY <2>1, <2>3 DEF StoreOK, LateOK
  <2> QED
    BY <2>1, <2>2, <2>4, ThreadStep DEF ReadCache
<1> QED
  BY <1>4, <1>5

LEMMA WalkNodeKeepsCache ==
  ASSUME IInv, CacheInv, NEW t \in Threads, WalkNode(t)
  PROVE  CacheInv'
<1>1. /\ thr[t] \in Thread /\ thr[t].at = "walk" /\ LateOK(thr[t], stored, data, boot)
      /\ ThreadOK(thr[t], boot, missed)
  BY DEF IInv, TypeOK, WalkNode, CacheInv
<1>2. /\ ~thr[t].late /\ thr[t].fd = NoFile /\ thr[t].node + 1 \in Nodes
      /\ thr[t].walked \subseteq Nodes
  BY <1>1, LayoutFacts DEF LateOK, ThreadOK, Thread
<1>3. PICK rec \in Thread : /\ Set(t, rec) /\ rec.at \in {"walk", "pick"}
                           /\ rec.fd = NoFile /\ rec.late = FALSE
  <2> DEFINE n == thr[t].node + 1
             a == IF WalkedAll(n) THEN "pick" ELSE "walk"
             walks == [thr[t] EXCEPT !.node = n, !.at = a]
             more == [walks EXCEPT !.walked = @ \cup {n}]
  <2>1. Set(t, more) \/ Set(t, walks)
    BY DEF WalkNode
  <2>2. /\ walks \in Thread /\ walks.at = a /\ walks.fd = NoFile /\ walks.late = FALSE
        /\ walks.walked \subseteq Nodes
    BY <1>1, <1>2 DEF Thread, Places
  <2> HIDE DEF walks
  <2>3. /\ more \in Thread /\ more.at = a /\ more.fd = NoFile /\ more.late = FALSE
    BY <1>2, <2>2 DEF Thread
  <2> QED
    BY <2>1, <2>2, <2>3
<1> QED
  BY <1>3, RestsKeeps DEF WalkNode

LEMMA PickKeepsCache ==
  ASSUME IInv, CacheInv, NEW t \in Threads, Pick(t)
  PROVE  CacheInv'
<1>1. PICK a \in {"create", "done"} :
        Set(t, [Idle EXCEPT !.at = a, !.result = ScanResult(thr[t].walked)])
  BY DEF Pick
<1>2. thr[t].walked \in SUBSET Nodes /\ boot \in Boots
  BY DEF Thread, IInv, TypeOK
<1>3. ScanResult(thr[t].walked) \in Result
  BY <1>2, ScanFinds
<1> DEFINE rec == [Idle EXCEPT !.at = a, !.result = ScanResult(thr[t].walked)]
<1>4. rec \in Thread /\ rec.at = a /\ rec.fd = NoFile /\ rec.late = FALSE
  BY <1>3, RecordTypes DEF Thread, Places
<1> HIDE DEF rec
<1> QED
  BY <1>1, <1>4, RestsKeeps DEF Pick, rec

LEMMA LeaveKeepsCache ==
  ASSUME IInv, CacheInv, NEW t \in Threads, Leave(t)
  PROVE  CacheInv'
BY RestsKeeps, RecordTypes DEF Leave

LEMMA DoneRecord ==
  ASSUME IInv, NEW t \in Threads, Done(t)
  PROVE  \E rec \in Thread : /\ Set(t, rec) /\ rec.at = "done"
                             /\ rec.fd = NoFile /\ rec.late = FALSE
<1> DEFINE rec == [Idle EXCEPT !.at = "done", !.result = thr[t].result]
<1>1. thr[t] \in Thread
  BY DEF IInv, TypeOK
<1>2. rec \in Thread /\ rec.at = "done" /\ rec.fd = NoFile /\ rec.late = FALSE
  BY <1>1, RecordTypes DEF Thread, Places
<1>3. Set(t, rec)
  BY DEF Done
<1> HIDE DEF rec
<1> QED
  BY <1>2, <1>3

(* The file about to be written is nobody else's.                          *)
LEMMA StoreFileOwn ==
  ASSUME IInv, CacheInv, NEW t \in Threads, thr[t].at = "create"
  PROVE  /\ StoreFile(t) \in Inodes /\ StoreFile(t) # NoFile /\ StoreFile(t) # path
         /\ \A j \in Pids \ {Pid[t]} : tmp[j] # StoreFile(t)
         /\ \A u \in Threads : thr[u].at = "read" => thr[u].fd # StoreFile(t)
<1>1. thr[t].fd = NoFile
  BY DEF IInv, ThreadOK
<1>2. StoreFile(t) \in Inodes /\ StoreFile(t) # NoFile
  BY StoreFileExists, InodesAssumption
<1>3. CASE tmp[Pid[t]] = NoFile
  <2>1. StoreFile(t) = NewFile /\ NewFile \notin Named \cup Held
    BY <1>1, <1>3, NewFileExists DEF StoreFile
  <2> QED
    BY <1>2, <2>1 DEF Named, Held
<1>4. CASE tmp[Pid[t]] # NoFile
  BY <1>2, <1>4, PidInPids DEF StoreFile, CacheInv, NamesDistinct
<1> QED
  BY <1>3, <1>4

LEMMA CreateTmpKeepsCache ==
  ASSUME OwnNames, IInv, CacheInv, NEW t \in Threads, CreateTmp(t)
  PROVE  CacheInv'
<1>1. /\ thr[t] \in Thread /\ thr[t].at = "create" /\ thr[t].late = FALSE
      /\ Pid[t] \in Pids
  BY PidInPids DEF IInv, TypeOK, CreateTmp, CacheInv, LateOK, Thread
<1>2. CASE Done(t) /\ UNCHANGED <<tmp, data>>
  BY <1>2, DoneRecord, RestsKeeps DEF CreateTmp
<1>3. CASE ~(Done(t) /\ UNCHANGED <<tmp, data>>)
  <2> DEFINE f == StoreFile(t)
             rec == [thr[t] EXCEPT !.at = "write", !.fd = f]
  <2>1. /\ f \in Inodes /\ f # NoFile /\ f # path
        /\ \A j \in Pids \ {Pid[t]} : tmp[j] # f
        /\ \A u \in Threads : thr[u].at = "read" => thr[u].fd # f
    BY <1>1, StoreFileOwn
  <2>2. /\ tmp' = [tmp EXCEPT ![Pid[t]] = f]
        /\ data' = [data EXCEPT ![f] = Empty]
        /\ Set(t, rec) /\ UNCHANGED <<boot, path, stored>>
    BY <1>3 DEF CreateTmp
  <2>3. rec.at = "write" /\ rec.fd = f /\ rec.late = FALSE
    BY <1>1 DEF Thread
  <2> HIDE DEF f, rec
  <2>4. /\ \A u \in Threads : thr'[u] = IF u = t THEN rec ELSE thr[u]
        /\ \A i \in Pids : tmp'[i] = IF i = Pid[t] THEN f ELSE tmp[i]
        /\ \A g \in Inodes : g # f => data'[g] = data[g]
    BY <1>1, <2>1, <2>2 DEF IInv, TypeOK, Set, FilesOK
  <2>5. NamesDistinct'
    BY <2>1, <2>2, <2>3, <2>4 DEF CacheInv, NamesDistinct
  <2>6. stored' => OfBoot(path', data', boot')
    BY <2>1, <2>2, <2>4 DEF CacheInv, OfBoot, IInv, TypeOK
  <2>7. ASSUME NEW u \in Threads
        PROVE  /\ StoreOK(thr'[u], tmp'[Pid[u]], data', boot')
               /\ LateOK(thr'[u], stored', data', boot')
    <3>1. CASE u = t
      BY <2>3, <2>4, <3>1, <1>1 DEF StoreOK, LateOK
    <3>2. CASE u # t
      <4>1. Pid[u] \in Pids \ {Pid[t]} /\ thr[u] \in Thread
        BY <3>2, PidInPids DEF OwnNames, IInv, TypeOK
      <4>2. thr'[u] = thr[u] /\ tmp'[Pid[u]] = tmp[Pid[u]] /\ tmp[Pid[u]] # f
        BY <2>1, <2>4, <3>2, <4>1
      <4>3. StoreOK(thr[u], tmp[Pid[u]], data', boot)
        BY <2>4, <4>1, <4>2 DEF CacheInv, StoreOK, OfBoot, IInv, TypeOK
      <4>4. LateOK(thr[u], stored, data', boot)
        BY <2>1, <2>4, <4>1 DEF CacheInv, LateOK, OfBoot, Thread
      <4> QED
        BY <2>2, <4>2, <4>3, <4>4
    <3> QED
      BY <3>1, <3>2
  <2> QED
    BY <2>5, <2>6, <2>7 DEF CacheInv
<1> QED
  BY <1>2, <1>3

(* The temporary name is given up, and may become the cache's.             *)
LEMMA NameGivenUp ==
  ASSUME OwnNames, IInv, CacheInv, NEW t \in Threads, thr[t].at \in {"write", "rename"},
         Done(t), tmp' = [tmp EXCEPT ![Pid[t]] = NoFile], Contents(data), boot' = boot,
         \/ path' = path /\ stored' = stored
         \/ path' = tmp[Pid[t]] /\ OfBoot(path', data, boot) /\ stored' = TRUE
  PROVE  CacheInv'
<1>1. PICK rec \in Thread : Set(t, rec) /\ rec.at = "done" /\ rec.fd = NoFile /\ rec.late = FALSE
  BY DoneRecord
<1>2. /\ \A u \in Threads : thr'[u] = IF u = t THEN rec ELSE thr[u]
      /\ \A i \in Pids : tmp'[i] = IF i = Pid[t] THEN NoFile ELSE tmp[i]
  BY <1>1, PidInPids DEF IInv, TypeOK, Set
<1>3. path' \in Inodes \cup {NoFile}
  BY PidInPids DEF IInv, TypeOK
<1>4. NamesDistinct'
  BY <1>1, <1>2, PidInPids DEF CacheInv, NamesDistinct
<1>5. stored' => OfBoot(path', data', boot)
  <2>1. stored' => OfBoot(path', data, boot)
    BY DEF CacheInv
  <2> QED
    BY <1>3, <2>1, ContentsKept DEF OfBoot
<1>6. ASSUME NEW u \in Threads
      PROVE  /\ StoreOK(thr'[u], tmp'[Pid[u]], data', boot)
             /\ LateOK(thr'[u], stored', data', boot)
  <2>1. CASE u = t
    BY <1>1, <1>2, <2>1 DEF StoreOK, LateOK
  <2>2. CASE u # t
    <3>1. /\ Pid[u] \in Pids /\ Pid[u] # Pid[t] /\ thr[u] \in Thread
          /\ thr'[u] = thr[u] /\ tmp'[Pid[u]] = tmp[Pid[u]]
          /\ tmp[Pid[u]] \in Inodes \cup {NoFile}
      BY <1>2, <2>2, PidInPids DEF OwnNames, IInv, TypeOK
    <3>2. OfBoot(tmp[Pid[u]], data, boot) => OfBoot(tmp[Pid[u]], data', boot)
      BY <3>1, ContentsKept DEF OfBoot
    <3>3. OfBoot(thr[u].fd, data, boot) => OfBoot(thr[u].fd, data', boot)
      BY <3>1, ContentsKept DEF OfBoot, Thread
    <3>4. StoreOK(thr[u], tmp[Pid[u]], data, boot) /\ LateOK(thr[u], stored, data, boot)
      BY DEF CacheInv
    <3> QED
      BY <3>1, <3>2, <3>3, <3>4 DEF StoreOK, LateOK
  <2> QED
    BY <2>1, <2>2
<1> QED
  BY <1>4, <1>5, <1>6 DEF CacheInv

LEMMA WriteTmpKeepsCache ==
  ASSUME OwnNames, IInv, CacheInv, NEW t \in Threads, WriteTmp(t)
  PROVE  CacheInv'
<1>1. /\ thr[t] \in Thread /\ thr[t].at = "write" /\ thr[t].late = FALSE
      /\ ThreadOK(thr[t], boot, missed) /\ Pid[t] \in Pids /\ boot \in Boots
  BY PidInPids DEF IInv, TypeOK, WriteTmp, CacheInv, LateOK, Thread
<1>2. CASE tmp' = [tmp EXCEPT ![Pid[t]] = NoFile] /\ Done(t) /\ Contents(data)
  BY <1>1, <1>2, NameGivenUp DEF WriteTmp
<1>3. CASE ~(tmp' = [tmp EXCEPT ![Pid[t]] = NoFile] /\ Done(t) /\ Contents(data))
  <2> DEFINE f == thr[t].fd
             file == [boot |-> boot, result |-> thr[t].result]
             rec == [thr[t] EXCEPT !.at = "rename", !.fd = NoFile]
  <2>1. f \in Inodes /\ f # NoFile /\ f = tmp[Pid[t]]
    BY <1>1, InodesAssumption DEF ThreadOK, Thread, CacheInv, StoreOK
  <2>2. /\ tmp' = tmp /\ data' = [data EXCEPT ![f] = file]
        /\ Set(t, rec) /\ UNCHANGED <<boot, path, stored>>
    BY <1>3 DEF WriteTmp
  <2>3. rec.at = "rename" /\ rec.fd = NoFile /\ rec.late = FALSE
    BY <1>1 DEF Thread
  <2>4. file.boot = boot
    OBVIOUS
  <2> HIDE DEF f, rec, file
  <2>5. /\ \A u \in Threads : thr'[u] = IF u = t THEN rec ELSE thr[u]
        /\ \A g \in Inodes : data'[g] = IF g = f THEN file ELSE data[g]
    BY <2>1, <2>2 DEF IInv, TypeOK, Set, FilesOK
  <2>6. NamesDistinct'
    BY <2>2, <2>3, <2>5 DEF CacheInv, NamesDistinct
  <2>7. ASSUME NEW g \in Inodes \cup {NoFile}, OfBoot(g, data, boot)
        PROVE  OfBoot(g, data', boot)
    BY <2>4, <2>5, <2>7 DEF OfBoot
  <2>8. stored' => OfBoot(path', data', boot')
    BY <2>2, <2>7 DEF CacheInv, IInv, TypeOK
  <2>9. ASSUME NEW u \in Threads
        PROVE  /\ StoreOK(thr'[u], tmp'[Pid[u]], data', boot')
               /\ LateOK(thr'[u], stored', data', boot')
    <3>1. CASE u = t
      BY <2>1, <2>2, <2>3, <2>4, <2>5, <3>1 DEF StoreOK, LateOK, OfBoot
    <3>2. CASE u # t
      <4>1. /\ thr'[u] = thr[u] /\ thr[u].fd \in Inodes \cup {NoFile}
            /\ tmp[Pid[u]] \in Inodes \cup {NoFile}
        BY <2>5, <3>2, PidInPids DEF IInv, TypeOK, Thread
      <4>2. StoreOK(thr[u], tmp[Pid[u]], data, boot) /\ LateOK(thr[u], stored, data, boot)
        BY DEF CacheInv
      <4> QED
        BY <2>2, <2>7, <4>1, <4>2 DEF StoreOK, LateOK
    <3> QED
      BY <3>1, <3>2
  <2> QED
    BY <2>6, <2>8, <2>9 DEF CacheInv
<1> QED
  BY <1>2, <1>3

LEMMA RenameTmpKeepsCache ==
  ASSUME OwnNames, IInv, CacheInv, NEW t \in Threads, RenameTmp(t)
  PROVE  CacheInv'
<1>1. thr[t].at = "rename" /\ OfBoot(tmp[Pid[t]], data, boot)
  BY DEF RenameTmp, CacheInv, StoreOK
<1>2. path' = tmp[Pid[t]]
  BY <1>1 DEF RenameTmp, OfBoot
<1>3. OfBoot(path', data, boot)
  BY <1>1, <1>2
<1>4. /\ Done(t) /\ tmp' = [tmp EXCEPT ![Pid[t]] = NoFile] /\ Contents(data)
      /\ boot' = boot /\ stored' = TRUE
  BY DEF RenameTmp
<1> QED
  BY <1>1, <1>2, <1>3, <1>4, NameGivenUp

(* Threads that die neither store nor are late.                            *)
LEMMA CrashKeepsCache ==
  ASSUME IInv, CacheInv, NEW i \in Pids, Crash(i)
  PROVE  CacheInv'
<1>1. /\ \A u \in Threads : thr'[u] \in {Idle, thr[u]}
      /\ UNCHANGED <<boot, path, tmp, stored>> /\ Contents(data)
  BY DEF Crash
<1>2. NamesDistinct'
  BY <1>1, RecordTypes DEF CacheInv, NamesDistinct
<1>3. stored' => OfBoot(path', data', boot')
  BY <1>1, ContentsKept DEF CacheInv, OfBoot, IInv, TypeOK
<1>4. ASSUME NEW u \in Threads
      PROVE  /\ StoreOK(thr'[u], tmp'[Pid[u]], data', boot')
             /\ LateOK(thr'[u], stored', data', boot')
  <2>1. CASE thr'[u] = Idle
    BY <2>1, RecordTypes DEF StoreOK, LateOK
  <2>2. CASE thr'[u] = thr[u]
    <3>1. /\ thr[u] \in Thread /\ tmp[Pid[u]] \in Inodes \cup {NoFile} /\ Pid[u] \in Pids
          /\ StoreOK(thr[u], tmp[Pid[u]], data, boot) /\ LateOK(thr[u], stored, data, boot)
      BY PidInPids DEF CacheInv, IInv, TypeOK
    <3>2. OfBoot(tmp[Pid[u]], data, boot) => OfBoot(tmp[Pid[u]], data', boot)
      BY <1>1, <3>1, ContentsKept DEF OfBoot
    <3>3. OfBoot(thr[u].fd, data, boot) => OfBoot(thr[u].fd, data', boot)
      BY <1>1, <2>2, <3>1, ContentsKept DEF OfBoot, Thread
    <3> QED
      BY <1>1, <2>2, <3>1, <3>2, <3>3 DEF StoreOK, LateOK
  <2> QED
    BY <1>1, <2>1, <2>2
<1> QED
  BY <1>2, <1>3, <1>4 DEF CacheInv

LEMMA RebootKeepsCache ==
  ASSUME IInv, CacheInv, Reboot
  PROVE  CacheInv'
<1>1. /\ \A u \in Threads : thr'[u] = Idle
      /\ stored' = FALSE
      /\ \/ UNCHANGED <<path, tmp>>
         \/ path' = NoFile /\ \A i \in Pids : tmp'[i] = NoFile
  BY DEF Reboot
<1>2. NamesDistinct'
  BY <1>1, RecordTypes DEF CacheInv, NamesDistinct
<1>3. \A u \in Threads : /\ StoreOK(thr'[u], tmp'[Pid[u]], data', boot')
                         /\ LateOK(thr'[u], stored', data', boot')
  BY <1>1, RecordTypes DEF StoreOK, LateOK
<1> QED
  BY <1>1, <1>2, <1>3 DEF CacheInv

LEMMA InitCache == Init => CacheInv
BY RecordTypes DEF Init, CacheInv, NamesDistinct, StoreOK, LateOK

LEMMA CacheUnchanged ==
  ASSUME CacheInv, UNCHANGED <<boot, path, tmp, data, thr, stored>>
  PROVE  CacheInv'
BY DEF CacheInv, NamesDistinct

LEMMA CacheInvKept == OwnNames /\ IInv /\ CacheInv /\ [Next]_vars => CacheInv'
<1> SUFFICES ASSUME OwnNames, IInv, CacheInv, [Next]_vars PROVE CacheInv'
  OBVIOUS
<1>1. CASE UNCHANGED vars
  BY <1>1, CacheUnchanged DEF vars
<1>2. CASE \E t \in Threads : Start(t)
  BY <1>2, StartKeepsCache
<1>3. CASE \E t \in Threads : Scan(t)
  BY <1>3, OpenCacheKeepsCache, ReadCacheKeepsCache, WalkNodeKeepsCache, PickKeepsCache DEF Scan
<1>4. CASE \E t \in Threads : Store(t)
  BY <1>4, CreateTmpKeepsCache, WriteTmpKeepsCache, RenameTmpKeepsCache DEF Store
<1>5. CASE \E t \in Threads : Leave(t)
  BY <1>5, LeaveKeepsCache
<1>6. CASE \E i \in Pids : Crash(i)
  BY <1>6, CrashKeepsCache
<1>7. CASE \E n \in LateNodes : Appear(n)
  BY <1>7, CacheUnchanged DEF Appear
<1>8. CASE Reboot
  BY <1>8, RebootKeepsCache
<1> QED
  BY <1>1, <1>2, <1>3, <1>4, <1>5, <1>6, <1>7, <1>8 DEF Next

(***************************************************************************)
(* Once a scan of this boot is in place, nobody who looks for it asks a    *)
(* node again: when every thread has a temporary name of its own, the      *)
(* file in place is always whole and of this boot.                         *)
(***************************************************************************)
THEOREM CacheSparesProbes ==
  ASSUME OwnNames
  PROVE  Spec => []LaterProcessesDoNotProbe
<1>1. Init => CacheInv
  BY InitCache
<1>2. IInv /\ CacheInv /\ [Next]_vars => CacheInv'
  BY CacheInvKept
<1>3. CacheInv => LaterProcessesDoNotProbe
  BY DEF CacheInv, LateOK, LaterProcessesDoNotProbe
<1> QED
  BY <1>1, <1>2, <1>3, InvHolds, PTL DEF Spec

=============================================================================
