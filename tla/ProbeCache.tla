----------------------------- MODULE ProbeCache -----------------------------
(***************************************************************************)
(* Finding the device nodes at vaInitialize.  Every process that loads the *)
(* driver wants the same scan of /dev/video*; the first ones make it and   *)
(* leave it in a file keyed by the boot's ID, by writing a temporary file  *)
(* and renaming it.  No lock is held: processes, and threads of one        *)
(* process, do this at the same time, and may die anywhere in it.          *)
(***************************************************************************)
EXTENDS Integers, FiniteSets, Sequences

CONSTANTS
  Threads,    \* threads that call vaInitialize
  Pid,        \* Pid[t]: the process of thread t, which names its file
  NoCache,    \* threads with V4L2SL_PROBE_NOCACHE in their environment
  NoProc,     \* threads for which reading the boot's ID may fail
  Codecs,     \* the codecs with a coded fourcc of their own
  Layout,     \* Layout[b][n]: what /dev/video<n> is in boot b
  Inodes,     \* bound: files that exist or are held open at once
  LateNodes,  \* nodes that may appear only some time after the boot
  Events      \* what else may fail: opening a node, writing the file

ASSUME ProbeAssumption ==
  /\ IsFiniteSet(Threads) /\ NoCache \cup NoProc \subseteq Threads
  /\ Events \subseteq {"open", "store"}

Boots == DOMAIN Layout
Nodes == DOMAIN Layout[1]
Pids == {Pid[t] : t \in Threads}
NoNode == 0
NoFile == 0

(* A node: its kind of device, formats, controls and request API.          *)
Node == [m2m: BOOLEAN, out: SUBSET (Codecs \cup {"raw"}),
         cap: SUBSET {"raw", "jpeg"}, rotate: BOOLEAN, request: BOOLEAN]

(* Every boot has the same number of nodes; a converter has formats.       *)
ASSUME LayoutAssumption ==
  /\ Layout \in Seq(Seq(Node)) /\ Layout # <<>> /\ Layout[1] # <<>>
  /\ \A b \in Boots : Len(Layout[b]) = Len(Layout[1])
  /\ \A b \in Boots, n \in Nodes :
       Layout[b][n].rotate => Layout[b][n].out \cup Layout[b][n].cap # {}
  /\ LateNodes \subseteq Nodes

(* There is an inode for every file that can be alive: the cache, and what *)
(* each process and each thread may have besides.                          *)
ASSUME InodesAssumption ==
  /\ IsFiniteSet(Inodes) /\ NoFile \notin Inodes
  /\ Cardinality(Inodes) >= Cardinality(Pids) + Cardinality(Threads)

Roles == Codecs \cup {"jpeg", "vpp"}
Result == [Roles -> Nodes \cup {NoNode}]
Nothing == [r \in Roles |-> NoNode]

(***************************************************************************)
(* A file is empty from its creation until it is closed: the whole text    *)
(* fits the stream's buffer and is written at once.                        *)
(***************************************************************************)
Empty == [boot |-> 0, result |-> Nothing]

VARIABLES
  boot,     \* the current boot
  present,  \* the nodes that exist
  path,     \* the file that the cache's name leads to
  tmp,      \* tmp[i]: the file that the temporary name of process i leads to
  data,     \* the contents of the files
  thr,      \* the threads
  missed,   \* history: a scan of this boot did not see some node
  stored    \* history: some thread has put a scan of this boot in place

vars == <<boot, present, path, tmp, data, thr, missed, stored>>

Places == {"idle", "open", "read", "walk", "pick", "create", "write", "rename", "done"}

Thread == [at: Places, node: Nodes \cup {0}, walked: SUBSET Nodes,
           fd: Inodes \cup {NoFile}, late: BOOLEAN, result: Result]

Idle == [at |-> "idle", node |-> 0, walked |-> {}, fd |-> NoFile,
         late |-> FALSE, result |-> Nothing]

PresentAtBoot == {Nodes \ S : S \in SUBSET LateNodes}

Init ==
  /\ boot = 1
  /\ present \in PresentAtBoot
  /\ path = NoFile
  /\ tmp = [i \in Pids |-> NoFile]
  /\ data = [f \in Inodes |-> Empty]
  /\ thr = [t \in Threads |-> Idle]
  /\ missed = FALSE /\ stored = FALSE

Device(n) == Layout[boot][n]
Min0(S) == IF S = {} THEN NoNode ELSE CHOOSE m \in S : \A k \in S : m <= k

HasCodedOutput(n) == Device(n).out \cap Codecs # {}

-----------------------------------------------------------------------------
(* The scan.                                                               *)

(* Mutant: the request API is not asked for.                               *)
PickAnyDevice(codec, walked) == Min0({n \in walked : codec \in Device(n).out})

(* v4l2sl_pick_device_for_codec: the first node that offers the coded      *)
(* format and can allocate a request.                                      *)
PickDeviceForCodec(codec, walked) ==
  Min0({n \in walked : Device(n).request /\ codec \in Device(n).out})

(* scan_all_uncached, after the walk.                                      *)
ScanResult(walked) ==
  [r \in Roles |->
     CASE r = "jpeg" -> Min0({n \in walked : "jpeg" \in Device(n).cap})
       [] r = "vpp"  -> Min0({n \in walked : /\ Device(n).rotate
                                             /\ "jpeg" \notin Device(n).cap
                                             /\ ~HasCodedOutput(n)})
       [] OTHER      -> PickDeviceForCodec(r, walked)]

(* A file that no name and no open stream leads to is gone.                *)
Gone(f) == f # path' /\ (\A i \in Pids : f # tmp'[i]) /\ (\A t \in Threads : f # thr'[t].fd)
Contents(d) == data' = [f \in Inodes |-> IF Gone(f) THEN Empty ELSE d[f]]

Set(t, rec) == thr' = [thr EXCEPT ![t] = rec]

(* Whether t can read the boot's ID.                                       *)
BootIdRead(t) == {TRUE} \cup {r \in {FALSE} : t \in NoProc}

(* vaInitialize.                                                           *)
Start(t) ==
  /\ thr[t].at = "idle"
  /\ \E knows \in BootIdRead(t) :
       LET looks == knows /\ t \notin NoCache
       IN  Set(t, [Idle EXCEPT !.at = IF looks THEN "open" ELSE "walk",
                               !.late = stored /\ looks])
  /\ UNCHANGED <<boot, present, path, tmp, data, missed, stored>>

OpenCache(t) ==
  /\ thr[t].at = "open"
  /\ Set(t, [thr[t] EXCEPT !.at = IF path = NoFile THEN "walk" ELSE "read",
                           !.fd = path])
  /\ UNCHANGED <<boot, present, path, tmp, data, missed, stored>>

(* Mutant: the first line is not compared.                                 *)
CacheReadable(file) == file.boot # 0

CacheHit(file) == file.boot = boot

(* Mutant: after a miss, wait for whoever is writing the file.             *)
MissedWaits(rec) == [rec EXCEPT !.at = "open", !.fd = NoFile]

Missed(rec) == [rec EXCEPT !.at = "walk", !.fd = NoFile]

(* probe_cache_load: a file without this boot's ID is no file.             *)
ReadCache(t) ==
  /\ thr[t].at = "read"
  /\ LET file == data[thr[t].fd]
     IN  Set(t, IF CacheHit(file)
                THEN [Idle EXCEPT !.at = "done", !.result = file.result]
                ELSE Missed(thr[t]))
  /\ UNCHANGED <<boot, present, path, tmp, missed, stored>>
  /\ Contents(data)

WalkedAll(n) == n = Cardinality(Nodes)

(* scan_nodes: open the next node; keep it if it is a memory-to-memory     *)
(* device with a format on either side.                                    *)
WalkNode(t) ==
  /\ thr[t].at = "walk"
  /\ LET n == thr[t].node + 1
         walks == [thr[t] EXCEPT !.node = n,
                                 !.at = IF WalkedAll(n) THEN "pick" ELSE "walk"]
         accepted == Device(n).m2m /\ Device(n).out \cup Device(n).cap # {}
     IN
     \/ /\ n \in present
        /\ Set(t, IF accepted THEN [walks EXCEPT !.walked = @ \cup {n}] ELSE walks)
        /\ missed' = missed
     \/ /\ n \notin present \/ "open" \in Events
        /\ Set(t, walks)
        /\ missed' = TRUE
  /\ UNCHANGED <<boot, present, path, tmp, data, stored>>

(* Every candidate is asked for a request (v4l2sl_video_has_request_api);  *)
(* then the devices are chosen, and stored if the boot's ID, read again,   *)
(* is there.                                                               *)
Pick(t) ==
  /\ thr[t].at = "pick"
  /\ \E knows \in BootIdRead(t) :
       Set(t, [Idle EXCEPT !.at = IF knows THEN "create" ELSE "done",
                           !.result = ScanResult(thr[t].walked)])
  /\ UNCHANGED <<boot, present, path, tmp, data, missed, stored>>

-----------------------------------------------------------------------------
(* The store.                                                              *)

Named == {path} \cup {tmp[i] : i \in Pids}
Held == {thr[t].fd : t \in Threads}
NewFile == CHOOSE f \in Inodes : f \notin Named \cup Held

Done(t) == Set(t, [Idle EXCEPT !.at = "done", !.result = thr[t].result])

(* Mutant: the cache's own name is opened for writing.                     *)
StoreInPlace(t) == IF path = NoFile THEN NewFile ELSE path

(* fopen(tmp, "w"): the temporary file of this process, emptied.           *)
StoreFile(t) == IF tmp[Pid[t]] = NoFile THEN NewFile ELSE tmp[Pid[t]]

CreateTmp(t) ==
  /\ thr[t].at = "create"
  /\ \/ /\ "store" \in Events
        /\ Done(t)
        /\ UNCHANGED <<tmp, data>>
     \/ LET f == StoreFile(t)
        IN  /\ tmp' = [tmp EXCEPT ![Pid[t]] = f]
            /\ data' = [data EXCEPT ![f] = Empty]
            /\ Set(t, [thr[t] EXCEPT !.at = "write", !.fd = f])
  /\ UNCHANGED <<boot, present, path, missed, stored>>

(* fclose writes the text; if it fails the temporary file is removed.      *)
WriteTmp(t) ==
  /\ thr[t].at = "write"
  /\ UNCHANGED <<boot, present, path, missed, stored>>
  /\ \/ /\ "store" \in Events
        /\ tmp' = [tmp EXCEPT ![Pid[t]] = NoFile]
        /\ Done(t)
        /\ Contents(data)
     \/ /\ data' = [data EXCEPT ![thr[t].fd] = [boot |-> boot, result |-> thr[t].result]]
        /\ Set(t, [thr[t] EXCEPT !.at = "rename", !.fd = NoFile])
        /\ tmp' = tmp

(* rename(): whatever the temporary name leads to by now, if anything.     *)
RenameTmp(t) ==
  /\ thr[t].at = "rename"
  /\ path' = IF tmp[Pid[t]] = NoFile THEN path ELSE tmp[Pid[t]]
  /\ tmp' = [tmp EXCEPT ![Pid[t]] = NoFile]
  /\ stored' = TRUE
  /\ Done(t)
  /\ Contents(data)
  /\ UNCHANGED <<boot, present, missed>>

(* vaTerminate, and the thread may come again.                             *)
Leave(t) ==
  /\ thr[t].at = "done"
  /\ Set(t, Idle)
  /\ UNCHANGED <<boot, present, path, tmp, data, missed, stored>>

-----------------------------------------------------------------------------
(* The system around it.                                                   *)

(* A process dies, with all its threads.                                   *)
Crash(i) ==
  /\ \E t \in Threads : Pid[t] = i /\ thr[t].at # "idle"
  /\ thr' = [t \in Threads |-> IF Pid[t] = i THEN Idle ELSE thr[t]]
  /\ UNCHANGED <<boot, present, path, tmp, missed, stored>>
  /\ Contents(data)

(* A reboot renumbers the nodes; files under /tmp may survive it.          *)
Reboot ==
  /\ boot + 1 \in Boots
  /\ boot' = boot + 1
  /\ present' \in PresentAtBoot
  /\ thr' = [t \in Threads |-> Idle]
  /\ missed' = FALSE /\ stored' = FALSE
  /\ \/ UNCHANGED <<path, tmp>>
     \/ path' = NoFile /\ tmp' = [i \in Pids |-> NoFile]
  /\ Contents(data)

Appear(n) ==
  /\ n \notin present
  /\ present' = present \cup {n}
  /\ UNCHANGED <<boot, path, tmp, data, thr, missed, stored>>

Scan(t) == OpenCache(t) \/ ReadCache(t) \/ WalkNode(t) \/ Pick(t)
Store(t) == CreateTmp(t) \/ WriteTmp(t) \/ RenameTmp(t)

Next ==
  \/ \E t \in Threads : Start(t) \/ Scan(t) \/ Store(t) \/ Leave(t)
  \/ \E i \in Pids : Crash(i)
  \/ \E n \in LateNodes : Appear(n)
  \/ Reboot

(* A thread inside vaInitialize keeps running; nobody has to call it.      *)
Spec == Init /\ [][Next]_vars /\ \A t \in Threads : WF_vars(Scan(t) \/ Store(t))

-----------------------------------------------------------------------------
(* What must hold.                                                         *)

(* Everything has its type.                                                *)
TypeOK ==
  /\ boot \in Boots /\ present \subseteq Nodes
  /\ path \in Inodes \cup {NoFile}
  /\ tmp \in [Pids -> Inodes \cup {NoFile}]
  /\ thr \in [Threads -> Thread]
  /\ missed \in BOOLEAN /\ stored \in BOOLEAN

(* The devices of a boot: per codec the first node that decodes it with    *)
(* requests, the first JPEG encoder, and the first converter that rotates. *)
Expected(role, n) ==
  LET d == Device(n)
  IN  /\ d.m2m
      /\ CASE role = "jpeg" -> "jpeg" \in d.cap
           [] role = "vpp"  -> d.rotate /\ ~("jpeg" \in d.cap) /\ ~HasCodedOutput(n)
           [] OTHER         -> d.request /\ role \in d.out

(* "Matching is path-agnostic so /dev/videoN can move after reboot"        *)
(* (v4l2stateless_probe.h): whether from the file or from a scan, whoever  *)
(* else was writing, dying or rebooting, every vaInitialize gets the nodes *)
(* of this boot - unless some scan of this boot found a node missing.  The *)
(* types are kept.                                                         *)
InitFindsDevices ==
  /\ TypeOK
  /\ \A t \in Threads : thr[t].at = "done" /\ ~missed =>
       \A r \in Roles :
         LET n == thr[t].result[r]
             fit == {m \in Nodes : Expected(r, m)}
         IN  IF fit = {} THEN n = NoNode
             ELSE n \in fit /\ \A m \in fit : n <= m

(* "REQUEST_ALLOC at most once per candidate node per boot - the cache     *)
(* makes sure later processes never repeat it" (fill_decoder_node): who    *)
(* looks for the file after one of this boot was put in place asks no      *)
(* node again.  thr[t].late says that t does.                              *)
LaterProcessesDoNotProbe ==
  \A t \in Threads : thr[t].at = "pick" => ~thr[t].late

(* vaInitialize returns, unless its process dies: no thread stays inside.  *)
InitReturns ==
  \A t \in Threads : []<>(thr[t].at \in {"idle", "done"})

=============================================================================
