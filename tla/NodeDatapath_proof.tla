------------------------- MODULE NodeDatapath_proof -------------------------
(***************************************************************************)
(* What NodeDatapath.tla promises, proved for any links, slots, kinds of   *)
(* drift and bounds.                                                       *)
(*                                                                         *)
(* An apply is many kernel states.  The inductive invariant has three      *)
(* parts: Kernel, what every call of every stage keeps, whoever makes it;  *)
(* Process, what memory, jobs and mutex have to do with each other; and    *)
(* Progress of the one job that writes undisturbed, which says what its    *)
(* finished stages have established.  After the last stage, Progress and   *)
(* Kernel together are HostOf.                                             *)
(***************************************************************************)
EXTENDS NodeDatapath, SequenceTheorems, TLAPS

\* A device has addresses of its own links only, and none when it is absent.
\* A route goes over a device that has its link's end, and no table has two.
Kernel(h) ==
  /\ \A s \in Slots : \A l \in h.ends[s] : SlotOf[l] = s
  /\ \A s \in Slots : h.dev[s] = "absent" => h.ends[s] = {}
  /\ "both" \notin Drifts => \A s \in Slots : h.dev[s] # "both"
  /\ \A l \in Links : l \in h.routes => l \in h.ends[SlotOf[l]]
  /\ \A l, m \in Links :
       l \in h.routes /\ m \in h.routes /\ SlotOf[l] = SlotOf[m] => l = m

\* What is left of an apply, and of a teardown.
A1 == <<"links", "unlinks", "nft", "rules", "routes">>
A2 == <<"unlinks", "nft", "rules", "routes">>
A3 == <<"nft", "rules", "routes">>
A4 == <<"rules", "routes">>
A5 == <<"routes">>
T1 == <<"tear", "rules", "routes", "nft">>
T2 == <<"rules", "routes", "nft">>
T3 == <<"routes", "nft">>
T4 == <<"nft">>

ApplyTodos == {A1, A2, A3, A4, A5, <<>>}
TearTodos == {T1, T2, T3, T4, <<>>}

\* What each stage of the apply of m leaves behind.
LinkThere(h, m) ==
  m \in Links => /\ h.dev[SlotOf[m]] # "absent" /\ m \in h.ends[SlotOf[m]]
                 /\ "both" \notin Drifts => h.dev[SlotOf[m]] = m
OthersGone(h, m) == \A s \in Slots : s # MarkOf(m) => h.dev[s] = "absent"
Marked(h, m) == h.mark = MarkOf(m)
Ruled(h, m) == h.rules = {MarkOf(m)} \cap Tables
Routed(h, m) == h.routes = {m} \cap Routes

Progress(job, h) ==
  /\ job.todo # A1 => LinkThere(h, job.plan)
  /\ job.todo \in {A3, A4, A5, <<>>} => OthersGone(h, job.plan)
  /\ job.todo \in {A4, A5, <<>>} => Marked(h, job.plan)
  /\ job.todo \in {A5, <<>>} => Ruled(h, job.plan)
  /\ job.todo = <<>> => Routed(h, job.plan)

\* The kernel an apply of m leaves, but for what no stage repairs: the VNI of
\* a device that was retargeted, and a former link's address.
Steers(h, m) ==
  LinkThere(h, m) /\ OthersGone(h, m) /\ Marked(h, m) /\ Ruled(h, m) /\ Routed(h, m)

\* Memory, jobs and mutex.
Process ==
  /\ "work" \in lock => work # NoJob
  /\ work # NoJob => /\ up /\ applied = Nothing
                     /\ work.plan \in Paths /\ work.todo \in ApplyTodos
                     /\ "work" \notin lock => work.todo = A1
  /\ stop # NoJob => /\ up /\ stopping /\ stopped = "no"
                     /\ \/ stop.plan = Blocked /\ stop.todo \in ApplyTodos /\ lock = {"stop"}
                        \/ stop.plan = NoMark /\ stop.todo \in TearTodos /\ "stop" \notin lock
  /\ stop = NoJob => "stop" \notin lock
  /\ stopped # "no" => up /\ stopping
  /\ stopped = "kept" => "work" \notin lock
  /\ exit # "none" => "work" \notin lock /\ stop = NoJob /\ stopped = "no"
  /\ ~up => applied = Nothing /\ ~stopping

\* What the undisturbed writer has done, and what was left when it ended.
Written ==
  ~drifted =>
    /\ "work" \in lock /\ ~stopping => Progress(work, host)
    /\ stop.plan = Blocked => Progress(stop, host)
    /\ applied # Nothing /\ ~stopping => Steers(host, applied)
    /\ stopped = "kept" \/ exit = "kept" => Steers(host, Blocked)

\* The inductive invariant.
Inv == TypeOK /\ Kernel(host) /\ Process /\ Written

-----------------------------------------------------------------------------
(* The stages of a job.                                                    *)

\* What is left of a job after each of its stages.
LEMMA Todos ==
  /\ ApplyOrder = A1 /\ TeardownOrder = T1
  /\ Head(A1) = "links" /\ Tail(A1) = A2 /\ Head(A2) = "unlinks" /\ Tail(A2) = A3
  /\ Head(A3) = "nft" /\ Tail(A3) = A4 /\ Head(A4) = "rules" /\ Tail(A4) = A5
  /\ Head(A5) = "routes" /\ Tail(A5) = <<>>
  /\ Head(T1) = "tear" /\ Tail(T1) = T2 /\ Head(T2) = "rules" /\ Tail(T2) = T3
  /\ Head(T3) = "routes" /\ Tail(T3) = T4 /\ Head(T4) = "nft" /\ Tail(T4) = <<>>
BY DEF ApplyOrder, TeardownOrder, A1, A2, A3, A4, A5, T1, T2, T3, T4

\* No two of these are the same.
LEMMA TodosDiffer ==
  /\ A1 \notin {A2, A3, A4, A5, <<>>} /\ A2 \notin {A3, A4, A5, <<>>}
  /\ A3 \notin {A4, A5, <<>>} /\ A4 \notin {A5, <<>>} /\ A5 # <<>>
  /\ T1 # <<>> /\ T2 # <<>> /\ T3 # <<>> /\ T4 # <<>>
BY DEF A1, A2, A3, A4, A5, T1, T2, T3, T4

\* A suffix without its first element is the next suffix.
LEMMA SuffixTail ==
  ASSUME NEW S, NEW s \in Seq(S), NEW i \in 1 .. Len(s)
  PROVE  SubSeq(s, i + 1, Len(s)) = Tail(SubSeq(s, i, Len(s)))
<1> DEFINE n == Len(s)
           t == SubSeq(s, i, n)
           u == SubSeq(s, i + 1, n)
<1>1. t \in Seq(S) /\ Len(t) = n - i + 1 /\ \A j \in 1 .. n - i + 1 : t[j] = s[i + j - 1]
  BY SubSeqProperties
<1>2. u \in Seq(S) /\ Len(u) = n - i /\ \A j \in 1 .. n - i : u[j] = s[i + j]
  BY SubSeqProperties
<1>3. n \in Nat /\ i \in 1 .. n
  OBVIOUS
<1> HIDE DEF n, t, u
<1>4. Tail(t) \in Seq(S) /\ Len(Tail(t)) = n - i /\ \A j \in 1 .. n - i : Tail(t)[j] = t[j + 1]
  BY <1>1, <1>3
<1>5. u = Tail(t)
  BY <1>1, <1>2, <1>3, <1>4, SeqEqual
<1> QED
  BY <1>5 DEF n, t, u

\* The jobs of the type are those of an apply and those of a teardown.
LEMMA JobTodos ==
  /\ {SubSeq(ApplyOrder, i, 5) : i \in 1 .. 6} = ApplyTodos
  /\ {SubSeq(TeardownOrder, i, 4) : i \in 1 .. 5} = TearTodos
<1> DEFINE S == {"links", "unlinks", "nft", "rules", "routes", "tear"}
<1>1. A1 \in Seq(S) /\ Len(A1) = 5 /\ T1 \in Seq(S) /\ Len(T1) = 4
  BY DEF A1, T1
<1>2. /\ SubSeq(A1, 1, 5) = A1 /\ SubSeq(A1, 2, 5) = A2 /\ SubSeq(A1, 3, 5) = A3
      /\ SubSeq(A1, 4, 5) = A4 /\ SubSeq(A1, 5, 5) = A5 /\ SubSeq(A1, 6, 5) = <<>>
  <2> HIDE DEF S
  <2>1. SubSeq(A1, 1, 5) = A1
    BY <1>1, SubSeqFull
  <2>2. \A i \in 1 .. 5 : SubSeq(A1, i + 1, 5) = Tail(SubSeq(A1, i, 5))
    BY <1>1, SuffixTail
  <2>3. /\ SubSeq(A1, 2, 5) = Tail(SubSeq(A1, 1, 5)) /\ SubSeq(A1, 3, 5) = Tail(SubSeq(A1, 2, 5))
        /\ SubSeq(A1, 4, 5) = Tail(SubSeq(A1, 3, 5)) /\ SubSeq(A1, 5, 5) = Tail(SubSeq(A1, 4, 5))
        /\ SubSeq(A1, 6, 5) = Tail(SubSeq(A1, 5, 5))
    BY <2>2
  <2> QED
    BY <2>1, <2>3, Todos, Zenon
<1>3. /\ SubSeq(T1, 1, 4) = T1 /\ SubSeq(T1, 2, 4) = T2 /\ SubSeq(T1, 3, 4) = T3
      /\ SubSeq(T1, 4, 4) = T4 /\ SubSeq(T1, 5, 4) = <<>>
  <2> HIDE DEF S
  <2>1. SubSeq(T1, 1, 4) = T1
    BY <1>1, SubSeqFull
  <2>2. \A i \in 1 .. 4 : SubSeq(T1, i + 1, 4) = Tail(SubSeq(T1, i, 4))
    BY <1>1, SuffixTail
  <2>3. /\ SubSeq(T1, 2, 4) = Tail(SubSeq(T1, 1, 4)) /\ SubSeq(T1, 3, 4) = Tail(SubSeq(T1, 2, 4))
        /\ SubSeq(T1, 4, 4) = Tail(SubSeq(T1, 3, 4)) /\ SubSeq(T1, 5, 4) = Tail(SubSeq(T1, 4, 4))
    BY <2>2
  <2> QED
    BY <2>1, <2>3, Todos, Zenon
<1>4. 1 .. 6 = {1, 2, 3, 4, 5, 6} /\ 1 .. 5 = {1, 2, 3, 4, 5}
  OBVIOUS
<1>5. {SubSeq(A1, i, 5) : i \in {1, 2, 3, 4, 5, 6}} = ApplyTodos
  BY <1>2, Zenon DEF ApplyTodos
<1>6. {SubSeq(T1, i, 4) : i \in {1, 2, 3, 4, 5}} = TearTodos
  BY <1>3, Zenon DEF TearTodos
<1> QED
  BY <1>4, <1>5, <1>6, Todos

\* So a job has the stages that are left, and a plan.
LEMMA JobIs == Job = [todo : ApplyTodos \cup TearTodos, plan : Plans \cup {Nothing}]
BY JobTodos, Zenon DEF Job

-----------------------------------------------------------------------------
(* The calls of the stages.                                                *)

\* Marks, slots and the special values do not collide.
LEMMA Names ==
  /\ \A l \in Links : SlotOf[l] \in Slots /\ MarkOf(l) = SlotOf[l] /\ l \in Plans
                      /\ l \notin {"absent", "moved", "wrong", "both"}
  /\ MarkOf(Blocked) = Blocked /\ MarkOf(NoMark) = NoMark
  /\ Blocked \notin Slots /\ NoMark \notin Slots /\ NoMark \notin Tables
  /\ Blocked \notin Links /\ NoMark \notin Links /\ NoMark \notin Routes /\ NoMark # Blocked
  /\ Nothing \notin Plans /\ Paths \subseteq Plans /\ NoMark \in Paths
  /\ \A m \in Plans : MarkOf(m) \in Tables \cup {NoMark}
BY NodeAssumption DEF Slots, Tables, Routes, Plans, Paths, MarkOf

\* A device is deleted, with its addresses and its routes.
LEMMA DelDevIs ==
  ASSUME NEW h \in Host, NEW s \in Slots
  PROVE  /\ DelDev(h, s) \in Host
         /\ \A t \in Slots : DelDev(h, s).dev[t] = IF t = s THEN "absent" ELSE h.dev[t]
         /\ \A t \in Slots : DelDev(h, s).ends[t] = IF t = s THEN {} ELSE h.ends[t]
         /\ DelDev(h, s).mark = h.mark /\ DelDev(h, s).rules = h.rules
         /\ DelDev(h, s).routes = {r \in h.routes : MarkOf(r) # s}
BY DEF DelDev, Host, Devices

LEMMA DelDevKernel ==
  ASSUME NEW h \in Host, NEW s \in Slots, Kernel(h)
  PROVE  Kernel(DelDev(h, s))
BY DelDevIs, Names DEF Kernel

\* A device becomes another one, and keeps its addresses.
LEMMA SetDevIs ==
  ASSUME NEW h \in Host, NEW s \in Slots, NEW d \in Devices
  PROVE  /\ SetDev(h, s, d) \in Host
         /\ \A t \in Slots : SetDev(h, s, d).dev[t] = IF t = s THEN d ELSE h.dev[t]
         /\ SetDev(h, s, d).ends = h.ends /\ SetDev(h, s, d).mark = h.mark
         /\ SetDev(h, s, d).rules = h.rules /\ SetDev(h, s, d).routes = h.routes
BY DEF SetDev, Host

\* The link's device is there, with the link's address.
LEMMA CarriesIs ==
  ASSUME NEW h \in Host, NEW m \in Links
  PROVE  /\ Carries(h, m) \in Host
         /\ \A t \in Slots : Carries(h, m).dev[t] = IF t = SlotOf[m] THEN m ELSE h.dev[t]
         /\ \A t \in Slots :
              Carries(h, m).ends[t] = IF t = SlotOf[m] THEN h.ends[t] \cup {m} ELSE h.ends[t]
         /\ Carries(h, m).mark = h.mark /\ Carries(h, m).rules = h.rules
         /\ Carries(h, m).routes = h.routes
<1> DEFINE s == SlotOf[m]
           g == SetDev(h, s, m)
<1>1. s \in Slots /\ m \in Devices
  BY Names DEF Devices
<1>2. /\ g \in Host /\ \A t \in Slots : g.dev[t] = IF t = s THEN m ELSE h.dev[t]
      /\ g.ends = h.ends /\ g.mark = h.mark /\ g.rules = h.rules /\ g.routes = h.routes
  BY <1>1, SetDevIs
<1>3. Carries(h, m) = [g EXCEPT !.ends[s] = @ \cup {m}]
  BY DEF Carries
<1> HIDE DEF g, s
<1>4. /\ Carries(h, m) \in Host /\ Carries(h, m).dev = g.dev
      /\ \A t \in Slots : Carries(h, m).ends[t] = IF t = s THEN g.ends[t] \cup {m} ELSE g.ends[t]
      /\ Carries(h, m).mark = g.mark /\ Carries(h, m).rules = g.rules
      /\ Carries(h, m).routes = g.routes
  BY <1>1, <1>2, <1>3 DEF Host
<1> QED
  BY <1>2, <1>4 DEF s

LEMMA CarriesKernel ==
  ASSUME NEW h \in Host, NEW m \in Links, Kernel(h)
  PROVE  Kernel(Carries(h, m))
<1> DEFINE g == Carries(h, m)
<1>1. /\ g \in Host /\ g.routes = h.routes
      /\ \A t \in Slots : g.dev[t] = IF t = SlotOf[m] THEN m ELSE h.dev[t]
      /\ \A t \in Slots : g.ends[t] = IF t = SlotOf[m] THEN h.ends[t] \cup {m} ELSE h.ends[t]
  BY CarriesIs
<1> HIDE DEF g
<1>2. SlotOf[m] \in Slots /\ m # "absent" /\ m # "both"
  BY Names
<1>3. ASSUME NEW s \in Slots, NEW l \in g.ends[s]
      PROVE  SlotOf[l] = s
  <2>1. l \in h.ends[s] \/ (l = m /\ s = SlotOf[m])
    BY <1>1
  <2> QED
    BY <2>1 DEF Kernel
<1>4. \A s \in Slots : g.dev[s] = "absent" => g.ends[s] = {}
  BY <1>1, <1>2 DEF Kernel
<1>5. "both" \notin Drifts => \A s \in Slots : g.dev[s] # "both"
  BY <1>1, <1>2 DEF Kernel
<1>6. \A l \in Links : SlotOf[l] \in Slots
  BY Names
<1>7. ASSUME NEW l \in Links, l \in g.routes
      PROVE  l \in g.ends[SlotOf[l]]
  <2>1. l \in h.ends[SlotOf[l]] /\ SlotOf[l] \in Slots
    BY <1>1, <1>6, <1>7 DEF Kernel
  <2> QED
    BY <1>1, <2>1
<1> QED
  BY <1>1, <1>3, <1>4, <1>5, <1>7 DEF Kernel, g

\* What every call of a stage keeps.
Sound(c) == c.host \in Host /\ Kernel(c.host)

LEMMA LinkStage ==
  ASSUME NEW h \in Host, NEW m \in Plans, Kernel(h), NEW c \in LinkCalls(h, m)
  PROVE  Sound(c) /\ (c.last => LinkThere(c.host, m))
<1>1. CASE m \notin Links
  BY <1>1 DEF LinkCalls, Call, Sound, LinkThere
<1>2. CASE m \in Links /\ h.dev[SlotOf[m]] = "wrong"
  BY <1>2, DelDevIs, DelDevKernel, Names DEF LinkCalls, Call, Sound
<1>3. CASE m \in Links /\ h.dev[SlotOf[m]] = "both"
  <2> DEFINE g == Carries(h, m)
             k == SetDev(g, SlotOf[m], "wrong")
  <2>1. c = Call(k, TRUE)
    BY <1>3 DEF LinkCalls
  <2>2. g \in Host /\ Kernel(g) /\ SlotOf[m] \in Slots /\ "wrong" \in Devices
    BY <1>3, CarriesIs, CarriesKernel, Names DEF Devices
  <2>3. g.ends[SlotOf[m]] = h.ends[SlotOf[m]] \cup {m}
    BY <1>3, <2>2, CarriesIs
  <2>4. "both" \in Drifts
    BY <1>3, Names DEF Kernel
  <2> HIDE DEF g
  <2>5. /\ k \in Host /\ \A t \in Slots : k.dev[t] = IF t = SlotOf[m] THEN "wrong" ELSE g.dev[t]
        /\ k.ends = g.ends /\ k.routes = g.routes
    BY <2>2, SetDevIs
  <2> HIDE DEF k
  <2>6. Kernel(k) /\ LinkThere(k, m)
    BY <2>2, <2>3, <2>4, <2>5 DEF Kernel, LinkThere
  <2> QED
    BY <2>1, <2>5, <2>6 DEF Call, Sound
<1>4. CASE m \in Links /\ h.dev[SlotOf[m]] # "wrong" /\ h.dev[SlotOf[m]] # "both"
  <2>1. c = Call(Carries(h, m), TRUE)
    BY <1>4 DEF LinkCalls
  <2>2. SlotOf[m] \in Slots /\ m # "absent"
    BY <1>4, Names
  <2>3. /\ Carries(h, m).dev[SlotOf[m]] = m
        /\ Carries(h, m).ends[SlotOf[m]] = h.ends[SlotOf[m]] \cup {m}
    BY <1>4, <2>2, CarriesIs
  <2>4. LinkThere(Carries(h, m), m)
    BY <2>2, <2>3 DEF LinkThere
  <2> QED
    BY <1>4, <2>1, <2>4, CarriesIs, CarriesKernel DEF Call, Sound
<1> QED
  BY <1>1, <1>2, <1>3, <1>4

LEMMA UnlinkStage ==
  ASSUME NEW h \in Host, NEW m \in Plans, Kernel(h), NEW c \in UnlinkCalls(h, m)
  PROVE  /\ Sound(c)
         /\ LinkThere(h, m) => LinkThere(c.host, m)
         /\ c.last => OthersGone(c.host, m)
<1> DEFINE stale == Present(h) \ {MarkOf(m)}
<1>1. CASE stale = {}
  <2>1. c = Call(h, TRUE)
    BY <1>1 DEF UnlinkCalls
  <2>2. OthersGone(h, m)
    BY <1>1 DEF OthersGone, Present
  <2> QED
    BY <2>1, <2>2 DEF Call, Sound
<1>2. CASE stale # {}
  <2>1. PICK s \in stale : c = Call(DelDev(h, s), FALSE)
    BY <1>2 DEF UnlinkCalls
  <2>2. s \in Slots /\ s # MarkOf(m)
    BY DEF Present
  <2>3. LinkThere(h, m) => LinkThere(DelDev(h, s), m)
    BY <2>2, DelDevIs, Names DEF LinkThere
  <2> QED
    BY <2>1, <2>2, <2>3, DelDevIs, DelDevKernel DEF Call, Sound
<1> QED
  BY <1>1, <1>2

LEMMA TearStage ==
  ASSUME NEW h \in Host, Kernel(h), NEW c \in TearCalls(h)
  PROVE  Sound(c)
<1> DEFINE over(s) == {r \in h.routes : MarkOf(r) = s}
<1>1. CASE Present(h) = {}
  BY <1>1 DEF TearCalls, Call, Sound
<1>2. CASE Present(h) # {}
  <2>1. PICK s \in Present(h) :
          c = Call(IF over(s) # {} THEN [h EXCEPT !.routes = @ \ over(s)] ELSE DelDev(h, s), FALSE)
    BY <1>2 DEF TearCalls
  <2>2. s \in Slots
    BY DEF Present
  <2> DEFINE g == [h EXCEPT !.routes = @ \ over(s)]
  <2>3. g \in Host /\ g.dev = h.dev /\ g.ends = h.ends /\ g.routes = h.routes \ over(s)
    BY DEF Host
  <2> HIDE DEF g, over
  <2>4. Kernel(g)
    BY <2>3 DEF Kernel
  <2>5. c = Call(g, FALSE) \/ c = Call(DelDev(h, s), FALSE)
    BY <2>1 DEF g
  <2> QED
    BY <2>2, <2>3, <2>4, <2>5, DelDevIs, DelDevKernel DEF Call, Sound
<1> QED
  BY <1>1, <1>2

LEMMA NftStage ==
  ASSUME NEW h \in Host, NEW m \in Plans, Kernel(h), NEW c \in NftCalls(h, m)
  PROVE  /\ Sound(c) /\ c.host.dev = h.dev
         /\ LinkThere(h, m) => LinkThere(c.host, m)
         /\ OthersGone(h, m) => OthersGone(c.host, m)
         /\ c.last /\ Marked(c.host, m)
<1> DEFINE g == [h EXCEPT !.mark = MarkOf(m)]
<1>1. /\ g \in Host /\ g.dev = h.dev /\ g.ends = h.ends /\ g.routes = h.routes
      /\ g.mark = MarkOf(m)
  BY Names DEF Host
<1>2. c.host = g /\ c.last = TRUE
  BY DEF NftCalls, Call
<1> HIDE DEF g
<1>3. Kernel(g) /\ (LinkThere(h, m) => LinkThere(g, m)) /\ (OthersGone(h, m) => OthersGone(g, m))
  BY <1>1 DEF Kernel, LinkThere, OthersGone
<1> QED
  BY <1>1, <1>2, <1>3 DEF Sound, Marked

LEMMA RuleStage ==
  ASSUME NEW h \in Host, NEW m \in Plans, Kernel(h), NEW c \in RuleCalls(h, m)
  PROVE  /\ Sound(c)
         /\ LinkThere(h, m) => LinkThere(c.host, m)
         /\ OthersGone(h, m) => OthersGone(c.host, m)
         /\ Marked(h, m) => Marked(c.host, m)
         /\ c.last => Ruled(c.host, m)
<1> DEFINE missing == ({MarkOf(m)} \cap Tables) \ h.rules
           stale   == h.rules \ {MarkOf(m)}
           g(R)    == [h EXCEPT !.rules = R]
<1>1. \A R \in SUBSET Tables :
        /\ g(R) \in Host /\ g(R).dev = h.dev /\ g(R).ends = h.ends
        /\ g(R).routes = h.routes /\ g(R).mark = h.mark
  BY DEF Host
<1>2. h.rules \subseteq Tables
  BY DEF Host
<1>3. \/ c.host = h /\ c.last = TRUE /\ missing = {} /\ stale = {}
      \/ c.last = FALSE /\ \E R \in SUBSET Tables : c.host = g(R)
  <2>1. CASE missing # {}
    <3>1. c.host = g(h.rules \cup missing) /\ c.last = FALSE
      BY <2>1 DEF RuleCalls, Call
    <3> QED
      BY <3>1, <1>2
  <2>2. CASE missing = {} /\ stale = {}
    BY <2>2 DEF RuleCalls, Call
  <2>3. CASE missing = {} /\ stale # {}
    <3>1. PICK r \in stale : c = Call([h EXCEPT !.rules = @ \ {r}], FALSE)
      BY <2>3 DEF RuleCalls
    <3>2. c.host = g(h.rules \ {r}) /\ c.last = FALSE
      BY <3>1 DEF Call
    <3> QED
      BY <3>2, <1>2
  <2> QED
    BY <2>1, <2>2, <2>3
<1>4. CASE c.host = h /\ c.last = TRUE /\ missing = {} /\ stale = {}
  <2>1. Ruled(h, m)
    BY <1>2, <1>4 DEF Ruled
  <2> QED
    BY <1>4, <2>1 DEF Sound
<1>5. ASSUME c.last = FALSE, NEW R \in SUBSET Tables, c.host = g(R)
      PROVE  /\ Sound(c)
             /\ LinkThere(h, m) => LinkThere(c.host, m)
             /\ OthersGone(h, m) => OthersGone(c.host, m)
             /\ Marked(h, m) => Marked(c.host, m)
  <2> HIDE DEF g
  <2> QED
    BY <1>1, <1>5 DEF Sound, Kernel, LinkThere, OthersGone, Marked
<1> QED
  BY <1>3, <1>4, <1>5

\* The last stage completes the kernel.  The devices of the other slots are
\* gone, and their routes with them; the table of the link has its route, or
\* the device has no other link's address and so the table no other route.
LEMMA RouteStage ==
  ASSUME NEW h \in Host, NEW m \in Plans, Kernel(h), NEW c \in RouteCalls(h, m),
         m \in Links => /\ h.dev[SlotOf[m]] # "absent"
                        /\ m \in h.routes \/ h.ends[SlotOf[m]] = {m}
  PROVE  /\ Sound(c)
         /\ LinkThere(h, m) => LinkThere(c.host, m)
         /\ OthersGone(h, m) => OthersGone(c.host, m)
         /\ Marked(h, m) => Marked(c.host, m)
         /\ Ruled(h, m) => Ruled(c.host, m)
         /\ OthersGone(h, m) /\ c.last => Routed(c.host, m)
<1> DEFINE g(R) == [h EXCEPT !.routes = R]
<1>1. h.routes \subseteq Routes
  BY DEF Host
<1>2. ASSUME NEW R \in SUBSET Routes
      PROVE  /\ g(R) \in Host /\ g(R).dev = h.dev /\ g(R).ends = h.ends
             /\ g(R).routes = R /\ g(R).mark = h.mark /\ g(R).rules = h.rules
  BY DEF Host
<1>3. ASSUME NEW R \in SUBSET Routes, c.host = g(R)
      PROVE  /\ c.host \in Host
             /\ LinkThere(h, m) => LinkThere(c.host, m)
             /\ OthersGone(h, m) => OthersGone(c.host, m)
             /\ Marked(h, m) => Marked(c.host, m)
             /\ Ruled(h, m) => Ruled(c.host, m)
  <2> HIDE DEF g
  <2> QED
    BY <1>2, <1>3 DEF LinkThere, OthersGone, Marked, Ruled
<1>4. CASE Blocked \in h.routes /\ m # Blocked
  <2>1. c.host = g(h.routes \ {Blocked}) /\ ~c.last
    BY <1>4 DEF RouteCalls, Call
  <2>2. c.host.dev = h.dev /\ c.host.ends = h.ends /\ c.host.routes = h.routes \ {Blocked}
    BY <1>1, <1>2, <2>1
  <2>3. Kernel(c.host)
    BY <2>2 DEF Kernel
  <2> QED
    BY <1>1, <1>3, <2>1, <2>3 DEF Sound
<1>5. CASE ~(Blocked \in h.routes /\ m # Blocked)
  <2> DEFINE R == h.routes \cup ({m} \cap Routes)
  <2>1. c.host = g(R) /\ R \in SUBSET Routes
    BY <1>1, <1>5 DEF RouteCalls, Call
  <2>2. c.host.dev = h.dev /\ c.host.ends = h.ends /\ c.host.routes = R
    BY <1>2, <2>1
  <2>3. ASSUME m \in Links
        PROVE  /\ m \in h.ends[SlotOf[m]]
               /\ \A l \in Links : l \in h.routes /\ SlotOf[l] = SlotOf[m] => l = m
    BY <2>3 DEF Kernel
  <2>4. \A l \in Links : l \in R <=> l \in h.routes \/ l = m
    BY DEF Routes
  <2>5. Kernel(c.host)
    <3> HIDE DEF R
    <3> QED
      BY <2>2, <2>3, <2>4 DEF Kernel
  <2>6. ASSUME OthersGone(h, m)
        PROVE  R = {m} \cap Routes
    <3>1. ASSUME NEW l \in Links, l \in h.routes
          PROVE  l = m
      <4>1. l \in h.ends[SlotOf[l]] /\ SlotOf[l] \in Slots
        BY <3>1, Names DEF Kernel
      <4>2. h.dev[SlotOf[l]] # "absent"
        BY <4>1 DEF Kernel
      <4>3. SlotOf[l] = MarkOf(m)
        BY <2>6, <4>1, <4>2 DEF OthersGone
      <4>4. m \in Links
        BY <4>1, <4>3, Names DEF Plans, Routes
      <4> QED
        BY <2>3, <3>1, <4>3, <4>4, Names
    <3>2. Blocked \in h.routes => m = Blocked
      BY <1>5
    <3>3. \A r \in h.routes : r = m
      BY <1>1, <3>1, <3>2 DEF Routes
    <3> QED
      BY <1>1, <3>3
  <2>7. OthersGone(h, m) => Routed(c.host, m)
    BY <2>2, <2>6 DEF Routed
  <2> QED
    BY <1>3, <2>1, <2>5, <2>7 DEF Sound
<1> QED
  BY <1>4, <1>5

\* Only the nftables transaction changes the mark.
LEMMA MarkStays ==
  ASSUME NEW h \in Host, NEW m \in Plans,
         NEW c \in LinkCalls(h, m) \cup UnlinkCalls(h, m) \cup RuleCalls(h, m) \cup RouteCalls(h, m)
  PROVE  c.host.mark = h.mark
<1>1. CASE c \in LinkCalls(h, m)
  <2>1. CASE m \in Links
    <3>1. SlotOf[m] \in Slots /\ "wrong" \in Devices
      BY <2>1, Names DEF Devices
    <3>2. /\ DelDev(h, SlotOf[m]).mark = h.mark
          /\ Carries(h, m) \in Host /\ Carries(h, m).mark = h.mark
      BY <2>1, <3>1, DelDevIs, CarriesIs
    <3>3. SetDev(Carries(h, m), SlotOf[m], "wrong").mark = h.mark
      BY <3>1, <3>2, SetDevIs
    <3> QED
      BY <1>1, <2>1, <3>2, <3>3 DEF LinkCalls, Call
  <2>2. CASE m \notin Links
    BY <1>1, <2>2 DEF LinkCalls, Call
  <2> QED
    BY <2>1, <2>2
<1>2. CASE c \in UnlinkCalls(h, m)
  <2>1. \A s \in Present(h) : DelDev(h, s).mark = h.mark
    BY DelDevIs DEF Present
  <2> QED
    BY <1>2, <2>1 DEF UnlinkCalls, Call
<1>3. \A R : [h EXCEPT !.rules = R].mark = h.mark /\ [h EXCEPT !.routes = R].mark = h.mark
  BY DEF Host
<1>4. CASE c \in RuleCalls(h, m)
  <2>1. c.host = h \/ \E R : c.host = [h EXCEPT !.rules = R]
    BY <1>4 DEF RuleCalls, Call
  <2> QED
    BY <1>3, <2>1
<1>5. CASE c \in RouteCalls(h, m)
  <2> DEFINE R == IF Blocked \in h.routes /\ m # Blocked
                    THEN h.routes \ {Blocked} ELSE h.routes \cup ({m} \cap Routes)
  <2>1. c.host = [h EXCEPT !.routes = R]
    BY <1>5 DEF RouteCalls, Call
  <2> QED
    BY <1>3, <2>1
<1> QED
  BY <1>1, <1>2, <1>4, <1>5

\* A call is one of the stage that comes first, and may end it.
After(job, c) == [todo |-> IF c.last THEN Tail(job.todo) ELSE job.todo, plan |-> job.plan]

LEMMA CallIs ==
  ASSUME NEW h, NEW job \in Job, NEW d \in CallsOf(job, h)
  PROVE  /\ job.todo # <<>> /\ ~NoRoute(job, h)
         /\ \E c \in Calls(Head(job.todo), h, job.plan) : d[1] = c.host /\ d[2] = After(job, c)
<1>1. job.todo # <<>> /\ ~NoRoute(job, h)
  BY DEF CallsOf
<1>2. PICK c \in Calls(Head(job.todo), h, job.plan) :
        d = <<c.host, IF c.last THEN [job EXCEPT !.todo = Tail(@)] ELSE job>>
  BY <1>1, Zenon DEF CallsOf
<1>3. job = [todo |-> job.todo, plan |-> job.plan]
  BY JobIs
<1>4. d[1] = c.host /\ d[2] = After(job, c)
  BY <1>2, <1>3 DEF After
<1> QED
  BY <1>1, <1>4

\* One call of an apply, whatever the kernel was: it is a call on a kernel,
\* it keeps what the stages before have done, and the last of a stage does
\* that stage's part.
LEMMA ApplyCall ==
  ASSUME NEW h \in Host, Kernel(h), NEW job \in Job, job.plan \in Plans,
         job.todo \in ApplyTodos, NEW d \in CallsOf(job, h)
  PROVE  /\ d[1] \in Host /\ Kernel(d[1])
         /\ d[2] \in Job /\ d[2].plan = job.plan /\ d[2].todo \in ApplyTodos
         /\ Progress(job, h) => Progress(d[2], d[1])
         /\ Progress(job, h) /\ d[1].mark # h.mark => LinkThere(h, job.plan) /\ Marked(d[1], job.plan)
<1> DEFINE m == job.plan
<1>1. job.todo # <<>> /\ ~NoRoute(job, h)
  BY CallIs, Zenon
<1>2. PICK c \in Calls(Head(job.todo), h, job.plan) : d[1] = c.host /\ d[2] = After(job, c)
  BY CallIs, Zenon
<1>4. d[2].plan = m /\ d[2].todo = IF c.last THEN Tail(job.todo) ELSE job.todo
  BY <1>2 DEF After
<1>5. d[2] = [todo |-> d[2].todo, plan |-> m]
  BY <1>2 DEF After
<1>6. job.todo \in {A1, A2, A3, A4, A5}
  BY <1>1 DEF ApplyTodos
<1>7. Tail(job.todo) \in ApplyTodos
  BY <1>6, Todos DEF ApplyTodos
<1>8. d[2].todo \in ApplyTodos /\ d[2] \in Job
  BY <1>4, <1>5, <1>7, JobIs
<1>9. d[2].plan = m
  BY <1>4
<1> USE <1>2, <1>4, Todos, TodosDiffer DEF Calls
<1>a. CASE job.todo = A1
  <2>1. c \in LinkCalls(h, m)
    BY <1>a
  <2>2. d[2].todo = A1 \/ (c.last /\ d[2].todo = A2)
    BY <1>a
  <2>3. Sound(c) /\ (c.last => LinkThere(c.host, m)) /\ c.host.mark = h.mark
    BY <2>1, LinkStage, MarkStays
  <2>4. Progress(d[2], d[1])
    BY <2>2, <2>3 DEF Progress
  <2> QED
    BY <1>8, <1>9, <2>3, <2>4 DEF Sound
<1>b. CASE job.todo = A2
  <2>1. c \in UnlinkCalls(h, m)
    BY <1>b
  <2>2. d[2].todo = A2 \/ (c.last /\ d[2].todo = A3)
    BY <1>b
  <2>3. /\ Sound(c) /\ (LinkThere(h, m) => LinkThere(c.host, m))
        /\ c.last => OthersGone(c.host, m)
        /\ c.host.mark = h.mark
    BY <2>1, UnlinkStage, MarkStays
  <2>4. Progress(job, h) => Progress(d[2], d[1])
    BY <1>b, <2>2, <2>3 DEF Progress
  <2> QED
    BY <1>8, <1>9, <2>3, <2>4 DEF Sound
<1>c. CASE job.todo = A3
  <2>1. c \in NftCalls(h, m)
    BY <1>c
  <2>2. d[2].todo = A3 \/ (c.last /\ d[2].todo = A4)
    BY <1>c
  <2>3. /\ Sound(c) /\ (LinkThere(h, m) => LinkThere(c.host, m))
        /\ OthersGone(h, m) => OthersGone(c.host, m)
        /\ Marked(c.host, m)
    BY <2>1, NftStage
  <2>4. Progress(job, h) => Progress(d[2], d[1])
    BY <1>c, <2>2, <2>3 DEF Progress
  <2>5. Progress(job, h) => LinkThere(h, m)
    BY <1>c DEF Progress
  <2> QED
    BY <1>8, <1>9, <2>3, <2>4, <2>5 DEF Sound
<1>d. CASE job.todo = A4
  <2>1. c \in RuleCalls(h, m)
    BY <1>d
  <2>2. d[2].todo = A4 \/ (c.last /\ d[2].todo = A5)
    BY <1>d
  <2>3. /\ Sound(c) /\ (LinkThere(h, m) => LinkThere(c.host, m))
        /\ OthersGone(h, m) => OthersGone(c.host, m)
        /\ Marked(h, m) => Marked(c.host, m)
        /\ c.last => Ruled(c.host, m)
        /\ c.host.mark = h.mark
    BY <2>1, RuleStage, MarkStays
  <2>4. Progress(job, h) => Progress(d[2], d[1])
    BY <1>d, <2>2, <2>3 DEF Progress
  <2> QED
    BY <1>8, <1>9, <2>3, <2>4 DEF Sound
<1>e. CASE job.todo = A5
  <2>1. c \in RouteCalls(h, m)
    BY <1>e
  <2>2. d[2].todo = A5 \/ (c.last /\ d[2].todo = <<>>)
    BY <1>e
  <2>3. m \in Links => /\ h.dev[SlotOf[m]] # "absent"
                       /\ m \in h.routes \/ h.ends[SlotOf[m]] = {m}
    BY <1>1, <1>e DEF NoRoute
  <2>4. /\ Sound(c) /\ (LinkThere(h, m) => LinkThere(c.host, m))
        /\ OthersGone(h, m) => OthersGone(c.host, m)
        /\ Marked(h, m) => Marked(c.host, m)
        /\ Ruled(h, m) => Ruled(c.host, m)
        /\ OthersGone(h, m) /\ c.last => Routed(c.host, m)
        /\ c.host.mark = h.mark
    BY <2>1, <2>3, RouteStage, MarkStays
  <2>5. Progress(job, h) => Progress(d[2], d[1])
    BY <1>e, <2>2, <2>4 DEF Progress
  <2> QED
    BY <1>8, <1>9, <2>4, <2>5 DEF Sound
<1> QED
  BY <1>6, <1>a, <1>b, <1>c, <1>d, <1>e

\* One call of a teardown.
LEMMA TearCall ==
  ASSUME NEW h \in Host, Kernel(h), NEW job \in Job, job.plan = NoMark,
         job.todo \in TearTodos, NEW d \in CallsOf(job, h)
  PROVE  /\ d[1] \in Host /\ Kernel(d[1])
         /\ d[2] \in Job /\ d[2].plan = NoMark /\ d[2].todo \in TearTodos
<1>1. PICK c \in Calls(Head(job.todo), h, job.plan) : d[1] = c.host /\ d[2] = After(job, c)
  BY CallIs, Zenon
<1>2. job.todo \in {T1, T2, T3, T4}
  <2>1. job.todo # <<>>
    BY CallIs, Zenon
  <2> QED
    BY <2>1 DEF TearTodos
<1>4. /\ d[2] = [todo |-> d[2].todo, plan |-> NoMark] /\ d[2].plan = NoMark
      /\ d[2].todo = IF c.last THEN Tail(job.todo) ELSE job.todo
  BY <1>1 DEF After
<1>5. Tail(job.todo) \in TearTodos
  BY <1>2, Todos DEF TearTodos
<1>6. d[2].todo \in TearTodos /\ d[2] \in Job
  BY <1>4, <1>5, JobIs, Names DEF Plans
<1>7. \/ c \in TearCalls(h) \/ c \in RuleCalls(h, NoMark)
      \/ c \in RouteCalls(h, NoMark) \/ c \in NftCalls(h, NoMark)
  BY <1>2, Todos DEF Calls
<1>8. NoMark \in Plans /\ NoMark \notin Links
  BY Names DEF Plans
<1>9. Sound(c)
  BY <1>7, <1>8, TearStage, RuleStage, RouteStage, NftStage
<1> QED
  BY <1>1, <1>4, <1>6, <1>9 DEF Sound

-----------------------------------------------------------------------------
(* The invariant.                                                          *)

\* The jobs the goroutines start with.
LEMMA JobValues ==
  /\ NoJob \in Job /\ NoJob.plan = Nothing /\ NoJob.todo = <<>>
  /\ \A m \in Plans : /\ ApplyOf(m) \in Job /\ ApplyOf(m) # NoJob
                      /\ ApplyOf(m).todo = A1 /\ ApplyOf(m).plan = m
  /\ TeardownJob \in Job /\ TeardownJob # NoJob
  /\ TeardownJob.todo = T1 /\ TeardownJob.plan = NoMark
  /\ Nothing \notin Plans /\ NoMark \in Plans /\ Blocked \in Plans
  /\ NoMark # Blocked /\ Blocked # Nothing
<1>1. Nothing \notin Plans /\ NoMark \in Plans /\ Blocked \in Plans
  BY Names DEF Plans, Routes
<1>2. A1 \in ApplyTodos /\ T1 \in TearTodos /\ <<>> \in ApplyTodos
  BY DEF ApplyTodos, TearTodos
<1>3. A1 # <<>> /\ T1 # <<>>
  BY TodosDiffer
<1> QED
  BY <1>1, <1>2, <1>3, JobIs, Todos, NodeAssumption DEF NoJob, ApplyOf, TeardownJob

\* An apply that has begun has established nothing yet, and one that has no
\* stage left has established everything.
LEMMA ProgressEnds ==
  ASSUME NEW job, NEW h
  PROVE  /\ job.todo = A1 => Progress(job, h)
         /\ job.todo = <<>> /\ Progress(job, h) => Steers(h, job.plan)
BY TodosDiffer DEF Progress, Steers

\* The kernel once an apply is complete has all that its stages establish.
LEMMA HostOfSteers ==
  ASSUME NEW m \in Plans
  PROVE  HostOf(m) \in Host /\ Kernel(HostOf(m)) /\ Steers(HostOf(m), m)
<1> DEFINE h == HostOf(m)
           mine(s) == {l \in Links : l = m /\ SlotOf[l] = s}
<1>1. /\ h.dev = [s \in Slots |-> IF mine(s) = {} THEN "absent" ELSE m]
      /\ h.ends = [s \in Slots |-> mine(s)]
      /\ h.mark = MarkOf(m) /\ h.rules = {MarkOf(m)} \cap Tables /\ h.routes = {m} \cap Routes
      /\ h = [dev |-> h.dev, ends |-> h.ends, mark |-> h.mark, rules |-> h.rules, routes |-> h.routes]
  BY DEF HostOf
<1> HIDE DEF h
<1>2. h \in Host
  <2>1. \A s \in Slots : mine(s) \subseteq Links /\ (mine(s) # {} => m \in Links)
    OBVIOUS
  <2>2. h.dev \in [Slots -> Devices] /\ h.ends \in [Slots -> SUBSET Links]
    BY <1>1, <2>1 DEF Devices
  <2>3. h.mark \in Tables \cup {NoMark} /\ h.rules \in SUBSET Tables /\ h.routes \in SUBSET Routes
    BY <1>1, Names
  <2> QED
    BY <1>1, <2>2, <2>3 DEF Host
<1>3. \A s \in Slots : /\ h.ends[s] = mine(s) /\ (m \in Links /\ s = SlotOf[m] => h.dev[s] = m)
                       /\ (m \notin Links \/ s # SlotOf[m] => h.dev[s] = "absent")
  BY <1>1
<1>4. \A l \in Links : l \in h.routes => l = m
  BY <1>1
<1>5. Kernel(h)
  BY <1>3, <1>4, Names DEF Kernel
<1>6. LinkThere(h, m) /\ OthersGone(h, m)
  BY <1>3, Names DEF LinkThere, OthersGone
<1> QED
  BY <1>1, <1>2, <1>5, <1>6 DEF Steers, Marked, Ruled, Routed, h

LEMMA InvInit == Init => Inv
<1> SUFFICES ASSUME Init PROVE Inv
  OBVIOUS
<1>1. path \in Plans /\ path \in Paths /\ path # Nothing
  BY Names DEF Init
<1>2. host \in Host /\ Kernel(host) /\ Steers(host, path)
  BY <1>1, HostOfSteers DEF Init
<1>3. TypeOK
  <2>1. /\ 0 \in 0 .. Repair /\ 0 \in 0 .. MaxChanges
        /\ 0 \in 0 .. MaxFaults /\ 0 \in 0 .. MaxStops
    BY NodeAssumption
  <2>2. keep \in {NoMark, Blocked}
    BY DEF Init, KeepOf
  <2> QED
    BY <1>1, <1>2, <2>1, <2>2, JobValues, Zenon DEF Init, TypeOK
<1>4. Process
  BY DEF Init, Process
<1>5. Written
  BY <1>2, JobValues DEF Init, Written
<1> QED
  BY <1>2, <1>3, <1>4, <1>5 DEF Inv

\* The environment's steps, and those that end or start a process.
LEMMA EnvironmentKeeps ==
  ASSUME Inv,
         (\E p \in Paths : PathChanges(p)) \/ Drift \/ Tick \/ Sigterm \/ Crash \/ StartAgent \/ Exit
  PROVE  Inv'
<1> USE DEF Inv
<1>1. ASSUME NEW p \in Paths, PathChanges(p)
      PROVE  Inv'
  <2> USE <1>1 DEF PathChanges, process, memory, jobs
  <2>1. changes' \in 0 .. MaxChanges
    BY NodeAssumption DEF TypeOK
  <2>2. TypeOK'
    BY <2>1, Zenon DEF TypeOK
  <2>3. Process'
    BY Zenon DEF Process
  <2>4. Written'
    BY Zenon DEF Written
  <2> QED
    BY <2>2, <2>3, <2>4
<1>2. CASE Drift
  <2> USE <1>2 DEF Drift, Fault, process, memory, jobs
  <2>1. host' \in Host /\ Kernel(host)'
    <3>1. CASE \E s \in Present(host) : host' = DelDev(host, s)
      BY <3>1, DelDevIs, DelDevKernel DEF Present, TypeOK
    <3>2. ASSUME NEW s \in Present(host), NEW d \in Drifts, host' = SetDev(host, s, d)
          PROVE  host' \in Host /\ Kernel(host)'
      <4>1. s \in Slots /\ host \in Host /\ d \in Devices /\ d # "absent" /\ host.dev[s] # "absent"
        BY NodeAssumption DEF Present, TypeOK, Devices
      <4>2. /\ host' \in Host /\ host'.ends = host.ends /\ host'.routes = host.routes
            /\ \A t \in Slots : host'.dev[t] = IF t = s THEN d ELSE host.dev[t]
        BY <3>2, <4>1, SetDevIs
      <4> QED
        BY <4>1, <4>2 DEF Kernel
    <3>3. CASE host' = [host EXCEPT !.mark = NoMark]
      <4>1. host' \in Host /\ host'.dev = host.dev /\ host'.ends = host.ends /\ host'.routes = host.routes
        BY <3>3 DEF TypeOK, Host
      <4> QED
        BY <4>1 DEF Kernel
    <3> QED
      BY <3>1, <3>2, <3>3
  <2>2. faults' \in 0 .. MaxFaults
    BY NodeAssumption DEF TypeOK
  <2>3. TypeOK'
    BY <2>1, <2>2, Zenon DEF TypeOK
  <2>4. Process'
    BY Zenon DEF Process
  <2>5. Written'
    BY Zenon DEF Written
  <2> QED
    BY <2>1, <2>3, <2>4, <2>5
<1>3. CASE Tick
  <2> USE <1>3 DEF Tick, jobs, bounds
  <2>1. age' \in 0 .. Repair
    BY NodeAssumption DEF TypeOK
  <2>2. TypeOK'
    BY <2>1, Zenon DEF TypeOK
  <2>3. Process'
    BY Zenon DEF Process
  <2>4. Written'
    BY Zenon DEF Written
  <2> QED
    BY <2>2, <2>3, <2>4
<1>4. CASE Sigterm
  <2> USE <1>4 DEF Sigterm, memory, jobs
  <2>1. stops' \in 0 .. MaxStops
    BY NodeAssumption DEF TypeOK
  <2>2. TypeOK'
    BY <2>1, Zenon DEF TypeOK
  <2>3. Process'
    BY Zenon DEF Process
  <2>4. Written'
    BY Zenon DEF Written
  <2> QED
    BY <2>2, <2>3, <2>4
<1>5. CASE StartAgent
  <2> USE <1>5 DEF StartAgent, memory, jobs, bounds
  <2>1. TypeOK'
    BY Zenon DEF TypeOK
  <2>2. Process'
    BY Zenon DEF Process
  <2>3. Written'
    BY Zenon DEF Written
  <2> QED
    BY <2>1, <2>2, <2>3
<1>6. ASSUME NEW how \in {"kept", "torn", "failed", "crashed"}, ProcessEnds(how),
             faults' \in 0 .. MaxFaults, UNCHANGED <<changes, stops>>,
             how = "kept" => stopped = "kept"
      PROVE  Inv'
  <2> USE <1>6 DEF ProcessEnds
  <2>1. 0 \in 0 .. Repair
    BY NodeAssumption
  <2>2. TypeOK'
    BY <2>1, JobValues, Zenon DEF TypeOK
  <2>3. Process'
    BY Zenon DEF Process
  <2>4. Written'
    BY JobValues, Zenon DEF Written
  <2> QED
    BY <2>2, <2>3, <2>4
<1>7. CASE Crash
  <2>1. faults' \in 0 .. MaxFaults
    BY <1>7, NodeAssumption DEF Crash, Fault, TypeOK
  <2> QED
    BY <1>6, <1>7, <2>1 DEF Crash, Fault
<1>8. CASE Exit
  <2>1. stopped \in {"kept", "torn", "failed"}
    BY <1>8, Zenon DEF Exit, TypeOK
  <2> QED
    BY <1>6, <1>8, <2>1 DEF Exit, bounds, TypeOK
<1> QED
  BY <1>1, <1>2, <1>3, <1>4, <1>5, <1>7, <1>8

\* The steps of the reconcile goroutine.  While it holds the mutex nothing is
\* recorded as applied and no shutdown has finished or writes under the mutex,
\* so what the kernel becomes concerns its own progress only.
LEMMA WorkKeeps ==
  ASSUME Inv, BeginPass \/ BeginApply \/ ApplyStep \/ EndApply \/ ApplyNoRoute \/ ApplyFails
  PROVE  Inv'
<1> USE DEF Inv
<1>1. CASE BeginPass
  <2> USE <1>1 DEF BeginPass, bounds
  <2>1. 0 \in 0 .. Repair
    BY NodeAssumption
  <2>2. path \in Plans /\ path \in Paths
    BY Names DEF TypeOK
  <2>3. keep' \in {NoMark, Blocked}
    BY DEF KeepOf
  <2>4. \/ UNCHANGED <<applied, age, work>>
        \/ applied' = Nothing /\ age' = 0 /\ work' = ApplyOf(path)
    BY DEF ForgetApplied
  <2>5. TypeOK'
    BY <2>1, <2>2, <2>3, <2>4, JobValues, Zenon DEF TypeOK
  <2>6. A1 \in ApplyTodos
    BY DEF ApplyTodos
  <2>7. Process'
    BY <2>2, <2>4, <2>6, JobValues, Zenon DEF Process
  <2>8. "work" \notin lock
    BY DEF Process
  <2>9. Written'
    BY <2>4, <2>8, Zenon DEF Written
  <2> QED
    BY <2>5, <2>7, <2>9
<1>2. CASE BeginApply
  <2> USE <1>2 DEF BeginApply, process, memory, bounds
  <2>1. CASE stopping
    <3>1. TypeOK'
      BY <2>1, JobValues, Zenon DEF TypeOK
    <3>2. Process'
      BY <2>1, Zenon DEF Process
    <3>3. Written'
      BY <2>1, Zenon DEF Written
    <3> QED
      BY <2>1, <3>1, <3>2, <3>3
  <2>2. CASE ~stopping
    <3>1. TypeOK'
      BY <2>2, Zenon DEF TypeOK
    <3>2. work.todo = A1 /\ applied = Nothing /\ stopped # "kept" /\ stop = NoJob
      BY <2>2, Zenon DEF Process
    <3>3. Process'
      <4>1. "work" \in lock' /\ "stop" \notin lock' /\ exit' = "none"
        BY <2>2
      <4> QED
        BY <2>2, <3>2, <4>1, Zenon DEF Process
    <3>4. Written'
      BY <2>2, <3>2, ProgressEnds, JobValues, Zenon DEF Written
    <3> QED
      BY <2>2, <3>1, <3>3, <3>4
  <2> QED
    BY <2>1, <2>2
<1>3. CASE ApplyStep
  <2> USE <1>3 DEF ApplyStep, process, memory, bounds
  <2>1. /\ work # NoJob /\ applied = Nothing /\ stopped # "kept" /\ exit = "none"
        /\ work.plan \in Paths /\ work.todo \in ApplyTodos /\ work \in Job /\ stop.plan # Blocked
    <3>1. lock # {"stop"}
      OBVIOUS
    <3> QED
      BY <3>1, JobValues, Zenon DEF Process, TypeOK
  <2>2. work.plan \in Plans
    BY <2>1, Names
  <2>3. PICK c \in CallsOf(work, host) : host' = c[1] /\ work' = c[2]
    OBVIOUS
  <2>4. /\ c[1] \in Host /\ Kernel(c[1])
        /\ c[2] \in Job /\ c[2].plan = work.plan /\ c[2].todo \in ApplyTodos
        /\ Progress(work, host) => Progress(c[2], c[1])
    BY <2>1, <2>2, ApplyCall, Zenon DEF TypeOK
  <2>5. work' # NoJob
    BY <2>2, <2>3, <2>4, JobValues
  <2>6. TypeOK'
    BY <2>3, <2>4, Zenon DEF TypeOK
  <2>7. Kernel(host)'
    BY <2>3, <2>4 DEF Kernel
  <2>8. Process'
    BY <2>1, <2>3, <2>4, <2>5, Zenon DEF Process
  <2>9. Progress(work, host) => Progress(work, host)'
    BY <2>3, <2>4 DEF Progress, LinkThere, OthersGone, Marked, Ruled, Routed
  <2>10. Written'
    BY <2>1, <2>9, Zenon DEF Written
  <2> QED
    BY <2>6, <2>7, <2>8, <2>10
<1>4. CASE EndApply
  <2> USE <1>4 DEF EndApply, bounds
  <2>1. /\ work # NoJob /\ work.plan \in Paths /\ stopped # "kept" /\ exit = "none"
        /\ work.plan # Nothing /\ up
    BY Names, Zenon DEF Process
  <2>2. lock' \subseteq {"work", "stop"} /\ "work" \notin lock' /\ ("stop" \in lock' <=> "stop" \in lock)
    BY DEF TypeOK
  <2>3. TypeOK'
    BY <2>1, <2>2, JobValues, Zenon DEF TypeOK
  <2>4. stop # NoJob => lock # {"stop"}
    OBVIOUS
  <2>5. Process'
    BY <2>1, <2>2, <2>4, Zenon DEF Process
  <2>6. ~drifted /\ ~stopping => Steers(host, work.plan)
    BY ProgressEnds, Zenon DEF Written
  <2>7. Steers(host, work.plan) => Steers(host, applied)'
    BY DEF Steers, LinkThere, OthersGone, Marked, Ruled, Routed
  <2>8. Written'
    BY <2>1, <2>2, <2>6, <2>7, Zenon DEF Written
  <2> QED
    BY <2>3, <2>5, <2>8
<1>5. ASSUME ApplyReturns, faults' \in 0 .. MaxFaults, UNCHANGED <<changes, stops>>
      PROVE  Inv'
  <2> USE <1>5 DEF ApplyReturns, process, memory
  <2>1. lock' \subseteq {"work", "stop"} /\ "work" \notin lock' /\ ("stop" \in lock' <=> "stop" \in lock)
    BY DEF TypeOK
  <2>2. TypeOK'
    BY <2>1, JobValues, Zenon DEF TypeOK
  <2>3. lock # {"stop"}
    OBVIOUS
  <2>4. Process'
    BY <2>1, <2>3, Zenon DEF Process
  <2>5. Written'
    BY <2>1, Zenon DEF Written
  <2> QED
    BY <2>2, <2>4, <2>5
<1>6. CASE ApplyNoRoute
  BY <1>5, <1>6 DEF ApplyNoRoute, bounds, TypeOK
<1>7. CASE ApplyFails
  <2>1. faults' \in 0 .. MaxFaults
    BY <1>7, NodeAssumption DEF ApplyFails, Fault, TypeOK
  <2> QED
    BY <1>5, <1>7, <2>1 DEF ApplyFails, Fault
<1> QED
  BY <1>1, <1>2, <1>3, <1>4, <1>6, <1>7

\* The steps of the shutdown goroutine.  It applies the keep state under the
\* mutex; a teardown writes without it, and then nothing is recorded.
LEMMA StopKeeps ==
  ASSUME Inv, BeginStop \/ StopStep \/ EndStop \/ StopFails
  PROVE  Inv'
<1> USE DEF Inv
<1>1. CASE BeginStop
  <2> USE <1>1 DEF BeginStop, process, memory, bounds
  <2>1. A1 \in ApplyTodos /\ T1 \in TearTodos
    BY DEF ApplyTodos, TearTodos
  <2>2. "stop" \notin lock
    BY DEF Process
  <2>3. CASE keep = Blocked
    <3>1. lock = {} /\ lock' = {"stop"} /\ stop' = ApplyOf(Blocked) /\ drifted' = FALSE
      BY <2>3 DEF StopMayApply
    <3>2. TypeOK'
      BY <3>1, JobValues, Zenon DEF TypeOK
    <3>3. "work" \notin lock' /\ "work" \notin lock
      BY <3>1
    <3>4. stop'.plan = Blocked /\ stop'.todo = A1 /\ stop' # NoJob
      BY <3>1, JobValues
    <3>5. Process'
      BY <2>1, <3>1, <3>3, <3>4, Zenon DEF Process
    <3>6. Progress(stop, host)'
      BY <3>4, TodosDiffer DEF Progress
    <3>7. Written'
      BY <3>1, <3>3, <3>6, Zenon DEF Written
    <3> QED
      BY <3>2, <3>5, <3>7
  <2>4. CASE keep # Blocked
    <3>1. stop' = TeardownJob /\ UNCHANGED <<lock, drifted>>
      BY <2>4
    <3>2. TypeOK'
      BY <3>1, JobValues, Zenon DEF TypeOK
    <3>3. stop'.plan = NoMark /\ stop'.todo = T1 /\ stop' # NoJob /\ stop'.plan # Blocked
      BY <3>1, JobValues
    <3>4. Process'
      BY <2>1, <2>2, <3>1, <3>3, Zenon DEF Process
    <3>5. Written'
      BY <3>1, <3>3, Zenon DEF Written
    <3> QED
      BY <3>2, <3>4, <3>5
  <2> QED
    BY <2>3, <2>4
<1>2. CASE StopStep
  <2> USE <1>2 DEF StopStep, process, memory, bounds
  <2>1. PICK c \in CallsOf(stop, host) : host' = c[1] /\ stop' = c[2]
    OBVIOUS
  <2>2. stop.todo # <<>> /\ stop \in Job /\ host \in Host
    BY CallIs, Zenon DEF TypeOK
  <2>3. stop # NoJob
    BY <2>2, JobValues
  <2>4. up /\ stopping /\ stopped = "no" /\ exit = "none"
    BY <2>3, Zenon DEF Process
  <2>5. CASE stop.plan = Blocked /\ stop.todo \in ApplyTodos /\ lock = {"stop"}
    <3>1. Blocked \in Plans
      BY JobValues
    <3>2. /\ c[1] \in Host /\ Kernel(c[1])
          /\ c[2] \in Job /\ c[2].plan = Blocked /\ c[2].todo \in ApplyTodos
          /\ Progress(stop, host) => Progress(c[2], c[1])
      BY <2>2, <2>5, <3>1, ApplyCall, Zenon
    <3>3. stop' # NoJob /\ "work" \notin lock
      BY <2>1, <2>5, <3>2, JobValues
    <3>4. TypeOK'
      BY <2>1, <3>2, Zenon DEF TypeOK
    <3>5. Kernel(host)'
      BY <2>1, <3>2 DEF Kernel
    <3>6. Process'
      BY <2>1, <2>3, <2>4, <2>5, <3>2, <3>3, Zenon DEF Process
    <3>7. Progress(stop, host) => Progress(stop, host)'
      BY <2>1, <3>2 DEF Progress, LinkThere, OthersGone, Marked, Ruled, Routed
    <3>8. Written'
      BY <2>4, <2>5, <3>7, Zenon DEF Written
    <3> QED
      BY <3>4, <3>5, <3>6, <3>8
  <2>6. CASE stop.plan = NoMark /\ stop.todo \in TearTodos /\ "stop" \notin lock
    <3>1. /\ c[1] \in Host /\ Kernel(c[1])
          /\ c[2] \in Job /\ c[2].plan = NoMark /\ c[2].todo \in TearTodos
      BY <2>2, <2>6, TearCall, Zenon
    <3>2. stop' # NoJob /\ stop'.plan # Blocked
      BY <2>1, <3>1, JobValues
    <3>3. TypeOK'
      BY <2>1, <3>1, Zenon DEF TypeOK
    <3>4. Kernel(host)'
      BY <2>1, <3>1 DEF Kernel
    <3>5. Process'
      BY <2>1, <2>3, <2>4, <2>6, <3>1, <3>2, Zenon DEF Process
    <3>6. Written'
      BY <2>4, <3>2, Zenon DEF Written
    <3> QED
      BY <3>3, <3>4, <3>5, <3>6
  <2> QED
    BY <2>3, <2>5, <2>6, Zenon DEF Process
<1>3. ASSUME NEW how \in {"kept", "torn", "failed"}, StopReturns(how),
             faults' \in 0 .. MaxFaults, UNCHANGED <<changes, stops>>,
             how = "kept" => stop.plan = Blocked /\ stop.todo = <<>>
      PROVE  Inv'
  <2> USE <1>3 DEF StopReturns, process, memory
  <2>1. /\ lock' \subseteq {"work", "stop"} /\ "stop" \notin lock'
        /\ ("work" \in lock' <=> "work" \in lock)
    BY DEF TypeOK
  <2>2. TypeOK'
    BY <2>1, JobValues, Zenon DEF TypeOK
  <2>3. up /\ stopping /\ exit = "none"
    BY Zenon DEF Process
  <2>4. stop.plan = Blocked => "work" \notin lock
    BY JobValues DEF Process
  <2>5. Process'
    BY <2>1, <2>3, <2>4, Zenon DEF Process
  <2>6. ~drifted /\ how = "kept" => Steers(host, Blocked)
    BY ProgressEnds, Zenon DEF Written
  <2>7. Written'
    BY <2>1, <2>3, <2>6, JobValues, Zenon DEF Written
  <2> QED
    BY <2>2, <2>5, <2>7
<1>4. CASE EndStop
  BY <1>3, <1>4 DEF EndStop, bounds, TypeOK
<1>5. CASE StopFails
  <2>1. faults' \in 0 .. MaxFaults
    BY <1>5, NodeAssumption DEF StopFails, Fault, TypeOK
  <2> QED
    BY <1>3, <1>5, <2>1 DEF StopFails, Fault
<1> QED
  BY <1>1, <1>2, <1>4, <1>5

LEMMA InvStep == Inv /\ [Next]_vars => Inv'
<1>1. ASSUME Inv, Next
      PROVE  Inv'
  BY <1>1, EnvironmentKeeps, WorkKeeps, StopKeeps, Zenon DEF Next, Work, Stop, Environment
<1>2. ASSUME Inv, UNCHANGED vars
      PROVE  Inv'
  <2> USE <1>2 DEF Inv, vars, process, memory, jobs, bounds
  <2>1. TypeOK'
    BY Zenon DEF TypeOK
  <2>2. Kernel(host)'
    BY Zenon DEF Kernel
  <2>3. Process'
    BY Zenon DEF Process
  <2>4. Written'
    BY Zenon DEF Written
  <2> QED
    BY <2>1, <2>2, <2>3, <2>4
<1> QED
  BY <1>1, <1>2

LEMMA InvAlways == Spec => []Inv
BY InvInit, InvStep, PTL DEF Spec

-----------------------------------------------------------------------------
(* The theorems.                                                           *)

\* Every state of the node has its type: every job is a suffix of Apply's or
\* of Teardown's stages, and every device, rule and route one of the links'.
THEOREM NodeTypeCorrect == Spec => []TypeOK
BY InvAlways, PTL DEF Inv

\* A kernel that steers to the blackhole has nothing else of kuport's.
LEMMA BlockedHost ==
  ASSUME NEW h \in Host, Kernel(h), Steers(h, Blocked)
  PROVE  h = HostOf(Blocked)
<1>1. Blocked \notin Links /\ Blocked \notin Slots /\ MarkOf(Blocked) = Blocked
  BY Names
<1>2. \A s \in Slots : h.dev[s] = "absent"
  BY <1>1 DEF Steers, OthersGone
<1>3. \A s \in Slots : h.ends[s] = {}
  BY <1>2 DEF Kernel
<1>4. h.dev = [s \in Slots |-> "absent"] /\ h.ends = [s \in Slots |-> {}]
  BY <1>2, <1>3 DEF Host
<1>5. h = [dev |-> h.dev, ends |-> h.ends, mark |-> h.mark, rules |-> h.rules, routes |-> h.routes]
  BY DEF Host
<1>6. \A s \in Slots : {l \in Links : l = Blocked /\ SlotOf[l] = s} = {}
  BY <1>1
<1>7. HostOf(Blocked) = [dev |-> [s \in Slots |-> "absent"], ends |-> [s \in Slots |-> {}],
                         mark |-> Blocked, rules |-> {Blocked} \cap Tables,
                         routes |-> {Blocked} \cap Routes]
  BY <1>1, <1>6 DEF HostOf
<1> QED
  BY <1>1, <1>4, <1>5, <1>7 DEF Steers, Marked, Ruled, Routed

\* After a shutdown that reports the keep state applied, the kernel holds the
\* blackhole and nothing else, for any links and any sharing of slots: the
\* mutex keeps the apply in flight from writing after the shutdown's own.
THEOREM NodeKeptBlocked == Spec => []KeptBlocked
<1>1. Inv => KeptBlocked
  <2> SUFFICES ASSUME Inv, exit = "kept", ~drifted PROVE host = HostOf(Blocked)
    BY DEF KeptBlocked
  <2>1. Steers(host, Blocked)
    BY Zenon DEF Inv, Written
  <2> QED
    BY <2>1, BlockedHost DEF Inv, TypeOK
<1> QED
  BY <1>1, InvAlways, PTL

\* What the record of applyState stands for whatever the links, their slots
\* and the drift: the pod's mark, rule and route are those of the recorded
\* State, its link has a device with its address, and no other device is left.
AppliedSteers ==
  up /\ ~stopping /\ ~drifted /\ applied # Nothing => Steers(host, applied)

THEOREM NodeAppliedSteers == Spec => []AppliedSteers
<1>1. Inv => AppliedSteers
  BY Zenon DEF Inv, Written, AppliedSteers
<1> QED
  BY <1>1, InvAlways, PTL

\* No device is altered in endpoints and in identity at once (linkActionFor
\* repairs one of them in a pass), and no slot goes from one link to another.
OneDrift == "both" \notin Drifts
OwnSlot == \A l, m \in Links : SlotOf[l] = SlotOf[m] => l = m

\* Where every link has its own slot, a device has its link's address alone.
LEMMA LinkHost ==
  ASSUME NEW h \in Host, NEW m \in Plans, Kernel(h), Steers(h, m), OneDrift, OwnSlot
  PROVE  h = HostOf(m)
<1> DEFINE mine(s) == {l \in Links : l = m /\ SlotOf[l] = s}
<1>1. \A s \in Slots : h.dev[s] = IF mine(s) = {} THEN "absent" ELSE m
  <2> SUFFICES ASSUME NEW s \in Slots PROVE h.dev[s] = IF mine(s) = {} THEN "absent" ELSE m
    OBVIOUS
  <2>1. CASE m \in Links /\ SlotOf[m] = s
    BY <2>1 DEF Steers, LinkThere, OneDrift
  <2>2. CASE ~(m \in Links /\ SlotOf[m] = s)
    <3>1. s # MarkOf(m)
      BY <2>2, Names DEF Plans, Routes
    <3> QED
      BY <2>2, <3>1 DEF Steers, OthersGone
  <2> QED
    BY <2>1, <2>2
<1>2. \A s \in Slots : h.ends[s] = mine(s)
  <2> SUFFICES ASSUME NEW s \in Slots PROVE h.ends[s] = mine(s)
    OBVIOUS
  <2>1. h.ends[s] \subseteq Links /\ \A l \in h.ends[s] : SlotOf[l] = s
    BY DEF Host, Kernel
  <2>2. CASE m \in Links /\ SlotOf[m] = s
    <3>1. m \in h.ends[s]
      BY <2>2 DEF Steers, LinkThere
    <3>2. \A l \in h.ends[s] : l = m
      BY <2>1, <2>2 DEF OwnSlot
    <3> QED
      BY <2>2, <3>1, <3>2
  <2>3. CASE ~(m \in Links /\ SlotOf[m] = s)
    <3>1. mine(s) = {}
      BY <2>3
    <3> QED
      BY <1>1, <3>1 DEF Kernel
  <2> QED
    BY <2>2, <2>3
<1>3. /\ h.dev = [s \in Slots |-> IF mine(s) = {} THEN "absent" ELSE m]
      /\ h.ends = [s \in Slots |-> mine(s)]
  BY <1>1, <1>2 DEF Host
<1>4. h = [dev |-> h.dev, ends |-> h.ends, mark |-> h.mark, rules |-> h.rules, routes |-> h.routes]
  BY DEF Host
<1> HIDE DEF mine
<1>5. HostOf(m) = [dev |-> [s \in Slots |-> IF mine(s) = {} THEN "absent" ELSE m],
                   ends |-> [s \in Slots |-> mine(s)], mark |-> MarkOf(m),
                   rules |-> {MarkOf(m)} \cap Tables, routes |-> {m} \cap Routes]
  BY DEF HostOf, mine
<1> QED
  BY <1>3, <1>4, <1>5 DEF Steers, Marked, Ruled, Routed

\* A recorded State is the one the kernel holds, completely, whatever applies
\* failed, crashed or raced a shutdown before.
THEOREM NodeAppliedMatches ==
  ASSUME OneDrift, OwnSlot
  PROVE  Spec => []AppliedMatches
<1>1. Inv => AppliedMatches
  <2> SUFFICES ASSUME Inv, up, ~stopping, ~drifted, applied # Nothing
               PROVE  host = HostOf(applied)
    BY DEF AppliedMatches
  <2>1. Steers(host, applied)
    BY Zenon DEF Inv, Written
  <2>2. applied \in Plans
    BY Names DEF Inv, TypeOK
  <2> QED
    BY <2>1, <2>2, LinkHost DEF Inv, TypeOK
<1> QED
  BY <1>1, InvAlways, PTL

\* The ruleset starts to steer into a link only over the link's own, current
\* device: the links stage is over when the nftables commit runs.
THEOREM NodeCommitOverLiveLink ==
  ASSUME OneDrift
  PROVE  Spec => CommitOverLiveLink
<1> DEFINE Live == /\ host'.mark # host.mark /\ host'.mark \in Slots
                   /\ ~stopping /\ ~drifted
                   => host.dev[host'.mark] = work.plan
<1>1. Inv /\ [Next]_vars => [Live]_vars
  <2> SUFFICES ASSUME Inv, Next, host'.mark # host.mark, host'.mark \in Slots,
                      ~stopping, ~drifted
               PROVE  host.dev[host'.mark] = work.plan
    OBVIOUS
  <2> USE DEF Inv
  <2>1. host' # host
    OBVIOUS
  <2>2. CASE Drift
    <3>1. CASE \E s \in Present(host) : host' = DelDev(host, s)
      BY <3>1, DelDevIs DEF Present, TypeOK
    <3>2. CASE \E s \in Present(host) : \E d \in Drifts : host' = SetDev(host, s, d)
      <4>1. Drifts \subseteq Devices
        BY NodeAssumption DEF Devices
      <4> QED
        BY <3>2, <4>1, SetDevIs DEF Present, TypeOK
    <3>3. CASE host' = [host EXCEPT !.mark = NoMark]
      <4>1. host'.mark = NoMark
        BY <3>3 DEF TypeOK, Host
      <4> QED
        BY <4>1, Names
    <3> QED
      BY <2>2, <3>1, <3>2, <3>3 DEF Drift
  <2>3. CASE ApplyStep
    <3>1. PICK c \in CallsOf(work, host) : host' = c[1] /\ work' = c[2]
      BY <2>3 DEF ApplyStep
    <3>2. /\ work # NoJob /\ work.plan \in Paths /\ work.todo \in ApplyTodos
          /\ work \in Job /\ host \in Host /\ Kernel(host) /\ Progress(work, host)
      BY <2>3, Zenon DEF ApplyStep, Process, TypeOK, Written
    <3>3. work.plan \in Plans
      BY <3>2, Names
    <3>4. c[1].mark # host.mark => LinkThere(host, work.plan) /\ Marked(c[1], work.plan)
      BY <3>2, <3>3, ApplyCall, Zenon
    <3>5. LinkThere(host, work.plan) /\ host'.mark = MarkOf(work.plan)
      BY <3>1, <3>4 DEF Marked
    <3>6. work.plan \in Links
      BY <3>3, <3>5, Names DEF Plans, Routes
    <3> QED
      BY <3>5, <3>6, Names DEF LinkThere, OneDrift
  <2>4. CASE StopStep
    <3>1. PICK c \in CallsOf(stop, host) : TRUE
      BY <2>4 DEF StopStep
    <3>2. stop # NoJob
      <4>1. stop.todo # <<>>
        BY <3>1, CallIs, Zenon DEF TypeOK
      <4> QED
        BY <4>1, JobValues
    <3> QED
      BY <3>2, Zenon DEF Process
  <2> QED
    BY <2>1, <2>2, <2>3, <2>4
       DEF Next, Work, Stop, Environment, PathChanges, Sigterm, Crash, ProcessEnds, ApplyFails,
           ApplyReturns, StopFails, StopReturns, BeginPass, BeginApply, EndApply, ApplyNoRoute,
           BeginStop, EndStop, Exit, Tick, StartAgent
<1> QED
  BY <1>1, InvAlways, PTL DEF Spec, CommitOverLiveLink

=============================================================================
