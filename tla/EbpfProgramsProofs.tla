------------------------- MODULE EbpfProgramsProofs -------------------------
(***************************************************************************)
(* Proofs about EbpfPrograms, for any attach points, any optional kprobes  *)
(* and any choice of subsystems.                                           *)
(***************************************************************************)
EXTENDS EbpfPrograms, TLAPS

\* The subsystems LoadAndAttach is done with when it is at c.
Before(c) == IF c = "block" THEN {}
             ELSE IF c = "nfs" THEN {"block"}
             ELSE IF c = "kprobe" THEN {"block", "nfs"}
             ELSE Subsystems

\* Where the goroutines can be: LoadAndAttach goes through the subsystems in order and
\* before Close and Collect start; a round of retries leaves out block; Collect and a
\* round exclude each other.
StageInv ==
    /\ load.sub = "none" => load = NoLoad
    /\ stage \notin {"main", "round"} => load = NoLoad
    /\ stage = "main" => closer = "wait" /\ active \cup retry \subseteq Before(cursor)
    /\ stage = "round" => cursor # "block"
    /\ reading => stage \in {"idle", "off"} /\ gauge = active

\* The fields of a subsystem that is retried are set all together.
FieldInv ==
    /\ active \subseteq known
    /\ known \cap Retried \subseteq active
    /\ late \subseteq active
    /\ closer = "wait" => late = {}

\* The load under way has attached got and nothing else; a link that is needed is
\* attached or yet to come; a kretprobe is, exactly if its kprobe is attached.
LoadInv ==
    LET s == load.sub
        todo == Range(load.todo)
    IN s # "none" =>
        /\ cursor = s
        /\ s \notin active
        /\ todo \cup load.got \subseteq Links(s)
        /\ Needed(s) \subseteq todo \cup load.got
        /\ s = "kprobe" => \A p \in Range(Points[s]) :
               Entry(p) \in load.got <=> Ret(p) \in todo \cup load.got
        /\ closer # "panic" => open \cap Links(s) = load.got
        /\ closer = "wait" => s \in objs

\* The field links holds what is attached, except for what a load of a retried
\* subsystem attaches.
LinksInv ==
    /\ closer # "panic" => \A s \in active : open \cap Links(s) \subseteq links
    /\ \A s \in Retried \ active : links \cap Links(s) = {}

\* Nothing is in the kernel but for what is active or being loaded; once Close has
\* removed the links, for what is loaded late, and for objects it has not come to.
KernelInv ==
    /\ closer = "wait" =>
          \A s \in Subsystems \ (active \cup {load.sub}) :
              s \notin objs /\ open \cap Links(s) = {}
    /\ closer \in Subsystems \cup {"end"} =>
          \A s \in Subsystems \ (late \cup {load.sub}) :
              /\ open \cap Links(s) = {}
              /\ s \in objs => s \in known /\ s \notin Before(closer)

IInv == /\ TypeOK
        /\ StageInv
        /\ FieldInv
        /\ LoadInv
        /\ LinksInv
        /\ KernelInv
        /\ ActiveTraced
        /\ GaugeMatches
-----------------------------------------------------------------------------
(* Links and sequences of them.                                            *)

LEMMA LinkFacts ==
    /\ \A p, q : Entry(p) # Ret(q) /\ (Entry(p) = Entry(q) => p = q) /\ (Ret(p) = Ret(q) => p = q)
    /\ \A p : Entry(p)[1] = "entry" /\ Entry(p)[2] = p /\ Ret(p)[1] = "return"
    /\ \A s, t \in Subsystems : s # t => Links(s) \cap Links(t) = {}
    /\ \A s \in Subsystems : Needed(s) \subseteq Links(s) /\ Links(s) \subseteq AllLinks
  <1>1. \A p, q : Entry(p) # Ret(q) /\ (Entry(p) = Entry(q) => p = q) /\ (Ret(p) = Ret(q) => p = q)
    BY DEF Entry, Ret
  <1>2. \A p : Entry(p)[1] = "entry" /\ Entry(p)[2] = p /\ Ret(p)[1] = "return"
    BY DEF Entry, Ret
  <1>3. ASSUME NEW s \in Subsystems, NEW t \in Subsystems, s # t
        PROVE  Links(s) \cap Links(t) = {}
    <2>1. Range(Points[s]) \cap Range(Points[t]) = {}
      BY <1>3, ConfigAssumption
    <2> QED
      BY <1>1, <2>1 DEF Links, Entries, Returns
  <1>4. ASSUME NEW s \in Subsystems
        PROVE  Needed(s) \subseteq Links(s) /\ Links(s) \subseteq AllLinks
    BY DEF Needed, Links, Entries, AllLinks
  <1> QED
    BY <1>1, <1>2, <1>3, <1>4

LEMMA SeqFacts ==
    ASSUME NEW S, NEW s \in Seq(S), s # <<>>
    PROVE  /\ Head(s) \in S
           /\ Tail(s) \in Seq(S)
           /\ Range(s) = {Head(s)} \cup Range(Tail(s))
  <1>1. Head(s) \in S /\ Tail(s) \in Seq(S) /\ Len(s) \in Nat \ {0}
    OBVIOUS
  <1>2. \A i \in 1..Len(s) : i = 1 \/ (i - 1 \in 1..Len(Tail(s)) /\ s[i] = Tail(s)[i - 1])
    OBVIOUS
  <1>3. \A i \in 1..Len(Tail(s)) : i + 1 \in 1..Len(s) /\ Tail(s)[i] = s[i + 1]
    OBVIOUS
  <1>4. DOMAIN s = 1..Len(s) /\ DOMAIN Tail(s) = 1..Len(Tail(s)) /\ Head(s) = s[1]
    OBVIOUS
  <1>5. Range(s) \subseteq {Head(s)} \cup Range(Tail(s))
    <2> SUFFICES ASSUME NEW i \in 1..Len(s) PROVE s[i] \in {Head(s)} \cup Range(Tail(s))
      BY <1>4 DEF Range
    <2>1. CASE i = 1
      BY <2>1, <1>4
    <2>2. CASE i # 1
      BY <2>2, <1>2, <1>4, Zenon DEF Range
    <2> QED
      BY <2>1, <2>2
  <1>6. {Head(s)} \cup Range(Tail(s)) \subseteq Range(s)
    BY <1>1, <1>3, <1>4 DEF Range
  <1> QED
    BY <1>1, <1>5, <1>6

LEMMA SnocFacts ==
    ASSUME NEW S, NEW s \in Seq(S), NEW x \in S
    PROVE  /\ s \o <<x>> \in Seq(S)
           /\ Range(s \o <<x>>) = Range(s) \cup {x}
           /\ s \o <<>> = s
  <1> DEFINE t == s \o <<x>>
  <1>1. t \in Seq(S) /\ Len(t) = Len(s) + 1 /\ s \o <<>> = s
    OBVIOUS
  <1>2. /\ \A i \in 1..Len(s) : i \in 1..Len(t) /\ t[i] = s[i]
        /\ t[Len(s) + 1] = x
        /\ Len(s) + 1 \in 1..Len(t)
        /\ \A i \in 1..Len(t) : i \in 1..Len(s) \/ i = Len(s) + 1
    OBVIOUS
  <1>3. DOMAIN s = 1..Len(s) /\ DOMAIN t = 1..Len(t)
    BY <1>1
  <1> HIDE DEF t
  <1>4. Range(t) \subseteq Range(s) \cup {x}
    BY <1>2, <1>3 DEF Range
  <1>5. Range(s) \cup {x} \subseteq Range(t)
    BY <1>2, <1>3 DEF Range
  <1> QED
    BY <1>1, <1>4, <1>5 DEF t
-----------------------------------------------------------------------------
LEMMA InitIInv == Init => IInv
  <1> SUFFICES ASSUME Init PROVE IInv
    OBVIOUS
  <1> USE DEF Init
  <1>0. <<>> \in Seq(AllLinks)
    OBVIOUS
  <1>1. TypeOK
    BY <1>0, Zenon DEF TypeOK, NoLoad, Subsystems
  <1>2. StageInv /\ FieldInv /\ LoadInv
    BY DEF StageInv, FieldInv, LoadInv, NoLoad
  <1>3. LinksInv /\ KernelInv
    BY DEF LinksInv, KernelInv, NoLoad
  <1>4. ActiveTraced /\ GaugeMatches
    BY DEF ActiveTraced, GaugeMatches
  <1> QED
    BY <1>1, <1>2, <1>3, <1>4 DEF IInv
-----------------------------------------------------------------------------
(* The steps of a load.                                                    *)

LEMMA SkipPreserves == IInv /\ closer # "panic" /\ Skip => IInv'
  <1> SUFFICES ASSUME IInv, closer # "panic", Skip PROVE IInv'
    OBVIOUS
  <1> USE DEF IInv, Skip, fields, collect, Subsystems, Following
  <1>1. TypeOK'
    BY DEF TypeOK
  <1>2. StageInv' /\ FieldInv' /\ LoadInv'
    BY DEF TypeOK, StageInv, FieldInv, LoadInv, NoLoad, Before
  <1>3. LinksInv' /\ KernelInv'
    BY DEF LinksInv, KernelInv
  <1>4. ActiveTraced' /\ GaugeMatches'
    BY DEF ActiveTraced, GaugeMatches
  <1> QED
    BY <1>1, <1>2, <1>3, <1>4

\* What a failure does to the loader.
LEMMA FailedFacts ==
    ASSUME TypeOK, StageInv, stage \in {"main", "round"}, cursor \in Subsystems \ active,
           Failed, UNCHANGED <<stage, active>>
    PROVE  /\ load' = NoLoad
           /\ cursor' \in Subsystems \cup {"end"} /\ cursor' # "block"
           /\ retry' \subseteq Retried \ active'
           /\ stage = "main" => active' \cup retry' \subseteq Before(cursor')
  BY DEF TypeOK, StageInv, Failed, Following, Subsystems, Retried, Before

LEMMA CreatePreserves == IInv /\ closer # "panic" /\ Create => IInv'
  <1> SUFFICES ASSUME IInv, closer # "panic", Create PROVE IInv'
    OBVIOUS
  <1>0. /\ cursor \in Subsystems \ active
        /\ load = NoLoad /\ load.sub = "none"
        /\ stage = "round" => cursor \in Retried
        /\ stage \in {"main", "round"}
    BY ConfigAssumption DEF IInv, TypeOK, StageInv, Create, Wanted, NoLoad, Before, Subsystems,
                            Retried
  <1>1. CASE Program(cursor) \notin kernel
    <2> USE DEF IInv, Create, collect
    <2>1. UNCHANGED <<live, stage, kernel, open, objs, known, links, active, closer, late,
                      reading, gauge, read>> /\ Failed
      BY <1>1
    <2>2. TypeOK'
      BY <1>0, <2>1, FailedFacts, Zenon DEF TypeOK, NoLoad
    <2>3. StageInv' /\ FieldInv' /\ LoadInv'
      BY <1>0, <2>1, FailedFacts DEF StageInv, FieldInv, LoadInv, NoLoad
    <2>4. LinksInv' /\ KernelInv'
      BY <1>0, <2>1, FailedFacts DEF LinksInv, KernelInv
    <2>5. ActiveTraced' /\ GaugeMatches'
      BY <2>1 DEF ActiveTraced, GaugeMatches
    <2> QED
      BY <2>2, <2>3, <2>4, <2>5
  <1>2. CASE Program(cursor) \in kernel
    <2> DEFINE todo == [i \in DOMAIN Points[cursor] |-> Entry(Points[cursor][i])]
    <2>1. /\ UNCHANGED <<live, stage, cursor, kernel, open, links, active, retry, closer,
                         late, reading, gauge, read>>
          /\ objs' = objs \cup {cursor}
          /\ load' = [sub |-> cursor, todo |-> todo, got |-> {}]
          /\ known' = known \cup ({cursor} \cap {"block"})
      BY <1>2 DEF Create, collect
    <2>2. todo \in Seq(AllLinks) /\ Range(todo) = Entries(cursor)
      <3>1. Points[cursor] \in Seq(Range(Points[cursor]))
        BY <1>0, ConfigAssumption
      <3>2. DOMAIN Points[cursor] = 1..Len(Points[cursor]) /\ Len(Points[cursor]) \in Nat
        BY <3>1
      <3>3. \A i \in DOMAIN Points[cursor] : Entry(Points[cursor][i]) \in AllLinks
        BY <1>0 DEF AllLinks, Links, Entries, Range
      <3>4. todo \in Seq(AllLinks)
        BY <3>2, <3>3
      <3>5. Range(todo) = Entries(cursor)
        BY Zenon DEF Entries, Range
      <3> QED
        BY <3>4, <3>5
    <2> HIDE DEF todo
    <2> USE DEF IInv
    <2>3. TypeOK'
      BY <1>0, <2>1, <2>2 DEF TypeOK
    <2>4. StageInv' /\ FieldInv'
      BY <1>0, <2>1 DEF StageInv, FieldInv, Retried, Subsystems
    <2>5. open \cap Links(cursor) = {}
      BY <1>0 DEF TypeOK, KernelInv, FieldInv, Subsystems
    <2>6. LoadInv'
      <3>1. Needed(cursor) \subseteq Entries(cursor) /\ Entries(cursor) \subseteq Links(cursor)
        BY DEF Needed, Entries, Links
      <3>2. \A p : Ret(p) \notin Entries(cursor)
        BY LinkFacts DEF Entries
      <3> QED
        BY <1>0, <2>1, <2>2, <2>5, <3>1, <3>2 DEF LoadInv
    <2>7. LinksInv' /\ KernelInv'
      BY <1>0, <2>1 DEF LinksInv, KernelInv, Subsystems
    <2>8. ActiveTraced' /\ GaugeMatches'
      BY <2>1 DEF ActiveTraced, GaugeMatches
    <2> QED
      BY <2>3, <2>4, <2>6, <2>7, <2>8
  <1> QED
    BY <1>1, <1>2

\* A load under way: its subsystem, and the link it is at.
LEMMA LoadFacts ==
    ASSUME IInv, load.sub # "none"
    PROVE  /\ load.sub \in Subsystems \ active /\ cursor = load.sub
           /\ stage \in {"main", "round"}
           /\ stage = "round" => load.sub \in Retried
           /\ load.todo \in Seq(AllLinks) /\ load.got \subseteq AllLinks
           /\ load = [sub |-> load.sub, todo |-> load.todo, got |-> load.got]
           /\ load.todo # <<>> => /\ Head(load.todo) \in Links(load.sub)
                                  /\ Tail(load.todo) \in Seq(AllLinks)
                                  /\ Range(load.todo) = {Head(load.todo)} \cup Range(Tail(load.todo))
  <1>1. /\ load.sub \in Subsystems \ active /\ cursor = load.sub
        /\ load.todo \in Seq(AllLinks) /\ load.got \subseteq AllLinks
        /\ load = [sub |-> load.sub, todo |-> load.todo, got |-> load.got]
    BY DEF IInv, TypeOK, LoadInv
  <1>2. stage \in {"main", "round"} /\ (stage = "round" => load.sub \in Retried)
    BY <1>1 DEF IInv, TypeOK, StageInv, NoLoad, Subsystems, Retried
  <1>3. ASSUME load.todo # <<>>
        PROVE  /\ Tail(load.todo) \in Seq(AllLinks)
               /\ Range(load.todo) = {Head(load.todo)} \cup Range(Tail(load.todo))
    BY <1>1, <1>3, SeqFacts
  <1>4. Range(load.todo) \subseteq Links(load.sub)
    BY DEF IInv, LoadInv
  <1> QED
    BY <1>1, <1>2, <1>3, <1>4

LEMMA AttachPreserves == IInv /\ closer # "panic" /\ Attach => IInv'
  <1> SUFFICES ASSUME IInv, closer # "panic", Attach PROVE IInv'
    OBVIOUS
  <1> DEFINE s == load.sub
             l == Head(load.todo)
             kp == s = "kprobe" /\ l[1] = "entry"
             rest == Tail(load.todo) \o (IF kp THEN <<Ret(l[2])>> ELSE <<>>)
  <1>1. /\ UNCHANGED <<live, stage, cursor, kernel, objs, known, active, retry, closer, late,
                       reading, gauge, read>>
        /\ open' = open \cup {l}
        /\ links' = IF s = "block" THEN links \cup {l} ELSE links
        /\ s # "none" /\ load.todo # <<>>
    BY DEF Attach, Upcoming, collect
  <1>2. /\ s \in Subsystems \ active /\ cursor = s
        /\ stage \in {"main", "round"} /\ (stage = "round" => s \in Retried)
        /\ l \in Links(s) /\ l \in AllLinks
        /\ Tail(load.todo) \in Seq(AllLinks) /\ load.got \subseteq AllLinks
        /\ Range(load.todo) = {l} \cup Range(Tail(load.todo))
    BY <1>1, LoadFacts, LinkFacts
  <1>3. load' = [sub |-> s, todo |-> rest, got |-> load.got \cup {l}]
    BY <1>1, LoadFacts, Zenon DEF Attach
  <1>4. kp => \E p \in Range(Points[s]) : l = Entry(p) /\ Ret(l[2]) = Ret(p) /\ Ret(p) \in Links(s)
    BY <1>2, LinkFacts DEF Links, Entries, Returns
  <1>5. /\ rest \in Seq(AllLinks)
        /\ Range(rest) = Range(Tail(load.todo)) \cup (IF kp THEN {Ret(l[2])} ELSE {})
    <2> DEFINE tl == Tail(load.todo)
               r == Ret(l[2])
    <2>0. tl \in Seq(AllLinks) /\ (kp => r \in AllLinks)
      BY <1>2, <1>4, LinkFacts
    <2>1. CASE kp
      <3>1. rest = tl \o <<r>>
        BY <2>1
      <3> HIDE DEF tl, r, rest
      <3>2. rest \in Seq(AllLinks) /\ Range(rest) = Range(tl) \cup {r}
        BY <2>0, <2>1, <3>1, SnocFacts
      <3> QED
        BY <2>1, <3>2 DEF tl, r
    <2>2. CASE ~kp
      <3>1. rest = tl \o <<>>
        BY <2>2, Zenon
      <3> HIDE DEF tl, r, rest
      <3>2. rest = tl
        BY <2>0, <3>1
      <3> QED
        BY <2>0, <2>2, <3>2 DEF tl
    <2> QED
      BY <2>1, <2>2
  <1>6. \A t \in Subsystems \ {s} : l \notin Links(t)
    BY <1>2, LinkFacts
  <1> DEFINE more == IF kp THEN {Ret(l[2])} ELSE {}
  <1>7. more \subseteq Links(s)
    BY <1>4
  <1>8. s = "kprobe" => \A p \in Range(Points[s]) :
             /\ l = Entry(p) => Ret(p) \in more
             /\ Ret(p) \in more => l = Entry(p)
    BY <1>4, LinkFacts
  <1> HIDE DEF s, l, kp, rest, more
  <1>9. TypeOK'
    BY <1>1, <1>2, <1>3, <1>5 DEF IInv, TypeOK
  <1>10. StageInv' /\ FieldInv'
    BY <1>1, <1>2, <1>3 DEF IInv, StageInv, FieldInv
  <1>11. LoadInv'
    <2>1. Range(rest) = Range(Tail(load.todo)) \cup more
      BY <1>5 DEF more
    <2>2. LoadInv
      BY DEF IInv
    <2>3. /\ Range(load.todo) \cup load.got \subseteq Links(s)
          /\ Needed(s) \subseteq Range(load.todo) \cup load.got
          /\ open \cap Links(s) = load.got
          /\ closer = "wait" => s \in objs
      BY <2>2, <1>1 DEF LoadInv, s
    <2>4. s = "kprobe" => \A p \in Range(Points[s]) :
               Entry(p) \in load.got <=> Ret(p) \in Range(load.todo) \cup load.got
      BY <2>2, <1>1 DEF LoadInv, s
    <2>5. /\ Range(rest) \cup load.got \cup {l} \subseteq Links(s)
          /\ Needed(s) \subseteq Range(rest) \cup load.got \cup {l}
          /\ open' \cap Links(s) = load.got \cup {l}
      BY <1>1, <1>2, <1>7, <2>1, <2>3
    <2>6. s = "kprobe" => \A p \in Range(Points[s]) :
               Entry(p) \in load.got \cup {l} <=> Ret(p) \in Range(rest) \cup load.got \cup {l}
      BY <2>1, <2>4, <1>2, <1>8, LinkFacts
    <2> QED
      BY <1>1, <1>2, <1>3, <2>3, <2>5, <2>6 DEF LoadInv
  <1>12. LinksInv' /\ KernelInv'
    BY <1>1, <1>2, <1>3, <1>6 DEF IInv, LinksInv, KernelInv, TypeOK, Retried, Subsystems, s
  <1>13. ActiveTraced' /\ GaugeMatches'
    <2>1. \A t \in active : t \in Subsystems \ {s}
      BY <1>2 DEF IInv, TypeOK
    <2>2. \A t \in active : \A p \in Range(Points[t]) :
              Entry(p) # l /\ (t = "kprobe" => Ret(p) # l)
      BY <1>6, <2>1 DEF Links, Entries, Returns
    <2> QED
      BY <1>1, <2>2 DEF IInv, ActiveTraced, GaugeMatches
  <1> QED
    BY <1>9, <1>10, <1>11, <1>12, <1>13 DEF IInv

LEMMA PassOverPreserves == IInv /\ closer # "panic" /\ PassOver => IInv'
  <1> SUFFICES ASSUME IInv, closer # "panic", PassOver PROVE IInv'
    OBVIOUS
  <1> DEFINE s == load.sub
             l == Head(load.todo)
  <1>1. /\ UNCHANGED <<live, stage, cursor, kernel, open, objs, known, links, active, retry,
                       closer, late, reading, gauge, read>>
        /\ s # "none" /\ load.todo # <<>>
        /\ \E p \in Optional : l = Entry(p)
    BY DEF PassOver, Upcoming, fields, collect, Spare
  <1>2. /\ s \in Subsystems \ active /\ cursor = s
        /\ stage \in {"main", "round"} /\ (stage = "round" => s \in Retried)
        /\ Tail(load.todo) \in Seq(AllLinks) /\ load.got \subseteq AllLinks
        /\ Range(load.todo) = {l} \cup Range(Tail(load.todo))
    BY <1>1, LoadFacts
  <1>3. load' = [sub |-> s, todo |-> Tail(load.todo), got |-> load.got]
    BY <1>1, LoadFacts DEF PassOver
  <1>4. l \notin Needed(s) /\ \A p : l # Ret(p)
    BY <1>1, LinkFacts DEF Needed
  <1> HIDE DEF s, l
  <1>5. TypeOK'
    BY <1>1, <1>2, <1>3 DEF IInv, TypeOK
  <1>6. StageInv' /\ FieldInv'
    BY <1>1, <1>2, <1>3 DEF IInv, StageInv, FieldInv
  <1>7. LoadInv'
    BY <1>1, <1>2, <1>3, <1>4 DEF IInv, LoadInv, s
  <1>8. LinksInv' /\ KernelInv'
    BY <1>1, <1>3 DEF IInv, LinksInv, KernelInv, s
  <1>9. ActiveTraced' /\ GaugeMatches'
    BY <1>1 DEF IInv, ActiveTraced, GaugeMatches
  <1> QED
    BY <1>5, <1>6, <1>7, <1>8, <1>9 DEF IInv

LEMMA GiveUpPreserves == IInv /\ closer # "panic" /\ GiveUp => IInv'
  <1> SUFFICES ASSUME IInv, closer # "panic", GiveUp PROVE IInv'
    OBVIOUS
  <1> DEFINE s == load.sub
  <1>1. /\ UNCHANGED <<live, stage, kernel, known, links, active, closer, late,
                       reading, gauge, read>>
        /\ open' = open \ load.got
        /\ objs' = objs \ {s}
        /\ Failed
        /\ s # "none"
    BY DEF GiveUp, Upcoming, collect
  <1>2. /\ s \in Subsystems \ active /\ cursor = s
        /\ stage \in {"main", "round"}
    BY <1>1, LoadFacts
  <1>3. load.got \subseteq Links(s) /\ open \cap Links(s) = load.got
    BY <1>1 DEF IInv, LoadInv
  <1>4. \A t \in active : t \in Subsystems /\ load.got \cap Links(t) = {}
    BY <1>2, <1>3, LinkFacts DEF IInv, TypeOK
  <1>5. /\ load' = NoLoad /\ load'.sub = "none"
        /\ cursor' \in Subsystems \cup {"end"} /\ cursor' # "block"
        /\ retry' \subseteq Retried \ active'
        /\ stage = "main" => active' \cup retry' \subseteq Before(cursor')
    BY <1>1, <1>2, FailedFacts DEF IInv, NoLoad
  <1> HIDE DEF s
  <1>6. TypeOK'
    <2>1. <<>> \in Seq(AllLinks)
      OBVIOUS
    <2> QED
      BY <1>1, <1>5, <2>1 DEF IInv, TypeOK, NoLoad
  <1>7. StageInv' /\ FieldInv' /\ LoadInv'
    BY <1>1, <1>2, <1>5 DEF IInv, StageInv, FieldInv, LoadInv
  <1>8. LinksInv' /\ KernelInv'
    BY <1>1, <1>2, <1>3, <1>5 DEF IInv, LinksInv, KernelInv, s
  <1>9. ActiveTraced' /\ GaugeMatches'
    <2>1. \A t \in active : s # t /\ \A p \in Range(Points[t]) :
              Entry(p) \notin load.got /\ (t = "kprobe" => Ret(p) \notin load.got)
      BY <1>2, <1>4 DEF Links, Entries, Returns
    <2>2. \A t \in active : Needed(t) \cap load.got = {}
      BY <2>1 DEF Needed
    <2> QED
      BY <1>1, <2>1, <2>2 DEF IInv, ActiveTraced, GaugeMatches
  <1> QED
    BY <1>6, <1>7, <1>8, <1>9 DEF IInv

LEMMA FinishPreserves == IInv /\ closer # "panic" /\ Finish => IInv'
  <1> SUFFICES ASSUME IInv, closer # "panic", Finish PROVE IInv'
    OBVIOUS
  <1> DEFINE s == load.sub
  <1>1. /\ UNCHANGED <<live, stage, kernel, open, objs, closer, reading, gauge, read>>
        /\ known' = known \cup {s}
        /\ links' = links \cup load.got
        /\ active' = active \cup {s}
        /\ retry' = retry \ {s}
        /\ late' = IF closer = "wait" THEN late ELSE late \cup {s}
        /\ cursor' = Following(cursor)
        /\ load' = NoLoad /\ load'.sub = "none"
        /\ s # "none" /\ load.todo = <<>>
    BY DEF Finish, collect, NoLoad
  <1>2. /\ s \in Subsystems \ active /\ cursor = s
        /\ stage \in {"main", "round"} /\ (stage = "round" => s \in Retried)
        /\ load.got \subseteq AllLinks
    BY <1>1, LoadFacts
  <1>3. Range(load.todo) = {}
    BY <1>1 DEF Range
  <1>4. /\ load.got \subseteq Links(s) /\ open \cap Links(s) = load.got
        /\ Needed(s) \subseteq load.got
        /\ s = "kprobe" => \A p \in Range(Points[s]) : Entry(p) \in load.got <=> Ret(p) \in load.got
        /\ closer = "wait" => s \in objs
    BY <1>1, <1>3 DEF IInv, LoadInv
  <1>5. /\ cursor' \in Subsystems \cup {"end"} /\ cursor' # "block"
        /\ stage = "main" => active' \cup retry' \subseteq Before(cursor')
    BY <1>1, <1>2 DEF IInv, StageInv, Following, Subsystems, Before
  <1> HIDE DEF s
  <1>6. TypeOK'
    <2>1. <<>> \in Seq(AllLinks)
      OBVIOUS
    <2> QED
      BY <1>1, <1>2, <1>5, <2>1 DEF IInv, TypeOK, NoLoad
  <1>7. StageInv' /\ FieldInv' /\ LoadInv'
    BY <1>1, <1>2, <1>5 DEF IInv, StageInv, FieldInv, LoadInv
  <1>8. LinksInv'
    <2>1. \A t \in Retried \ active' : links' \cap Links(t) = {}
      BY <1>1, <1>2, <1>4, LinkFacts DEF IInv, LinksInv, Retried, Subsystems
    <2> QED
      BY <1>1, <1>4, <2>1 DEF IInv, LinksInv
  <1>9. KernelInv'
    BY <1>1, <1>2 DEF IInv, KernelInv, Subsystems, s
  <1>10. ActiveTraced' /\ GaugeMatches'
    <2>1. s = "kprobe" => \A p \in Range(Points[s]) : Entry(p) \in Links(s) /\ Ret(p) \in Links(s)
      BY DEF Links, Entries, Returns
    <2>2. s = "kprobe" => \A p \in Range(Points[s]) : Entry(p) \in open <=> Ret(p) \in open
      BY <2>1, <1>4
    <2> QED
      BY <1>1, <1>4, <2>2 DEF IInv, ActiveTraced, GaugeMatches
  <1> QED
    BY <1>6, <1>7, <1>8, <1>9, <1>10 DEF IInv
-----------------------------------------------------------------------------
(* The steps between loads, and the environment.                           *)

LEMMA StagePreserves == IInv /\ (Return \/ Tick \/ EndRound \/ StopRetry) => IInv'
  <1> SUFFICES ASSUME IInv, Return \/ Tick \/ EndRound \/ StopRetry PROVE IInv'
    OBVIOUS
  <1>1. /\ UNCHANGED <<live, load, kernel, open, objs, known, links, active, retry, closer, late,
                       reading, gauge, read>>
        /\ load = NoLoad /\ load.sub = "none"
        /\ stage' \in {"disabled", "idle", "round", "off"}
        /\ stage' = "round" => cursor' # "block" /\ ~reading
        /\ reading => stage' \in {"idle", "off"}
        /\ cursor' \in Subsystems \cup {"end"}
    <2>1. load = NoLoad /\ load.sub = "none"
      BY DEF IInv, TypeOK, StageInv, LoadInv, NoLoad, Subsystems, Return, Tick, EndRound, StopRetry
    <2>2. CASE Return
      BY <2>1, <2>2 DEF Return, fields, collect, IInv, TypeOK, StageInv
    <2>3. CASE Tick
      BY <2>1, <2>3 DEF Tick, fields, collect, IInv, TypeOK, Subsystems, StageInv
    <2>4. CASE EndRound
      BY <2>1, <2>4 DEF EndRound, fields, collect, IInv, TypeOK, StageInv
    <2>5. CASE StopRetry
      BY <2>1, <2>5 DEF StopRetry, fields, collect, IInv, TypeOK, StageInv
    <2> QED
      BY <2>2, <2>3, <2>4, <2>5
  <1>2. TypeOK'
    BY <1>1 DEF IInv, TypeOK
  <1>3. StageInv' /\ FieldInv' /\ LoadInv'
    BY <1>1 DEF IInv, StageInv, FieldInv, LoadInv
  <1>4. LinksInv' /\ KernelInv'
    BY <1>1 DEF IInv, LinksInv, KernelInv
  <1>5. ActiveTraced' /\ GaugeMatches'
    BY <1>1 DEF IInv, ActiveTraced, GaugeMatches
  <1> QED
    BY <1>2, <1>3, <1>4, <1>5 DEF IInv

LEMMA CloseLinksPreserves == IInv /\ closer # "panic" /\ CloseLinks => IInv'
  <1> SUFFICES ASSUME IInv, closer # "panic", CloseLinks PROVE IInv'
    OBVIOUS
  <1>1. /\ UNCHANGED <<live, stage, cursor, load, kernel, known, links, active, retry, late,
                       reading, gauge, read>>
        /\ closer = "wait" /\ stage # "main"
        /\ \/ open' = open \ links /\ objs' = objs /\ closer' = "block"
           \/ open' = {} /\ objs' = {} /\ closer' = "panic"
    BY DEF CloseLinks, loading, fields, collect
  <1>2. TypeOK'
    BY <1>1, Zenon DEF IInv, TypeOK, Subsystems
  <1>3. StageInv' /\ FieldInv'
    BY <1>1 DEF IInv, StageInv, FieldInv
  <1>4. LoadInv'
    <2>1. load.sub # "none" => links \cap Links(load.sub) = {}
      BY <1>1, LoadFacts DEF IInv, LinksInv
    <2> QED
      BY <1>1, <2>1 DEF IInv, LoadInv
  <1>5. LinksInv'
    BY <1>1 DEF IInv, LinksInv
  <1>6. KernelInv'
    BY <1>1 DEF IInv, KernelInv, LinksInv, FieldInv, Before, Subsystems
  <1>7. ActiveTraced' /\ GaugeMatches'
    BY <1>1 DEF IInv, ActiveTraced, GaugeMatches
  <1> QED
    BY <1>2, <1>3, <1>4, <1>5, <1>6, <1>7 DEF IInv

LEMMA CloseObjsPreserves == IInv /\ CloseObjs => IInv'
  <1> SUFFICES ASSUME IInv, CloseObjs PROVE IInv'
    OBVIOUS
  <1>1. /\ UNCHANGED <<live, stage, cursor, load, kernel, open, known, links, active, retry, late,
                       reading, gauge, read>>
        /\ objs' = IF closer \in known THEN objs \ {closer} ELSE objs
    BY DEF CloseObjs, loading, fields, collect
  <1>2. /\ closer \in Subsystems
        /\ closer # "wait" /\ closer # "panic" /\ closer' # "wait" /\ closer' # "panic"
        /\ closer' \in Subsystems \cup {"end"}
        /\ Before(closer') = Before(closer) \cup {closer}
    BY DEF CloseObjs, Following, Before, Subsystems
  <1>3. TypeOK'
    BY <1>1, <1>2 DEF IInv, TypeOK
  <1>4. StageInv' /\ FieldInv' /\ LoadInv'
    BY <1>1, <1>2 DEF IInv, StageInv, FieldInv, LoadInv
  <1>5. LinksInv' /\ KernelInv'
    BY <1>1, <1>2 DEF IInv, LinksInv, KernelInv
  <1>6. ActiveTraced' /\ GaugeMatches'
    BY <1>1, <1>2 DEF IInv, ActiveTraced, GaugeMatches
  <1> QED
    BY <1>3, <1>4, <1>5, <1>6 DEF IInv

LEMMA CollectPreserves == IInv /\ (CollectGauge \/ CollectMaps) => IInv'
  <1> SUFFICES ASSUME IInv, CollectGauge \/ CollectMaps PROVE IInv'
    OBVIOUS
  <1>1. /\ UNCHANGED <<live, stage, cursor, load, kernel, open, objs, known, links, active, retry,
                       closer, late>>
        /\ \/ reading' = TRUE /\ gauge' = active /\ read' = read /\ stage \in {"idle", "off"}
           \/ reading /\ reading' = FALSE /\ gauge' = gauge /\ read' = known
    BY DEF CollectGauge, CollectMaps, loading, fields
  <1>2. TypeOK'
    BY <1>1, Zenon DEF IInv, TypeOK
  <1>3. StageInv' /\ FieldInv' /\ LoadInv'
    BY <1>1 DEF IInv, StageInv, FieldInv, LoadInv
  <1>4. LinksInv' /\ KernelInv' /\ ActiveTraced'
    BY <1>1 DEF IInv, LinksInv, KernelInv, ActiveTraced
  <1>5. GaugeMatches'
    BY <1>1 DEF IInv, GaugeMatches, StageInv, FieldInv
  <1> QED
    BY <1>2, <1>3, <1>4, <1>5 DEF IInv

LEMMA EnvironmentPreserves ==
    IInv /\ (Cancel \/ \E s \in Retried : ModuleLoads(s) \/ ModuleUnloads(s)) => IInv'
  <1> SUFFICES ASSUME IInv, Cancel \/ \E s \in Retried : ModuleLoads(s) \/ ModuleUnloads(s)
               PROVE  IInv'
    OBVIOUS
  <1>1. /\ UNCHANGED <<stage, cursor, load, open, objs, known, links, active, retry, closer, late,
                       reading, gauge, read>>
        /\ live' \in BOOLEAN
        /\ kernel' \subseteq AllLinks \cup AllPrograms
    <2>1. \A s \in Retried : Links(s) \subseteq AllLinks /\ Program(s) \in AllPrograms
      BY LinkFacts DEF AllPrograms, Retried, Subsystems
    <2> QED
      BY <2>1, Zenon DEF IInv, TypeOK, Cancel, ModuleLoads, ModuleUnloads, loading, fields, collect
  <1>2. TypeOK'
    BY <1>1 DEF IInv, TypeOK
  <1>3. StageInv' /\ FieldInv' /\ LoadInv'
    BY <1>1 DEF IInv, StageInv, FieldInv, LoadInv
  <1>4. LinksInv' /\ KernelInv' /\ ActiveTraced' /\ GaugeMatches'
    BY <1>1 DEF IInv, LinksInv, KernelInv, ActiveTraced, GaugeMatches
  <1> QED
    BY <1>2, <1>3, <1>4 DEF IInv

LEMMA StutterPreserves == IInv /\ UNCHANGED vars => IInv'
  BY DEF vars, loading, fields, collect, IInv, TypeOK, StageInv, FieldInv, LoadInv, LinksInv,
         KernelInv, ActiveTraced, GaugeMatches

LEMMA NextPreserves == IInv /\ [Next]_vars => IInv'
  BY SkipPreserves, CreatePreserves, AttachPreserves, PassOverPreserves, GiveUpPreserves,
     FinishPreserves, StagePreserves, CloseLinksPreserves, CloseObjsPreserves, CollectPreserves,
     EnvironmentPreserves, StutterPreserves DEF Next, Loader, Ended

LEMMA Invariance == Spec => []IInv
  BY InitIInv, NextPreserves, PTL DEF Spec
-----------------------------------------------------------------------------
\* The fields of Programs, the load under way and the goroutines of startEBPF have
\* values of their types, whatever the attach points and the flags are.
THEOREM TypeCorrect == Spec => []TypeOK
  BY Invariance, PTL DEF IInv

\* A load that fails at any of its links leaves no link and no object in the kernel
\* (133-145, 183-189, 233-243, 251-257).
THEOREM FailuresUndone == Spec => []FailedLoadUndone
  <1>1. IInv => FailedLoadUndone
    BY DEF IInv, KernelInv, FailedLoadUndone, NoLoad, Subsystems
  <1> QED
    BY <1>1, Invariance, PTL

\* A subsystem that is reported active has all its needed links and its objects, and
\* a kretprobe for exactly the functions with a kprobe (44-67, 92-105, 231-260).
THEOREM ActiveIsTraced == Spec => []ActiveTraced
  BY Invariance, PTL DEF IInv

\* A Collect reads the histograms of exactly the retried subsystems it has called
\* active, whatever a round of retries does meanwhile (collector.go 85-99, 91-106).
THEOREM GaugeIsRight == Spec => []GaugeMatches
  BY Invariance, PTL DEF IInv

\* Close, which takes no lock, leaves nothing in the kernel but for what a round of
\* retries has loaded since it began (268-281, 86-91).
THEOREM CloseIsComplete == Spec => []ClosedReleases
  <1>1. IInv => ClosedReleases
    BY DEF IInv, KernelInv, ClosedReleases, NoLoad, Subsystems, Before
  <1> QED
    BY <1>1, Invariance, PTL
=============================================================================
