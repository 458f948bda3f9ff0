--------------------------- MODULE ObfsProxyProofs ---------------------------
(***************************************************************************)
(* For any number of processes, servers, starts and deaths: the type       *)
(* invariant of ObfsProxy, that no connection runs through the proxy of    *)
(* another, and that two proxies are at work only after a launch within a  *)
(* launch.                                                                 *)
(*                                                                         *)
(* None of them is inductive.  A start that comes back from its wait finds *)
(* no proxy, or only those it has told to end (Cleared): that is why it    *)
(* may change the server.  And what mObfsproxy points to, or is about to   *)
(* be deleted, is never a process without a QProcess (PointerOK).          *)
(***************************************************************************)
EXTENDS ObfsProxy, FiniteSetTheorems, TLAPS

\* TypeOK in parts.
ManagerOK ==
    /\ state \in States
    /\ host \in Hosts \cup {NoHost}
    /\ port \in Nat /\ asked \in Nat
    /\ obfs \in BOOLEAN
    /\ request \in Requests \cup {Idle}

ProcsOK ==
    /\ owner \in (Procs \ doomed) \cup {NoProc}
    /\ phase \in [Procs -> Phases]
    /\ dest \in [Procs -> Targets]
    /\ doomed \subseteq {p \in Procs : phase[p] \notin {"free", "failed"}}
    /\ dying \subseteq Running
    /\ orphans \subseteq Running

FlagsOK == doubled \in BOOLEAN /\ relied \in BOOLEAN /\ lapsed \in BOOLEAN

CountersOK == starts \in 0..MaxStarts /\ ends \in 0..MaxEnds /\ crashes \in 0..MaxCrashes

\* A pointer to a QProcess is none to a process that has no QProcess.
PointerOK ==
    /\ owner \in Procs => phase[owner] # "free" /\ owner \notin orphans
    /\ doomed \cap orphans = {}

\* A stop that need not wait has told every proxy to end.
Cleared == request # Idle /\ ~request.waits => Running \subseteq dying

\* OneProxy without its count.
AtMostOne == doubled \/ \A p, q \in Running : p = q

ProcsInv == ProcsOK /\ PointerOK

\* A port that is found taken is followed by a higher one.
Tried == asked <= port

ProxyInv == ManagerOK /\ Tried /\ ProcsInv /\ Cleared /\ RightProxy /\ AtMostOne

\* Forwards, of the target of a process.
Fits(t, h, first, last) == t.host = h /\ t.port \in first..last

LEMMA ForwardsFits == \A p : Forwards(p) <=> Fits(dest[p], host, asked, port)
  BY DEF Forwards, Fits
LEMMA ForwardsFitsNext == \A p : Forwards(p)' <=> Fits(dest'[p], host', asked', port')
  BY DEF Forwards, Fits

LEMMA TargetIsOne == \A h \in Hosts \cup {NoHost}, n \in Nat :
    Target(h, n) \in Targets /\ Target(h, n).host = h /\ Target(h, n).port = n
  BY DEF Target, Targets

LEMMA TypeParts == TypeOK <=> ManagerOK /\ ProcsOK /\ FlagsOK /\ CountersOK
  BY DEF TypeOK, ManagerOK, ProcsOK, FlagsOK, CountersOK

\* What a request says of itself.
LEMMA IdleIsNoRequest == \A r \in Requests : r # Idle /\ r.waits \in BOOLEAN
  BY DEF Requests, Idle

-----------------------------------------------------------------------------
(* The launch.                                                             *)

\* A new process takes the place of none that is there or about to be deleted.
LEMMA FreshIsFree ==
  ASSUME NEW ph, NEW taken, NEW p \in Fresh(ph, taken)
  PROVE  p \in Procs /\ p \notin taken /\ ph[p] = "free"
<1> DEFINE free == {q \in Procs \ (doomed \cup taken) : ph[q] = "free"}
<1>1. free # {} /\ p = CHOOSE q \in free : TRUE
  BY DEF Fresh
<1>2. p \in free
  BY <1>1
<1> QED
  BY <1>2

\* What a launch does to process r, and to the pointer.
Untouched(r, ph, ds) == phase'[r] = ph[r] /\ dest'[r] = ds[r]
Launched(r, t, ph, own) ==
    /\ phase'[r] \in {"starting", "failed"} /\ (phase'[r] = "starting" => dest'[r] = t)
    /\ r = own \/ ph[r] = "free"
Deletes(r, own) == r = own /\ phase'[r] = "free"

NewProxy(t, ph, ds, own) ==
    /\ RunningIn(ph) = {}
    /\ owner' \in Procs /\ Launched(owner', t, ph, own)
    /\ \A r \in Procs : Untouched(r, ph, ds) \/ Launched(r, t, ph, own) \/ Deletes(r, own)
    /\ \A r \in RunningIn(phase') : r = owner' \/ doubled'
    /\ doubled => doubled'

SameProxy(ph, ds, own) == phase' = ph /\ owner' = own /\ dest' = ds /\ doubled' = doubled

\* A launch leaves everything as it is, or makes one proxy when none runs; two of them
\* only within each other.
LEMMA LaunchMakesOne ==
  ASSUME NEW t \in Targets, NEW o \in BOOLEAN,
         NEW ph \in [Procs -> Phases], NEW ds \in [Procs -> Targets], NEW own,
         Launch(t, o, ph, ds, own)
  PROVE  /\ SameProxy(ph, ds, own) \/ NewProxy(t, ph, ds, own)
         /\ o /\ t.host # NoHost /\ RunningIn(ph) = {} => NewProxy(t, ph, ds, own)
         /\ phase' \in [Procs -> Phases]
         /\ dest' \in [Procs -> Targets]
<1> DEFINE wph == Without(ph, own)
<1>w. /\ wph \in [Procs -> Phases]
      /\ \A r \in Procs : wph[r] = (IF r = own THEN "free" ELSE ph[r])
  BY DEF Without, Phases
<1>1. CASE LaunchOne(t, wph, ds) /\ RunningIn(ph) = {}
  <2>1. PICK p \in Fresh(wph, {}), how \in {"starting", "failed"} :
          /\ phase' = [wph EXCEPT ![p] = how]
          /\ dest' = IF how = "starting" THEN [ds EXCEPT ![p] = t] ELSE ds
          /\ owner' = p
          /\ doubled' = doubled
    BY <1>1 DEF LaunchOne
  <2>2. p \in Procs /\ wph[p] = "free"
    BY FreshIsFree
  <2>3. phase' \in [Procs -> Phases] /\ dest' \in [Procs -> Targets]
    BY <2>1, <2>2, <1>w DEF Phases
  <2>4. Launched(p, t, ph, own)
    BY <2>1, <2>2, <1>w DEF Launched
  <2>5. ASSUME NEW r \in Procs, r # p
        PROVE  Untouched(r, ph, ds) \/ Deletes(r, own)
    BY <2>1, <2>2, <2>5, <1>w DEF Untouched, Deletes
  <2>6. ASSUME NEW r \in Procs, r # p
        PROVE  r \notin RunningIn(phase')
    <3>1. phase'[r] = wph[r]
      BY <2>1, <2>2, <2>6, <1>w
    <3>2. ph[r] \notin {"starting", "listening"}
      BY <1>1 DEF RunningIn
    <3> QED
      BY <3>1, <3>2, <1>w DEF RunningIn
  <2>7. \A q \in RunningIn(phase') : q = p
    BY <2>6 DEF RunningIn
  <2> QED
    BY <1>1, <2>1, <2>2, <2>3, <2>4, <2>5, <2>7 DEF NewProxy
<1>2. CASE LaunchTwo(t, wph, ds) /\ RunningIn(ph) = {}
  <2>1. PICK p \in Fresh(wph, {}) : \E q \in Fresh(wph, {p}), how \in {"starting", "failed"} :
          /\ phase' = [wph EXCEPT ![p] = "starting", ![q] = how]
          /\ dest' = [ds EXCEPT ![p] = t, ![q] = IF how = "starting" THEN t ELSE @]
          /\ owner' = q
          /\ doubled' = TRUE
    BY <1>2 DEF LaunchTwo
  <2>2. PICK q \in Fresh(wph, {p}), how \in {"starting", "failed"} :
          /\ phase' = [wph EXCEPT ![p] = "starting", ![q] = how]
          /\ dest' = [ds EXCEPT ![p] = t, ![q] = IF how = "starting" THEN t ELSE @]
          /\ owner' = q
          /\ doubled' = TRUE
    BY <2>1
  <2>3. p \in Procs /\ wph[p] = "free"
    BY FreshIsFree
  <2>4. q \in Procs /\ q # p /\ wph[q] = "free"
    BY FreshIsFree
  <2>5. phase' \in [Procs -> Phases] /\ dest' \in [Procs -> Targets]
    BY <2>2, <2>3, <2>4, <1>w DEF Phases
  <2>6. Launched(p, t, ph, own) /\ Launched(q, t, ph, own)
    BY <2>2, <2>3, <2>4, <1>w DEF Launched
  <2>7. ASSUME NEW r \in Procs, r # p, r # q
        PROVE  Untouched(r, ph, ds) \/ Deletes(r, own)
    BY <2>2, <2>3, <2>4, <2>7, <1>w DEF Untouched, Deletes
  <2> QED
    BY <1>2, <2>2, <2>4, <2>5, <2>6, <2>7 DEF NewProxy
<1>3. CASE SameProxy(ph, ds, own) /\ ~(o /\ t.host # NoHost /\ RunningIn(ph) = {})
  BY <1>3 DEF SameProxy
<1> QED
  BY <1>1, <1>2, <1>3 DEF Launch, SameProxy

\* A launch keeps the processes as they should be, when ph and own are what the slot
\* that launches has left of them, and the rest is in order.
LEMMA LaunchKeepsProcs ==
  ASSUME NEW t, NEW ds,
         NEW ph \in [Procs -> Phases], NEW own \in Procs \cup {NoProc},
         SameProxy(ph, ds, own) \/ NewProxy(t, ph, ds, own),
         phase' \in [Procs -> Phases],
         dest' \in [Procs -> Targets],
         own \notin doomed',
         own \in Procs => ph[own] # "free" /\ own \notin orphans',
         doomed' \subseteq Procs,
         \A r \in doomed' : ph[r] \notin {"free", "failed"} /\ r \notin orphans',
         dying' \subseteq RunningIn(ph), orphans' \subseteq RunningIn(ph)
  PROVE  ProcsInv'
<1>1. CASE SameProxy(ph, ds, own)
  <2>1. phase' = ph /\ owner' = own
    BY <1>1 DEF SameProxy
  <2>2. Running' = RunningIn(ph)
    BY <2>1 DEF Running, RunningIn
  <2>3. ProcsOK'
    BY <2>1, <2>2 DEF ProcsOK
  <2>4. PointerOK'
    BY <2>1 DEF PointerOK
  <2> QED
    BY <2>3, <2>4 DEF ProcsInv
<1>2. CASE NewProxy(t, ph, ds, own)
  <2>1. dying' = {} /\ orphans' = {}
    BY <1>2 DEF NewProxy
  <2>2. owner' \in Procs /\ phase'[owner'] \in {"starting", "failed"}
    BY <1>2 DEF NewProxy, Launched
  <2>3. owner' \notin doomed'
    BY <1>2 DEF NewProxy, Launched
  <2>4. ASSUME NEW r \in doomed'
        PROVE  phase'[r] \notin {"free", "failed"}
    <3>1. Untouched(r, ph, ds) \/ Launched(r, t, ph, own) \/ Deletes(r, own)
      BY <1>2, <2>4 DEF NewProxy
    <3> QED
      BY <3>1, <2>4 DEF Untouched, Launched, Deletes
  <2>5. ProcsOK'
    BY <2>1, <2>2, <2>3, <2>4 DEF ProcsOK
  <2>6. PointerOK'
    BY <2>1, <2>2 DEF PointerOK
  <2> QED
    BY <2>5, <2>6 DEF ProcsInv
<1> QED
  BY <1>1, <1>2

\* It keeps the server of the proxies right, and one proxy at most, when what was left
\* had them so.
LEMMA LaunchKeepsServer ==
  ASSUME NEW t, NEW ds,
         NEW ph \in [Procs -> Phases], NEW own,
         SameProxy(ph, ds, own) \/ NewProxy(t, ph, ds, own),
         Fits(t, host', asked', port'),
         host' # NoHost => \A r \in RunningIn(ph) \ (doomed' \cup dying') :
                             Fits(ds[r], host', asked', port'),
         doubled \/ \A p, q \in RunningIn(ph) : p = q
  PROVE  RightProxy' /\ AtMostOne'
<1>1. CASE SameProxy(ph, ds, own)
  <2>1. phase' = ph /\ dest' = ds /\ doubled' = doubled
    BY <1>1 DEF SameProxy
  <2>2. Running' = RunningIn(ph)
    BY <2>1 DEF Running, RunningIn
  <2>3. RightProxy'
    BY <2>1, <2>2, ForwardsFitsNext DEF RightProxy, Told2End
  <2>4. AtMostOne'
    BY <2>1, <2>2 DEF AtMostOne
  <2> QED
    BY <2>3, <2>4
<1>2. CASE NewProxy(t, ph, ds, own)
  <2>1. Running' = RunningIn(phase')
    BY DEF Running, RunningIn
  <2>2. ASSUME NEW r \in Running'
        PROVE  dest'[r] = t
    <3>1. r \in Procs /\ phase'[r] \in {"starting", "listening"}
      BY <2>2 DEF Running, RunningIn
    <3>2. ph[r] \notin {"starting", "listening"}
      BY <1>2, <3>1 DEF NewProxy, RunningIn
    <3>3. Untouched(r, ph, ds) \/ Launched(r, t, ph, own) \/ Deletes(r, own)
      BY <1>2, <3>1 DEF NewProxy
    <3> QED
      BY <3>1, <3>2, <3>3 DEF Untouched, Launched, Deletes
  <2>3. RightProxy'
    BY <2>2, ForwardsFitsNext DEF RightProxy
  <2>4. AtMostOne'
    BY <1>2, <2>1 DEF NewProxy, AtMostOne
  <2> QED
    BY <2>3, <2>4
<1> QED
  BY <1>1, <1>2
-----------------------------------------------------------------------------
(* What the other steps leave of the processes.                            *)

\* The processes obfsFinished leaves to the launch, when p has finished.
Dropped(p) == owner \in Procs \ {p} /\ phase[owner] # "failed"
Left(p) == Without(Without(phase, p), IF Dropped(p) THEN NoProc ELSE owner)

LeftDest(p) == [dest EXCEPT ![p] = Nowhere]

Finishes(p) == p \in Procs /\ phase[p] # "free" /\ p \notin orphans /\ ObfsFinished(p)

\* An end that is told, or forced, is that of a process with a QProcess.
LEMMA ToldFinishes ==
  ASSUME ProcsInv, NEW p \in Procs, Told(p) \/ Deleted(p)
  PROVE  Finishes(p)
<1>1. CASE Told(p)
  BY <1>1 DEF Told, Finishes, ProcsInv, ProcsOK, Running, RunningIn
<1>2. CASE Deleted(p)
  BY <1>2 DEF Deleted, Finishes, ProcsInv, ProcsOK, PointerOK, Running, RunningIn
<1> QED
  BY <1>1, <1>2

LEMMA LeftOver ==
  ASSUME ProcsInv, NEW p, Finishes(p)
  PROVE  /\ Left(p) \in [Procs -> Phases]
         /\ doomed' \subseteq Procs
         /\ \A r \in doomed' : Left(p)[r] \notin {"free", "failed"} /\ r \notin orphans'
         /\ dying' \subseteq RunningIn(Left(p))
         /\ orphans' \subseteq RunningIn(Left(p))
         /\ RunningIn(Left(p)) \subseteq Running
         /\ RunningIn(Left(p)) \ (doomed' \cup dying') \subseteq Running \ Told2End
         /\ LeftDest(p) \in [Procs -> Targets]
         /\ \A r \in RunningIn(Left(p)) : LeftDest(p)[r] = dest[r]
<1>1. /\ doomed' = (doomed \ {p}) \cup (IF Dropped(p) THEN {owner} ELSE {})
      /\ dying' = dying \ {p}
      /\ orphans' = orphans
  BY DEF Finishes, ObfsFinished, Dropped
<1>2. ASSUME NEW r \in Procs
      PROVE  Left(p)[r] = IF r = p \/ (~Dropped(p) /\ r = owner) THEN "free" ELSE phase[r]
  BY ProxyAssumption DEF Left, Without
<1>3. Left(p) \in [Procs -> Phases]
  BY DEF Left, Without, Phases, ProcsInv, ProcsOK
<1>4. ASSUME NEW r \in doomed'
      PROVE  r \in Procs /\ Left(p)[r] \notin {"free", "failed"} /\ r \notin orphans'
  <2>1. CASE r \in doomed /\ r # p
    <3>1. r \in Procs /\ phase[r] \notin {"free", "failed"} /\ r # owner
      BY <2>1, ProxyAssumption DEF ProcsInv, ProcsOK
    <3> QED
      BY <1>1, <1>2, <2>1, <3>1 DEF ProcsInv, PointerOK
  <2>2. CASE Dropped(p) /\ r = owner
    BY <1>1, <1>2, <2>2 DEF Dropped, ProcsInv, ProcsOK, PointerOK
  <2> QED
    BY <1>1, <1>4, <2>1, <2>2
<1>5. ASSUME NEW r \in dying'
      PROVE  r \in RunningIn(Left(p))
  <2>1. r \in Procs /\ r # p /\ phase[r] \in {"starting", "listening"}
    BY <1>1, <1>5 DEF ProcsInv, ProcsOK, Running, RunningIn
  <2>2. r = owner => Dropped(p)
    BY <2>1 DEF Dropped
  <2> QED
    BY <1>2, <2>1, <2>2 DEF RunningIn
<1>6. ASSUME NEW r \in orphans'
      PROVE  r \in RunningIn(Left(p))
  <2>1. r \in Procs /\ r # p /\ r # owner /\ phase[r] \in {"starting", "listening"}
    BY <1>1, <1>6 DEF ProcsInv, ProcsOK, PointerOK, Running, RunningIn, Finishes
  <2> QED
    BY <1>2, <2>1 DEF RunningIn
<1>7. ASSUME NEW r \in RunningIn(Left(p))
      PROVE  r \in Running /\ r # p
  <2>1. r \in Procs /\ Left(p)[r] \in {"starting", "listening"}
    BY <1>7 DEF RunningIn
  <2> QED
    BY <1>2, <2>1 DEF Running, RunningIn
<1>8. RunningIn(Left(p)) \ (doomed' \cup dying') \subseteq Running \ Told2End
  BY <1>1, <1>7 DEF Told2End
<1>9. dest \in [Procs -> Targets] /\ Nowhere \in Targets
  BY TargetIsOne DEF Nowhere, ProcsInv, ProcsOK
<1>10. LeftDest(p) \in [Procs -> Targets]
  BY <1>9 DEF LeftDest
<1>11. \A r \in RunningIn(Left(p)) : LeftDest(p)[r] = dest[r]
  BY <1>7, <1>9 DEF LeftDest, Running, RunningIn
<1> QED
  BY <1>3, <1>4, <1>5, <1>6, <1>7, <1>8, <1>10, <1>11

\* A process that is gone is missed by those that ran, and by nothing else.
LEMMA GoneIsMissed ==
  ASSUME ProcsInv, NEW p \in Running, Gone(p)
  PROVE  /\ ProcsInv'
         /\ Running' = Running \ {p}
         /\ Running' \ Told2End' \subseteq Running \ Told2End
         /\ \A r \in Running' : dest'[r] = dest[r]
<1>1. p \in Procs /\ phase[p] \in {"starting", "listening"}
  BY DEF Running, RunningIn
<1>2. /\ phase' \in [Procs -> Phases]
      /\ phase'[p] = (IF p \in orphans THEN "free" ELSE "ended")
      /\ \A r \in Procs : r # p => phase'[r] = phase[r]
  BY <1>1 DEF Gone, ProcsInv, ProcsOK, Phases
<1>3. /\ dying' = dying \ {p} /\ orphans' = orphans \ {p}
      /\ owner' = owner /\ doomed' = doomed /\ dest' = [dest EXCEPT ![p] = Nowhere]
  BY DEF Gone, objectVars
<1>d. dest' \in [Procs -> Targets]
  BY <1>3, TargetIsOne DEF Nowhere, ProcsInv, ProcsOK
<1>4. Running' = Running \ {p}
  <2>1. ASSUME NEW r PROVE r \in Running' <=> r \in Running /\ r # p
    BY <1>1, <1>2 DEF Running, RunningIn
  <2> QED
    BY <2>1
<1>5. ProcsOK'
  <2>1. ASSUME NEW r \in doomed
        PROVE  r \in Procs /\ phase'[r] \notin {"free", "failed"}
    BY <1>2 DEF ProcsInv, ProcsOK, PointerOK
  <2> QED
    BY <1>2, <1>3, <1>d, <1>4, <2>1 DEF ProcsInv, ProcsOK
<1>6. PointerOK'
  BY <1>2, <1>3 DEF ProcsInv, PointerOK
<1>7. \A r \in Running' : dest'[r] = dest[r]
  BY <1>1, <1>3, <1>4 DEF ProcsInv, ProcsOK, Running, RunningIn
<1> QED
  BY <1>3, <1>4, <1>5, <1>6, <1>7 DEF ProcsInv, Told2End

\* stopObfsproxy: no proxy is there to be waited for, or every one is told to end.
LEMMA StopTells ==
  ASSUME ProcsInv, NEW r \in Requests, BeginStop(r), r.waits = Waits
  PROVE  /\ ProcsInv'
         /\ Running' \subseteq Running
         /\ Running' \ Told2End' \subseteq Running \ Told2End
         /\ Cleared'
         /\ \A q \in Running' : dest'[q] = dest[q]
<1>0. StopObfsproxy /\ request' = r /\ orphans' = orphans
  BY DEF BeginStop
<1>1. CASE Running = {}
  <2>1. UNCHANGED <<phase, dest, owner, doomed, dying>>
    BY <1>0, <1>1 DEF StopObfsproxy
  <2>2. Running' = {}
    BY <1>1, <2>1 DEF Running, RunningIn
  <2>3. ProcsInv'
    BY <1>0, <1>1, <2>1, <2>2 DEF ProcsInv, ProcsOK, PointerOK
  <2> QED
    BY <2>2, <2>3 DEF Cleared
<1>2. CASE Running # {} /\ owner # NoProc
  <2>1. /\ owner \in Procs /\ phase[owner] # "free" /\ owner \notin orphans
        /\ owner \notin doomed
    BY <1>2 DEF ProcsInv, ProcsOK, PointerOK
  <2>2. /\ phase' = [phase EXCEPT ![owner] = IF @ = "failed" THEN "free" ELSE "ended"]
        /\ doomed' = IF phase[owner] = "failed" THEN doomed ELSE doomed \cup {owner}
        /\ owner' = NoProc
        /\ dying' = dying \ {owner}
        /\ dest' = [dest EXCEPT ![owner] = Nowhere]
    BY <1>0, <1>2 DEF StopObfsproxy
  <2>3. /\ phase' \in [Procs -> Phases]
        /\ phase'[owner] = IF phase[owner] = "failed" THEN "free" ELSE "ended"
        /\ \A q \in Procs : q # owner => phase'[q] = phase[q]
    BY <2>1, <2>2 DEF ProcsInv, ProcsOK, Phases
  <2>d. /\ dest' \in [Procs -> Targets]
        /\ \A q \in Procs : q # owner => dest'[q] = dest[q]
    BY <2>2, TargetIsOne DEF Nowhere, ProcsInv, ProcsOK
  <2>4. Running' = Running \ {owner}
    <3>1. ASSUME NEW q PROVE q \in Running' <=> q \in Running /\ q # owner
      BY <2>1, <2>3 DEF Running, RunningIn
    <3> QED
      BY <3>1
  <2>5. ProcsOK'
    <3>1. ASSUME NEW q \in doomed'
          PROVE  q \in Procs /\ phase'[q] \notin {"free", "failed"}
      BY <2>1, <2>2, <2>3 DEF ProcsInv, ProcsOK
    <3> QED
      BY <1>0, <2>1, <2>2, <2>d, <2>3, <2>4, <3>1 DEF ProcsInv, ProcsOK
  <2>6. PointerOK'
    BY <1>0, <2>1, <2>2, ProxyAssumption DEF ProcsInv, PointerOK
  <2>7. r.waits
    BY <1>2 DEF Waits
  <2>8. Running' \ Told2End' \subseteq Running \ Told2End
    BY <2>2, <2>4 DEF Told2End
  <2>9. \A q \in Running' : dest'[q] = dest[q]
    BY <2>4, <2>d DEF Running, RunningIn
  <2> QED
    BY <1>0, <2>4, <2>5, <2>6, <2>7, <2>8, <2>9 DEF ProcsInv, Cleared
<1>3. CASE Running # {} /\ owner = NoProc
  <2>1. dying' = dying \cup Running /\ UNCHANGED <<phase, dest, owner, doomed>>
    BY <1>0, <1>3 DEF StopObfsproxy
  <2>2. Running' = Running
    BY <2>1 DEF Running, RunningIn
  <2>3. ProcsInv'
    BY <1>0, <2>1, <2>2 DEF ProcsInv, ProcsOK, PointerOK
  <2> QED
    BY <2>1, <2>2, <2>3 DEF Cleared, Told2End
<1> QED
  BY <1>1, <1>2, <1>3
-----------------------------------------------------------------------------
(* The steps of the manager and of the processes.                          *)

LEMMA ProxyInit == Init => ProxyInv
<1> SUFFICES ASSUME Init PROVE ProxyInv
  OBVIOUS
<1>1. Running = {}
  BY DEF Init, Running, RunningIn
<1>2. ManagerOK
  BY DEF Init, ManagerOK, States
<1>3. ProcsInv
  BY <1>1, ProxyAssumption, TargetIsOne DEF Nowhere, Init, ProcsInv, ProcsOK, PointerOK, Phases
<1>4. Cleared /\ RightProxy /\ AtMostOne
  BY <1>1 DEF Init, Cleared, RightProxy, AtMostOne
<1>5. Tried
  BY DEF Init, Tried
<1> QED
  BY <1>2, <1>3, <1>4, <1>5 DEF ProxyInv

LEMMA ManagerStep ==
  ASSUME ProxyInv, [Next]_vars
  PROVE  ManagerOK' /\ Tried'
<1> USE DEF ProxyInv, ManagerOK, Tried
<1>0. ManagerOK /\ Tried
  OBVIOUS
<1>1. CASE StopReturns
  BY <1>1 DEF StopReturns, States, historyVars
<1>2. CASE StartConnects
  BY <1>2, IdleIsNoRequest DEF StartConnects, WaitIsOver, States, Requests
<1>3. ASSUME NEW p \in Procs, Told(p) \/ Deleted(p) \/ Dies(p) \/ Binds(p) \/ BindFails(p)
      PROVE  ManagerOK' /\ Tried'
  <2>1. UNCHANGED <<managerVars, asked>>
    BY <1>3 DEF Told, Deleted, ObfsFinished, Dies, BindFails, Binds, Gone, historyVars
  <2> QED
    BY <1>0, <2>1 DEF managerVars
<1>4. CASE Stop
  BY <1>4 DEF Stop, BeginStop, historyVars, Requests, Waits
<1>5. ASSUME NEW h \in Hosts, NEW n \in Ports, NEW o \in BOOLEAN, Start(h, n, o)
      PROVE  ManagerOK' /\ Tried'
  BY <1>5, ProxyAssumption DEF Start, BeginStop, historyVars, Requests, Waits
<1>6. CASE StartAgain
  BY <1>6 DEF StartAgain, BeginStop, historyVars, Requests, Waits
<1>7. CASE Reconnect \/ BindFailed
  BY <1>7 DEF Reconnect, BindFailed, ConnectTo, States
<1>8. CASE StateMoves
  BY <1>8 DEF StateMoves, historyVars
<1>9. ASSUME NEW p \in Procs, Ends(p)
      PROVE  ManagerOK' /\ Tried'
  BY <1>9 DEF Ends, Gone, managerVars, historyVars
<1>10. CASE ServiceDies
  <2>1. state' = "Disconnected" /\ host' = NoHost /\ obfs' = FALSE /\ request' = Idle
    BY <1>10 DEF ServiceDies
  <2>2. port' = 0 /\ asked' = 0
    BY <1>10 DEF ServiceDies
  <2>3. port' \in Nat /\ asked' \in Nat /\ asked' <= port'
    BY <2>2
  <2>4. state' \in States /\ obfs' \in BOOLEAN
    BY <2>1 DEF States
  <2>5. host' \in Hosts \cup {NoHost} /\ request' \in Requests \cup {Idle}
    BY <2>1
  <2> QED
    BY <2>3, <2>4, <2>5
<1>11. CASE UNCHANGED vars
  BY <1>11 DEF vars, managerVars, historyVars
<1> HIDE DEF ProxyInv, ManagerOK, Tried
<1> QED
  BY <1>1, <1>2, <1>3, <1>4, <1>5, <1>6, <1>7, <1>8, <1>9, <1>10, <1>11
     DEF Next, EventLoop, Environment

\* The proxies are left alone.
LEMMA NothingHappens ==
  ASSUME ProxyInv, UNCHANGED <<processVars, objectVars, host, port, asked, doubled>>,
         request' = request \/ request' = Idle
  PROVE  ProcsInv' /\ Cleared' /\ RightProxy' /\ AtMostOne'
<1>1. /\ phase' = phase /\ dest' = dest /\ dying' = dying /\ orphans' = orphans
      /\ owner' = owner /\ doomed' = doomed /\ host' = host /\ port' = port
      /\ asked' = asked /\ doubled' = doubled
  BY DEF processVars, objectVars
<1>2. Running' = Running
  BY <1>1 DEF Running, RunningIn
<1>3. ProcsInv'
  BY <1>1, <1>2 DEF ProxyInv, ProcsInv, ProcsOK, PointerOK
<1>4. Cleared'
  BY <1>1, <1>2 DEF ProxyInv, Cleared
<1>5. RightProxy' /\ AtMostOne'
  BY <1>1, <1>2 DEF ProxyInv, RightProxy, Forwards, AtMostOne, Told2End
<1> QED
  BY <1>3, <1>4, <1>5

\* A slot that launches from the processes as they are.
LEMMA LaunchFromHere ==
  ASSUME ProxyInv, NEW h \in Hosts \cup {NoHost}, NEW n \in Nat, NEW o \in BOOLEAN,
         Launch(Target(h, n), o, phase, dest, owner),
         host' = h, port' = n, n \in asked'..n, request' = Idle,
         UNCHANGED <<doomed, dying, orphans>>,
         h # NoHost => \A r \in Running \ Told2End : Fits(dest[r], h, asked', n)
  PROVE  ProcsInv' /\ Cleared' /\ RightProxy' /\ AtMostOne'
<1> DEFINE t == Target(h, n)
<1>0. t \in Targets /\ t.host = h /\ t.port = n
  BY TargetIsOne
<1>1. /\ phase \in [Procs -> Phases] /\ dest \in [Procs -> Targets]
      /\ owner \in Procs \cup {NoProc} /\ owner \notin doomed'
      /\ doomed' \subseteq Procs
      /\ \A r \in doomed' : phase[r] \notin {"free", "failed"} /\ r \notin orphans'
      /\ owner \in Procs => phase[owner] # "free" /\ owner \notin orphans'
      /\ dying' \subseteq RunningIn(phase) /\ orphans' \subseteq RunningIn(phase)
  BY ProxyAssumption DEF ProxyInv, ProcsInv, ProcsOK, PointerOK, Running
<1>f. Fits(t, host', asked', port')
  BY <1>0 DEF Fits
<1> HIDE DEF t
<1>2. /\ SameProxy(phase, dest, owner) \/ NewProxy(t, phase, dest, owner)
      /\ phase' \in [Procs -> Phases]
      /\ dest' \in [Procs -> Targets]
  BY <1>0, <1>1, LaunchMakesOne DEF t
<1>3. ProcsInv'
  BY <1>1, <1>2, LaunchKeepsProcs
<1>4. doubled \/ \A p, q \in RunningIn(phase) : p = q
  BY DEF ProxyInv, AtMostOne, Running
<1>5. host' # NoHost => \A r \in RunningIn(phase) \ (doomed' \cup dying') :
                          Fits(dest[r], host', asked', port')
  BY DEF Running, Told2End
<1>6. RightProxy' /\ AtMostOne'
  BY <1>1, <1>2, <1>4, <1>5, <1>f, LaunchKeepsServer
<1> QED
  BY <1>3, <1>6 DEF Cleared

\* obfsFinished, whether it launches or not.
LEMMA FinishKeeps ==
  ASSUME ProxyInv, NEW p, Finishes(p)
  PROVE  ProcsInv' /\ Cleared' /\ RightProxy' /\ AtMostOne'
<1> DEFINE t == Target(host, port)
           ds == LeftDest(p)
<1>0. /\ ProcsInv /\ host \in Hosts \cup {NoHost} /\ obfs \in BOOLEAN
      /\ port \in Nat /\ asked \in Nat /\ asked <= port
  BY DEF ProxyInv, ManagerOK, Tried
<1>t. t \in Targets /\ t.host = host /\ t.port = port
  BY <1>0, TargetIsOne
<1>1. /\ Left(p) \in [Procs -> Phases]
      /\ doomed' \subseteq Procs
      /\ \A r \in doomed' : Left(p)[r] \notin {"free", "failed"} /\ r \notin orphans'
      /\ dying' \subseteq RunningIn(Left(p))
      /\ orphans' \subseteq RunningIn(Left(p))
      /\ RunningIn(Left(p)) \subseteq Running
      /\ RunningIn(Left(p)) \ (doomed' \cup dying') \subseteq Running \ Told2End
      /\ ds \in [Procs -> Targets]
      /\ \A r \in RunningIn(Left(p)) : ds[r] = dest[r]
  BY <1>0, LeftOver
<1>d. dest' = ds \/ state = "Connecting"
  BY DEF Finishes, ObfsFinished, LeftDest
<1>l. state = "Connecting" => Launch(t, obfs, Left(p), ds, NoProc)
  BY DEF Finishes, ObfsFinished, Left, Dropped, LeftDest
<1> HIDE DEF t, ds
<1>2. /\ SameProxy(Left(p), ds, NoProc) \/ NewProxy(t, Left(p), ds, NoProc)
      /\ phase' \in [Procs -> Phases]
      /\ dest' \in [Procs -> Targets]
  <2>1. CASE state = "Connecting"
    BY <1>0, <1>1, <1>t, <1>l, <2>1, LaunchMakesOne
  <2>2. CASE state # "Connecting"
    <3>1. phase' = Left(p) /\ owner' = NoProc /\ dest' = ds /\ doubled' = doubled
      BY <1>d, <2>2 DEF Finishes, ObfsFinished, Left, Dropped
    <3> QED
      BY <1>0, <1>1, <3>1 DEF SameProxy
  <2> QED
    BY <2>1, <2>2
<1>3. NoProc \notin Procs /\ NoProc \notin doomed'
  BY <1>1, ProxyAssumption
<1>4. ProcsInv'
  BY <1>0, <1>1, <1>2, <1>3, LaunchKeepsProcs
<1>5. host' = host /\ port' = port /\ asked' = asked /\ request' = Idle
  BY DEF Finishes, ObfsFinished, managerVars
<1>f. Fits(t, host', asked', port')
  BY <1>0, <1>t, <1>5 DEF Fits
<1>6. host' # NoHost => \A r \in RunningIn(Left(p)) \ (doomed' \cup dying') :
                          Fits(ds[r], host', asked', port')
  BY <1>1, <1>5, ForwardsFits DEF ProxyInv, RightProxy
<1>7. doubled \/ \A q, r \in RunningIn(Left(p)) : q = r
  BY <1>1 DEF ProxyInv, AtMostOne
<1>8. RightProxy' /\ AtMostOne'
  BY <1>1, <1>2, <1>f, <1>6, <1>7, LaunchKeepsServer
<1> QED
  BY <1>4, <1>5, <1>8 DEF Cleared

\* A process that is gone.
LEMMA GoneKeeps ==
  ASSUME ProxyInv, NEW p \in Running, Gone(p)
  PROVE  ProcsInv' /\ Cleared' /\ RightProxy' /\ AtMostOne'
<1>1. /\ ProcsInv'
      /\ Running' = Running \ {p}
      /\ Running' \ Told2End' \subseteq Running \ Told2End
      /\ \A r \in Running' : dest'[r] = dest[r]
  BY GoneIsMissed DEF ProxyInv
<1>2. host' = host /\ request' = request /\ port' = port /\ asked' = asked /\ doubled' = doubled
      /\ dying' = dying \ {p}
  BY DEF Gone, managerVars, historyVars
<1>3. Cleared'
  BY <1>1, <1>2 DEF ProxyInv, Cleared
<1>4. RightProxy' /\ AtMostOne'
  BY <1>1, <1>2 DEF ProxyInv, RightProxy, Forwards, AtMostOne
<1> QED
  BY <1>1, <1>3, <1>4

\* A stop begins.
LEMMA StopKeeps ==
  ASSUME ProxyInv, NEW r \in Requests, BeginStop(r), r.waits = Waits
  PROVE  ProcsInv' /\ Cleared' /\ RightProxy' /\ AtMostOne'
<1>1. /\ ProcsInv' /\ Cleared'
      /\ Running' \subseteq Running
      /\ Running' \ Told2End' \subseteq Running \ Told2End
      /\ \A q \in Running' : dest'[q] = dest[q]
  BY StopTells DEF ProxyInv
<1>2. host' = host /\ port' = port /\ asked' = asked /\ doubled' = doubled
  BY DEF BeginStop, historyVars
<1>3. RightProxy' /\ AtMostOne'
  BY <1>1, <1>2 DEF ProxyInv, RightProxy, Forwards, AtMostOne
<1> QED
  BY <1>1, <1>3

\* A proxy that listens goes on running.
LEMMA BindsKeeps ==
  ASSUME ProxyInv, NEW p \in Procs, Binds(p)
  PROVE  ProcsInv' /\ Cleared' /\ RightProxy' /\ AtMostOne'
<1>1. /\ phase[p] = "starting" /\ phase' = [phase EXCEPT ![p] = "listening"]
      /\ phase \in [Procs -> Phases]
      /\ dest' = dest /\ dying' = dying /\ orphans' = orphans /\ owner' = owner
      /\ doomed' = doomed /\ host' = host /\ port' = port /\ asked' = asked
      /\ request' = request /\ doubled' = doubled
  BY DEF Binds, managerVars, objectVars, historyVars, ProxyInv, ProcsInv, ProcsOK
<1>2. phase' \in [Procs -> Phases]
  BY <1>1 DEF Phases
<1>3. \A r \in Procs : phase'[r] = phase[r] \/ (phase'[r] = "listening" /\ phase[r] = "starting")
  BY <1>1
<1>4. Running' = Running
  <2>1. ASSUME NEW r PROVE r \in Running' <=> r \in Running
    BY <1>3 DEF Running, RunningIn
  <2> QED
    BY <2>1
<1>5. ProcsOK'
  <2>1. ASSUME NEW r \in doomed
        PROVE  r \in Procs /\ phase'[r] \notin {"free", "failed"}
    BY <1>3 DEF ProxyInv, ProcsInv, ProcsOK
  <2> QED
    BY <1>1, <1>2, <1>4, <2>1 DEF ProxyInv, ProcsInv, ProcsOK
<1>6. PointerOK'
  BY <1>1, <1>3 DEF ProxyInv, ProcsInv, PointerOK
<1>7. Cleared' /\ RightProxy' /\ AtMostOne'
  BY <1>1, <1>4 DEF ProxyInv, Cleared, RightProxy, Forwards, AtMostOne, Told2End
<1> QED
  BY <1>5, <1>6, <1>7 DEF ProcsInv

\* After its death the service knows of no server, and of no proxy.
LEMMA DeathKeeps ==
  ASSUME ProxyInv, ServiceDies
  PROVE  ProcsInv' /\ Cleared' /\ RightProxy' /\ AtMostOne'
<1>1. /\ host' = NoHost /\ request' = Idle /\ owner' = NoProc /\ doomed' = {}
      /\ orphans' = Running /\ dest' = dest /\ dying' = dying /\ doubled' = doubled
      /\ phase' = [p \in Procs |-> IF p \in Running THEN phase[p] ELSE "free"]
  BY DEF ServiceDies
<1>2. Running' = Running
  <2>1. ASSUME NEW r PROVE r \in Running' <=> r \in Running
    BY <1>1 DEF Running, RunningIn
  <2> QED
    BY <2>1
<1>3. phase' \in [Procs -> Phases]
  BY <1>1 DEF ProxyInv, ProcsInv, ProcsOK, Phases
<1>4. ProcsInv'
  BY <1>1, <1>2, <1>3, ProxyAssumption DEF ProxyInv, ProcsInv, ProcsOK, PointerOK
<1>5. Cleared' /\ RightProxy' /\ AtMostOne'
  BY <1>1, <1>2 DEF ProxyInv, Cleared, RightProxy, AtMostOne
<1> QED
  BY <1>4, <1>5

LEMMA ProxyStep == ProxyInv /\ [Next]_vars => ProxyInv'
<1> SUFFICES ASSUME ProxyInv, [Next]_vars
             PROVE  ProcsInv' /\ Cleared' /\ RightProxy' /\ AtMostOne'
  BY ManagerStep DEF ProxyInv
<1> DEFINE Kept == ProcsInv' /\ Cleared' /\ RightProxy' /\ AtMostOne'
<1>0. ManagerOK /\ ProcsInv
  BY DEF ProxyInv
<1>1. CASE StopReturns
  BY <1>1, NothingHappens DEF StopReturns, historyVars
<1>2. CASE StartConnects
  <2>1. request \in Requests /\ request.op = "start" /\ WaitIsOver
    BY <1>0, <1>2 DEF StartConnects, WaitIsOver, ManagerOK
  <2>2. request.host \in Hosts \cup {NoHost} /\ request.port \in Nat
        /\ request.obfs \in BOOLEAN
    BY <2>1 DEF Requests
  <2>3. request # Idle /\ request.waits \in BOOLEAN
    BY <2>1, IdleIsNoRequest
  <2>4. Running \subseteq dying
    BY <2>1, <2>3 DEF ProxyInv, Cleared, WaitIsOver
  <2>5. /\ Launch(Target(request.host, request.port), request.obfs, phase, dest, owner)
        /\ host' = request.host /\ port' = request.port /\ asked' = request.port /\ request' = Idle
        /\ UNCHANGED <<doomed, dying, orphans>>
    BY <1>2 DEF StartConnects
  <2> QED
    BY <2>2, <2>4, <2>5, LaunchFromHere DEF Told2End
<1>3. ASSUME NEW p \in Procs, Told(p) \/ Deleted(p)
      PROVE  Kept
  BY <1>0, <1>3, ToldFinishes, FinishKeeps
<1>4. ASSUME NEW p \in Procs, Dies(p) \/ BindFails(p) \/ Ends(p)
      PROVE  Kept
  <2>1. p \in Running /\ Gone(p)
    BY <1>0, <1>4 DEF Dies, BindFails, Ends, ProcsInv, ProcsOK, Running, RunningIn
  <2> QED
    BY <2>1, GoneKeeps
<1>5. ASSUME NEW p \in Procs, Binds(p)
      PROVE  Kept
  BY <1>5, BindsKeeps
<1>6. CASE Stop
  <2> DEFINE r == [op |-> "stop", waits |-> Waits]
  <2>1. r \in Requests /\ r.waits = Waits
    BY DEF Requests, Waits
  <2>2. BeginStop(r)
    BY <1>6 DEF Stop
  <2> QED
    BY <2>1, <2>2, StopKeeps
<1>7. ASSUME NEW h \in Hosts \cup {NoHost}, NEW n \in Nat, NEW o \in BOOLEAN,
             BeginStop([op |-> "start", waits |-> Waits, host |-> h, port |-> n,
                        obfs |-> o])
      PROVE  Kept
  <2> DEFINE r == [op |-> "start", waits |-> Waits, host |-> h, port |-> n,
                        obfs |-> o]
  <2>1. r \in Requests /\ r.waits = Waits
    BY DEF Requests, Waits
  <2> QED
    BY <1>7, <2>1, StopKeeps
<1>8. ASSUME NEW h \in Hosts, NEW n \in Ports, NEW o \in BOOLEAN, Start(h, n, o)
      PROVE  Kept
  BY <1>7, <1>8, ProxyAssumption DEF Start
<1>9. CASE StartAgain
  BY <1>0, <1>7, <1>9 DEF StartAgain, ManagerOK
<1>10. CASE Reconnect \/ BindFailed
  <2>1. PICK n \in {port, port + 1} : ConnectTo(n)
    BY <1>10 DEF Reconnect, BindFailed
  <2>2. /\ Launch(Target(host, n), obfs, phase, dest, owner)
        /\ host' = host /\ port' = n /\ asked' = asked /\ request' = Idle
        /\ UNCHANGED <<doomed, dying, orphans>>
    BY <2>1 DEF ConnectTo
  <2>3. port \in Nat /\ asked \in Nat /\ asked <= port
    BY DEF ProxyInv, ManagerOK, Tried
  <2>4. n \in Nat /\ n \in asked'..n /\ asked..port \subseteq asked'..n
    BY <2>2, <2>3
  <2>5. host # NoHost => \A r \in Running \ Told2End : Fits(dest[r], host, asked', n)
    BY <2>4 DEF ProxyInv, RightProxy, Forwards, Fits
  <2> QED
    BY <1>0, <2>2, <2>4, <2>5, LaunchFromHere DEF ManagerOK
<1>11. CASE StateMoves
  BY <1>11, NothingHappens DEF StateMoves, historyVars
<1>12. CASE ServiceDies
  BY <1>12, DeathKeeps
<1>13. CASE UNCHANGED vars
  BY <1>13, NothingHappens DEF vars, managerVars, historyVars
<1> QED
  BY <1>1, <1>2, <1>3, <1>4, <1>5, <1>6, <1>8, <1>9, <1>10, <1>11, <1>12, <1>13
     DEF Next, EventLoop, Environment

-----------------------------------------------------------------------------
(* The proxy that is waited for, and the one that is to come.              *)

\* The process of mObfsproxy is the only one that runs: a launch finds none, and what runs
\* when the pointer is let go of keeps the next launch from starting another.
OwnerRuns == doubled \/ (owner # NoProc => Running \subseteq {owner})

\* For the same reason, a service that has launched a proxy found no orphan.
NoOrphans == owner # NoProc => orphans = {}

\* A connection that wants a proxy knows the server it is for.
HostKnown ==
    /\ obfs => host # NoHost
    /\ request # Idle /\ request.op = "start" => (request.obfs => request.host # NoHost)

OwnerInv == OwnerRuns /\ NoOrphans

NewsInv == OwnerInv /\ HostKnown /\ WaitsForNone /\ ProxyOrNews

\* What a launch makes of it, from processes ph that mObfsproxy = own is right about.
LEMMA LaunchIsNews ==
  ASSUME NEW t \in Targets, NEW o \in BOOLEAN,
         NEW ph \in [Procs -> Phases], NEW ds \in [Procs -> Targets], NEW own,
         Launch(t, o, ph, ds, own),
         obfs' = o, host' = t.host, request' = Idle, orphans' = orphans,
         o => t.host # NoHost,
         orphans \subseteq RunningIn(ph),
         own # NoProc => orphans = {},
         doubled \/ (own # NoProc => RunningIn(ph) \subseteq {own})
  PROVE  NewsInv'
<1>1. /\ SameProxy(ph, ds, own) \/ NewProxy(t, ph, ds, own)
      /\ o /\ t.host # NoHost /\ RunningIn(ph) = {} => NewProxy(t, ph, ds, own)
  BY LaunchMakesOne
<1>2. Running' = RunningIn(phase')
  BY DEF Running, RunningIn
<1>3. HostKnown' /\ WaitsForNone'
  BY DEF HostKnown, WaitsForNone
<1>4. CASE NewProxy(t, ph, ds, own)
  <2>1. /\ orphans' = {}
        /\ owner' \in Procs /\ phase'[owner'] \in {"starting", "failed"}
        /\ \A r \in Running' : r = owner' \/ doubled'
    BY <1>2, <1>4 DEF NewProxy, Launched
  <2>2. OwnerInv'
    BY <2>1 DEF OwnerInv, OwnerRuns, NoOrphans
  <2>3. CASE phase'[owner'] = "starting"
    <3>1. owner' \in Running' \ orphans'
      BY <2>1, <2>3 DEF Running, RunningIn
    <3> QED
      BY <1>3, <2>2, <3>1 DEF NewsInv, ProxyOrNews
  <2>4. CASE phase'[owner'] = "failed"
    BY <1>3, <2>1, <2>2, <2>4 DEF NewsInv, ProxyOrNews, Unexecutable
  <2> QED
    BY <2>1, <2>3, <2>4
<1>5. CASE SameProxy(ph, ds, own) /\ ~NewProxy(t, ph, ds, own)
  <2>1. phase' = ph /\ owner' = own /\ doubled' = doubled
    BY <1>5 DEF SameProxy
  <2>2. Running' = RunningIn(ph)
    BY <1>2, <2>1
  <2>3. OwnerInv'
    BY <2>1, <2>2 DEF OwnerInv, OwnerRuns, NoOrphans
  <2>4. ASSUME o
        PROVE  relied' \/ Running' \ orphans' # {}
    <3>1. RunningIn(ph) # {}
      BY <1>1, <1>5, <2>4
    <3>2. relied' = (RunningIn(ph) \cap orphans # {})
      BY <2>4, <3>1 DEF Launch
    <3>3. CASE RunningIn(ph) \cap orphans # {}
      BY <3>2, <3>3
    <3>4. CASE RunningIn(ph) \cap orphans = {}
      BY <2>2, <3>1, <3>4
    <3> QED
      BY <3>3, <3>4
  <2>5. ProxyOrNews'
    BY <2>4 DEF ProxyOrNews
  <2> QED
    BY <1>3, <2>3, <2>5 DEF NewsInv
<1> QED
  BY <1>1, <1>4, <1>5

LEMMA NewsInit == Init => NewsInv
<1> SUFFICES ASSUME Init PROVE NewsInv
  OBVIOUS
<1>1. ~obfs /\ request = Idle /\ owner = NoProc
  BY DEF Init
<1> QED
  BY <1>1
     DEF NewsInv, OwnerInv, OwnerRuns, NoOrphans, HostKnown, WaitsForNone, ProxyOrNews, Idle

\* The proxies are left alone, and at most a request ends.
LEMMA NothingIsNews ==
  ASSUME NewsInv, UNCHANGED <<processVars, objectVars, historyVars, host, obfs>>,
         request' = request \/ request' = Idle
  PROVE  NewsInv'
<1>1. /\ phase' = phase /\ orphans' = orphans /\ owner' = owner /\ host' = host
      /\ obfs' = obfs /\ doubled' = doubled /\ relied' = relied /\ lapsed' = lapsed
  BY DEF processVars, objectVars, historyVars
<1>2. Running' = Running
  BY <1>1 DEF Running, RunningIn
<1>3. HostKnown' /\ WaitsForNone'
  BY <1>1, <1>2 DEF NewsInv, HostKnown, WaitsForNone
<1>4. OwnerInv' /\ ProxyOrNews'
  BY <1>1, <1>2 DEF NewsInv, OwnerInv, OwnerRuns, NoOrphans, ProxyOrNews, Unexecutable
<1> QED
  BY <1>3, <1>4 DEF NewsInv

\* obfsFinished launches the next proxy, or notes that nobody wants one.
LEMMA FinishIsNews ==
  ASSUME ProxyInv, NewsInv, NEW p, Finishes(p)
  PROVE  NewsInv'
<1>1. /\ Left(p) \in [Procs -> Phases]
      /\ orphans' \subseteq RunningIn(Left(p))
      /\ LeftDest(p) \in [Procs -> Targets]
  BY LeftOver DEF ProxyInv
<1>2. /\ obfs' = obfs /\ host' = host /\ request' = Idle /\ orphans' = orphans
      /\ obfs => host # NoHost
  BY DEF Finishes, ObfsFinished, managerVars, NewsInv, HostKnown
<1>3. CASE state = "Connecting"
  <2>1. Launch(Target(host, port), obfs, Left(p), LeftDest(p), NoProc)
    BY <1>3 DEF Finishes, ObfsFinished, Left, Dropped, LeftDest
  <2>2. host \in Hosts \cup {NoHost} /\ port \in Nat /\ obfs \in BOOLEAN
    BY DEF ProxyInv, ManagerOK
  <2>3. Target(host, port) \in Targets /\ Target(host, port).host = host
    BY <2>2, TargetIsOne
  <2> QED
    BY <1>1, <1>2, <2>1, <2>2, <2>3, LaunchIsNews
<1>4. CASE state # "Connecting"
  <2>1. owner' = NoProc /\ lapsed' = TRUE
    BY <1>4 DEF Finishes, ObfsFinished
  <2> QED
    BY <1>2, <2>1
    DEF NewsInv, OwnerInv, OwnerRuns, NoOrphans, HostKnown, WaitsForNone, ProxyOrNews
<1> QED
  BY <1>3, <1>4

\* The end of a process of this service is still to be told; an orphan was none that
\* counts.
LEMMA GoneIsNews ==
  ASSUME ProxyInv, NewsInv, NEW p \in Running, Gone(p)
  PROVE  NewsInv'
<1>1. Running' = Running \ {p}
  BY GoneIsMissed DEF ProxyInv
<1>2. p \in Procs /\ phase[p] \in {"starting", "listening"} /\ phase \in [Procs -> Phases]
  BY DEF Running, RunningIn, ProxyInv, ProcsInv, ProcsOK
<1>3. /\ phase'[p] = (IF p \in orphans THEN "free" ELSE "ended")
      /\ \A r \in Procs : r # p => phase'[r] = phase[r]
      /\ orphans' = orphans \ {p}
      /\ obfs' = obfs /\ host' = host /\ request' = request /\ owner' = owner
      /\ doubled' = doubled /\ relied' = relied /\ lapsed' = lapsed
  BY <1>2 DEF Gone, managerVars, objectVars, historyVars
<1>4. HostKnown' /\ WaitsForNone'
  BY <1>1, <1>3 DEF NewsInv, HostKnown, WaitsForNone
<1>5. OwnerInv'
  BY <1>1, <1>3 DEF NewsInv, OwnerInv, OwnerRuns, NoOrphans
<1>6. ProxyOrNews'
  <2>1. CASE p \notin orphans
    BY <1>2, <1>3, <2>1 DEF ProxyOrNews
  <2>2. CASE p \in orphans
    <3>1. Running' \ orphans' = Running \ orphans
      BY <1>1, <1>3, <2>2
    <3>2. (\E r \in Procs : phase[r] = "ended") => \E r \in Procs : phase'[r] = "ended"
      BY <1>2, <1>3
    <3>3. Unexecutable => Unexecutable'
      BY <1>2, <1>3 DEF Unexecutable
    <3> QED
      BY <1>3, <3>1, <3>2, <3>3 DEF NewsInv, ProxyOrNews
  <2> QED
    BY <2>1, <2>2
<1> QED
  BY <1>4, <1>5, <1>6 DEF NewsInv

\* A stop that waits has killed the one proxy that ran; its end is the news.
LEMMA StopIsNews ==
  ASSUME ProxyInv, NewsInv, NEW r \in Requests, BeginStop(r), r.waits = Waits,
         r.op = "start" => (r.obfs => r.host # NoHost)
  PROVE  NewsInv'
<1>1. /\ StopObfsproxy /\ request' = r /\ orphans' = orphans
      /\ obfs' = obfs /\ host' = host
      /\ doubled' = doubled /\ relied' = relied /\ lapsed' = lapsed
  BY DEF BeginStop, historyVars
<1>2. Running' \subseteq Running
  BY StopTells DEF ProxyInv
<1>3. HostKnown'
  BY <1>1 DEF NewsInv, HostKnown
<1>4. CASE Running = {}
  <2>1. UNCHANGED <<phase, owner>>
    BY <1>1, <1>4 DEF StopObfsproxy
  <2>2. Running' = {}
    BY <1>2, <1>4
  <2>3. WaitsForNone' /\ OwnerInv'
    BY <1>1, <2>1, <2>2 DEF NewsInv, OwnerInv, OwnerRuns, NoOrphans, WaitsForNone
  <2>4. ProxyOrNews'
    BY <1>1, <1>4, <2>1 DEF NewsInv, ProxyOrNews, Unexecutable
  <2> QED
    BY <1>3, <2>3, <2>4 DEF NewsInv
<1>5. CASE Running # {} /\ owner # NoProc
  <2>1. owner \in Procs /\ phase \in [Procs -> Phases] /\ orphans = {}
    BY <1>5 DEF ProxyInv, ProcsInv, ProcsOK, NewsInv, OwnerInv, NoOrphans
  <2>2. /\ phase' = [phase EXCEPT ![owner] = IF @ = "failed" THEN "free" ELSE "ended"]
        /\ owner' = NoProc
    BY <1>1, <1>5 DEF StopObfsproxy
  <2>3. OwnerInv'
    BY <2>2 DEF OwnerInv, OwnerRuns, NoOrphans
  <2>4. owner \notin Running'
    BY <2>1, <2>2 DEF Running, RunningIn
  <2>5. WaitsForNone'
    BY <1>1, <1>2, <1>5, <2>4 DEF NewsInv, OwnerInv, OwnerRuns, WaitsForNone
  <2>6. CASE phase[owner] = "failed"
    <3>1. PICK q \in Running : TRUE
      BY <1>5
    <3>2. q \in Procs /\ q # owner /\ phase'[q] = phase[q]
      BY <2>1, <2>2, <2>6, <3>1 DEF Running, RunningIn
    <3>3. q \in Running' \ orphans'
      BY <1>1, <2>1, <3>1, <3>2 DEF Running, RunningIn
    <3> QED
      BY <1>3, <2>3, <2>5, <3>3 DEF NewsInv, ProxyOrNews
  <2>7. CASE phase[owner] # "failed"
    <3>1. phase'[owner] = "ended"
      BY <2>1, <2>2, <2>7
    <3> QED
      BY <1>3, <2>1, <2>3, <2>5, <3>1 DEF NewsInv, ProxyOrNews
  <2> QED
    BY <2>6, <2>7
<1>6. CASE Running # {} /\ owner = NoProc
  <2>1. UNCHANGED <<phase, owner>>
    BY <1>1, <1>6 DEF StopObfsproxy
  <2>2. Running' = Running
    BY <2>1 DEF Running, RunningIn
  <2>3. ~Waits
    BY <1>6 DEF Waits
  <2>4. WaitsForNone' /\ OwnerInv'
    BY <1>1, <1>6, <2>1, <2>3 DEF OwnerInv, OwnerRuns, NoOrphans, WaitsForNone
  <2>5. ProxyOrNews'
    BY <1>1, <2>1, <2>2 DEF NewsInv, ProxyOrNews, Unexecutable
  <2> QED
    BY <1>3, <2>4, <2>5 DEF NewsInv
<1> QED
  BY <1>4, <1>5, <1>6

\* A proxy that listens goes on running.
LEMMA BindsIsNoNews ==
  ASSUME ProxyInv, NewsInv, NEW p \in Procs, Binds(p)
  PROVE  NewsInv'
<1>1. /\ phase[p] = "starting" /\ phase' = [phase EXCEPT ![p] = "listening"]
      /\ phase \in [Procs -> Phases]
      /\ orphans' = orphans /\ owner' = owner /\ host' = host /\ request' = request
      /\ obfs' = obfs /\ doubled' = doubled /\ relied' = relied /\ lapsed' = lapsed
  BY DEF Binds, managerVars, objectVars, historyVars, ProxyInv, ProcsInv, ProcsOK
<1>2. \A r \in Procs : phase'[r] = phase[r] \/ (phase'[r] = "listening" /\ phase[r] = "starting")
  BY <1>1
<1>3. Running' = Running
  <2>1. ASSUME NEW r PROVE r \in Running' <=> r \in Running
    BY <1>2 DEF Running, RunningIn
  <2> QED
    BY <2>1
<1>4. HostKnown' /\ WaitsForNone' /\ OwnerInv'
  BY <1>1, <1>3 DEF NewsInv, HostKnown, WaitsForNone, OwnerInv, OwnerRuns, NoOrphans
<1>5. (\E r \in Procs : phase[r] = "ended") => \E r \in Procs : phase'[r] = "ended"
  BY <1>2
<1>6. Unexecutable => Unexecutable'
  BY <1>1, <1>2 DEF Unexecutable
<1>7. ProxyOrNews'
  BY <1>1, <1>3, <1>5, <1>6 DEF NewsInv, ProxyOrNews
<1> QED
  BY <1>4, <1>7 DEF NewsInv

LEMMA NewsStep == ProxyInv /\ NewsInv /\ [Next]_vars => NewsInv'
<1> SUFFICES ASSUME ProxyInv, NewsInv, [Next]_vars PROVE NewsInv'
  OBVIOUS
<1>0. ManagerOK /\ ProcsInv /\ HostKnown /\ OwnerInv
  BY DEF ProxyInv, NewsInv
<1>a. ASSUME NEW h \in Hosts \cup {NoHost}, NEW n \in Nat, NEW o \in BOOLEAN,
             Launch(Target(h, n), o, phase, dest, owner), o => h # NoHost,
             obfs' = o, host' = h, request' = Idle, orphans' = orphans
      PROVE  NewsInv'
  <2>1. /\ phase \in [Procs -> Phases] /\ dest \in [Procs -> Targets]
        /\ orphans \subseteq RunningIn(phase)
        /\ owner # NoProc => orphans = {}
        /\ doubled \/ (owner # NoProc => RunningIn(phase) \subseteq {owner})
    BY <1>0 DEF ProcsInv, ProcsOK, OwnerInv, OwnerRuns, NoOrphans, Running
  <2>2. Target(h, n) \in Targets /\ Target(h, n).host = h
    BY TargetIsOne
  <2> QED
    BY <1>a, <2>1, <2>2, LaunchIsNews
<1>1. CASE StopReturns
  BY <1>1, NothingIsNews DEF StopReturns
<1>2. CASE StartConnects
  <2>1. request \in Requests /\ request # Idle /\ request.op = "start"
    BY <1>0, <1>2 DEF StartConnects, WaitIsOver, ManagerOK
  <2>2. /\ request.host \in Hosts \cup {NoHost} /\ request.port \in Nat
        /\ request.obfs \in BOOLEAN
        /\ request.obfs => request.host # NoHost
    BY <1>0, <2>1 DEF Requests, HostKnown
  <2> QED
    BY <1>2, <1>a, <2>2 DEF StartConnects
<1>3. ASSUME NEW p \in Procs, Told(p) \/ Deleted(p)
      PROVE  NewsInv'
  BY <1>0, <1>3, ToldFinishes, FinishIsNews
<1>4. ASSUME NEW p \in Procs, Dies(p) \/ BindFails(p) \/ Ends(p)
      PROVE  NewsInv'
  <2>1. p \in Running /\ Gone(p)
    BY <1>0, <1>4 DEF Dies, BindFails, Ends, ProcsInv, ProcsOK, Running, RunningIn
  <2> QED
    BY <2>1, GoneIsNews
<1>5. ASSUME NEW p \in Procs, Binds(p)
      PROVE  NewsInv'
  BY <1>5, BindsIsNoNews
<1>6. CASE Stop
  <2> DEFINE r == [op |-> "stop", waits |-> Waits]
  <2>1. r \in Requests /\ r.waits = Waits /\ r.op # "start"
    BY DEF Requests, Waits
  <2>2. BeginStop(r)
    BY <1>6 DEF Stop
  <2> QED
    BY <2>1, <2>2, StopIsNews
<1>7. ASSUME NEW h \in Hosts \cup {NoHost}, NEW n \in Nat, NEW o \in BOOLEAN, o => h # NoHost,
             BeginStop([op |-> "start", waits |-> Waits, host |-> h, port |-> n,
                        obfs |-> o])
      PROVE  NewsInv'
  <2> DEFINE r == [op |-> "start", waits |-> Waits, host |-> h, port |-> n,
                        obfs |-> o]
  <2>1. r \in Requests /\ r.waits = Waits /\ r.obfs = o /\ r.host = h
    BY DEF Requests, Waits
  <2> QED
    BY <1>7, <2>1, StopIsNews
<1>8. ASSUME NEW h \in Hosts, NEW n \in Ports, NEW o \in BOOLEAN, Start(h, n, o)
      PROVE  NewsInv'
  BY <1>7, <1>8, ProxyAssumption DEF Start
<1>9. CASE StartAgain
  BY <1>0, <1>7, <1>9 DEF StartAgain, ManagerOK, HostKnown
<1>10. CASE Reconnect \/ BindFailed
  <2>1. PICK n \in {port, port + 1} : ConnectTo(n)
    BY <1>10 DEF Reconnect, BindFailed
  <2>2. n \in Nat
    BY <1>0 DEF ManagerOK
  <2> QED
    BY <1>0, <1>a, <2>1, <2>2 DEF ConnectTo, ManagerOK, HostKnown
<1>11. CASE StateMoves
  BY <1>11, NothingIsNews DEF StateMoves
<1>12. CASE ServiceDies
  BY <1>12 DEF ServiceDies, NewsInv, OwnerInv, OwnerRuns, NoOrphans, HostKnown, WaitsForNone,
               ProxyOrNews
<1>13. CASE UNCHANGED vars
  BY <1>13, NothingIsNews DEF vars, managerVars
<1> QED
  BY <1>1, <1>2, <1>3, <1>4, <1>5, <1>6, <1>8, <1>9, <1>10, <1>11, <1>12, <1>13
     DEF Next, EventLoop, Environment

-----------------------------------------------------------------------------
(* The theorems.                                                           *)

LEMMA ProxyAlways == Spec => []ProxyInv
  BY ProxyInit, ProxyStep, PTL DEF Spec

\* A launch notes what it has done.
LEMMA LaunchFlags ==
  ASSUME FlagsOK, NEW t, NEW o \in BOOLEAN, NEW ph, NEW ds, NEW own,
         Launch(t, o, ph, ds, own)
  PROVE  FlagsOK'
<1>1. doubled' \in BOOLEAN
  BY DEF Launch, LaunchOne, LaunchTwo, FlagsOK
<1>2. relied' \in BOOLEAN /\ lapsed' \in BOOLEAN
  BY DEF Launch, FlagsOK
<1> QED
  BY <1>1, <1>2 DEF FlagsOK

LEMMA FlagsStep ==
  ASSUME FlagsOK, ManagerOK, [Next]_vars
  PROVE  FlagsOK'
<1>1. CASE UNCHANGED <<doubled, relied, lapsed>>
  BY <1>1 DEF FlagsOK
<1>2. ASSUME NEW t, NEW o \in BOOLEAN, NEW ph, NEW ds, NEW own,
         Launch(t, o, ph, ds, own)
      PROVE  FlagsOK'
  BY <1>2, LaunchFlags
<1>3. CASE StartConnects
  <2>1. request \in Requests /\ request.op = "start"
    BY <1>3 DEF StartConnects, WaitIsOver, ManagerOK
  <2>2. request.obfs \in BOOLEAN
    BY <2>1 DEF Requests
  <2> QED
    BY <1>2, <1>3, <2>2 DEF StartConnects
<1>4. CASE Reconnect \/ BindFailed
  BY <1>2, <1>4 DEF Reconnect, BindFailed, ConnectTo, ManagerOK
<1>5. ASSUME NEW p \in Procs, ObfsFinished(p)
      PROVE  FlagsOK'
  <2>1. CASE state = "Connecting"
    BY <1>2, <1>5, <2>1 DEF ObfsFinished, ManagerOK
  <2>2. CASE state # "Connecting"
    BY <1>5, <2>2 DEF ObfsFinished, FlagsOK
  <2> QED
    BY <2>1, <2>2
<1>6. CASE ServiceDies
  BY <1>6 DEF ServiceDies, FlagsOK
<1>7. ASSUME NEW p \in Procs, Dies(p) \/ Binds(p) \/ BindFails(p) \/ Ends(p)
      PROVE  FlagsOK'
  BY <1>1, <1>7 DEF Dies, Binds, BindFails, Ends, Gone, historyVars
<1>8. CASE Stop \/ StartAgain \/ \E h \in Hosts, n \in Ports, o \in BOOLEAN : Start(h, n, o)
  BY <1>1, <1>8 DEF Stop, StartAgain, Start, BeginStop, historyVars
<1>9. CASE StopReturns \/ StateMoves \/ UNCHANGED vars
  BY <1>1, <1>9 DEF StopReturns, StateMoves, vars, historyVars
<1> QED
  BY <1>3, <1>4, <1>5, <1>6, <1>7, <1>8, <1>9
     DEF Next, EventLoop, Environment, Told, Deleted

\* A counter goes up by one while it is below its bound.
LEMMA CountersStep ==
  ASSUME CountersOK, [Next]_vars
  PROVE  CountersOK'
<1> DEFINE Counted ==
      /\ starts' = starts \/ (starts < MaxStarts /\ starts' = starts + 1)
      /\ ends' = ends \/ (ends < MaxEnds /\ ends' = ends + 1)
      /\ crashes' = crashes \/ (crashes < MaxCrashes /\ crashes' = crashes + 1)
<1>1. ASSUME Stop \/ StartAgain \/ \E h \in Hosts, n \in Ports, o \in BOOLEAN : Start(h, n, o)
      PROVE  Counted
  BY <1>1 DEF Stop, StartAgain, Start, BeginStop
<1>2. ASSUME Reconnect \/ BindFailed \/ StateMoves \/ StopReturns \/ StartConnects \/ UNCHANGED vars
      PROVE  Counted
  BY <1>2 DEF Reconnect, BindFailed, ConnectTo, StateMoves, StopReturns, StartConnects, vars, counters
<1>3. ASSUME NEW p \in Procs,
             Told(p) \/ Deleted(p) \/ Dies(p) \/ Binds(p) \/ BindFails(p) \/ Ends(p)
      PROVE  Counted
  BY <1>3 DEF Told, Deleted, ObfsFinished, Dies, Binds, BindFails, Ends, Gone, counters
<1>4. ASSUME ServiceDies
      PROVE  Counted
  BY <1>4 DEF ServiceDies
<1>5. Counted
  BY <1>1, <1>2, <1>3, <1>4 DEF Next, EventLoop, Environment
<1> QED
  BY <1>5, ProxyAssumption DEF CountersOK

\* Every variable keeps its type; mObfsproxy never points to a QProcess that is about to
\* be deleted, and what is to be deleted or told to end is there.
THEOREM ProxyTypeCorrect == Spec => []TypeOK
<1>1. Init => FlagsOK /\ CountersOK
  <2>1. Init => FlagsOK
    BY DEF Init, FlagsOK
  <2>2. Init => CountersOK
    BY ProxyAssumption DEF Init, CountersOK
  <2> QED
    BY <2>1, <2>2
<1>2. FlagsOK /\ ManagerOK /\ [Next]_vars => FlagsOK'
  BY FlagsStep
<1>3. CountersOK /\ [Next]_vars => CountersOK'
  BY CountersStep
<1>4. ProxyInv => ManagerOK
  BY DEF ProxyInv
<1>5. ProxyInv /\ FlagsOK /\ CountersOK => TypeOK
  BY TypeParts DEF ProxyInv, ProcsInv
<1> QED
  BY <1>1, <1>2, <1>3, <1>4, <1>5, ProxyAlways, PTL DEF Spec

\* No connection runs through the proxy of another: an obfsproxy that runs and was not
\* told to end forwards to the server that was asked for last, at the port asked for or
\* one that was tried since.
THEOREM ProxyIsRight == Spec => []RightProxy
<1>1. ProxyInv => RightProxy
  BY DEF ProxyInv
<1> QED
  BY <1>1, ProxyAlways, PTL

\* Two proxies are at work on the one local port only after a launch within a launch.
THEOREM ProxyIsOne == Spec => []OneProxy
<1>1. ProxyInv => OneProxy
  <2> SUFFICES ASSUME ProxyInv, ~doubled PROVE Cardinality(Running) <= 1
    BY DEF OneProxy
  <2>1. CASE Running = {}
    BY <2>1, FS_EmptySet
  <2>2. CASE Running # {}
    <3>1. PICK p \in Running : TRUE
      BY <2>2
    <3>2. Running = {p}
      BY <3>1 DEF ProxyInv, AtMostOne
    <3>3. Cardinality({p}) = 1
      BY FS_Singleton
    <3>4. Cardinality(Running) = 1
      BY <3>2, <3>3, Zenon
    <3> QED
      BY <3>4
  <2> QED
    BY <2>1, <2>2
<1> QED
  BY <1>1, ProxyAlways, PTL

LEMMA NewsAlways == Spec => []NewsInv
  BY NewsInit, NewsStep, ProxyAlways, PTL DEF Spec

\* The loop in which stop() keeps the event loop from running has nothing to wait for: the
\* proxy it has killed was the only one in the list of processes.
THEOREM StopsWaitForNone == Spec => []WaitsForNone
<1>1. NewsInv => WaitsForNone
  BY DEF NewsInv
<1> QED
  BY <1>1, NewsAlways, PTL

\* A connection that asked for a proxy has one that runs, or one whose end is to be told,
\* which makes obfsFinished launch the next.
THEOREM ProxyIsNotForgotten == Spec => []ProxyOrNews
<1>1. NewsInv => ProxyOrNews
  BY DEF NewsInv
<1> QED
  BY <1>1, NewsAlways, PTL
=============================================================================
