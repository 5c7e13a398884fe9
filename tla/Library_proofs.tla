--------------------------- MODULE Library_proofs ---------------------------
(***************************************************************************)
(* The library that Containers, Services and Runtime put together, for     *)
(* every value of their constants.  What is proved of Startup, Monitor and *)
(* InlineQueue holds of the whole, because a part is at rest while a       *)
(* program uses another one; proved here are the files, the profiler, the  *)
(* console and the test runner.                                            *)
(*                                                                         *)
(* StreamsHaveOneOwner counts the holders of a stream.  FileInv says the   *)
(* same object by object: what an object refers to it owns, unless it is   *)
(* borrowed, no other object refers to it, and it is open.                 *)
(***************************************************************************)
EXTENDS Services, Runtime, FiniteSetTheorems, TLAPS

(* The proofs, with the constants of the instances that are composed.      *)
RuntimeP == INSTANCE Runtime_proofs WITH
  Main <- "main", Racing <- FALSE, Thread <- Waiter, None <- "none", seen <- token_seen,
  Owner <- "owner", Client <- {}, Task <- Job, Capacity <- InlineCapacity, NoTask <- 0

-----------------------------------------------------------------------------
(* The two instances of Startup say the same. *)
LEMMA SameStartup ==
  /\ Startup!StartupAssumption <=> RuntimeP!StartupAssumption
  /\ Startup!StartupInit <=> RuntimeP!StartupInit
  /\ Startup!StartupNext <=> RuntimeP!StartupNext
  /\ Startup!StartupHolds <=> RuntimeP!StartupHolds
BY DEF Startup!StartupAssumption, RuntimeP!StartupAssumption,
   Startup!StartupInit, RuntimeP!StartupInit, Startup!Threads,
   RuntimeP!Threads, Startup!StartupNext, RuntimeP!StartupNext,
   Startup!FirstCall, RuntimeP!FirstCall, Startup!Idle, RuntimeP!Idle,
   Startup!Running, RuntimeP!Running, Startup!StepsTo, RuntimeP!StepsTo,
   Startup!managerVars, RuntimeP!managerVars, Startup!objectVars,
   RuntimeP!objectVars, Startup!ConstructSettings,
   RuntimeP!ConstructSettings, Startup!InitManager, RuntimeP!InitManager,
   Startup!SetVersion, RuntimeP!SetVersion, Startup!Allocate,
   RuntimeP!Allocate, Startup!Ready, RuntimeP!Ready, Startup!Local,
   RuntimeP!Local, Startup!Free, RuntimeP!Free, Startup!EndScope,
   RuntimeP!EndScope, Startup!BeginScope, RuntimeP!BeginScope,
   Startup!HxThreadId, RuntimeP!HxThreadId, Startup!GuardAcquire,
   RuntimeP!GuardAcquire, Startup!GuardRelease, RuntimeP!GuardRelease,
   Startup!ExpectAsserts, RuntimeP!ExpectAsserts, Startup!AssertFails,
   RuntimeP!AssertFails, Startup!Shutdown, RuntimeP!Shutdown,
   Startup!Start, RuntimeP!Start, Startup!Joinable, RuntimeP!Joinable,
   Startup!Create, RuntimeP!Create, Startup!Return, RuntimeP!Return,
   Startup!Join, RuntimeP!Join, Startup!Replace, RuntimeP!Replace,
   Startup!Failed, RuntimeP!Failed, Startup!startupVars,
   RuntimeP!startupVars, Startup!StartupHolds, RuntimeP!StartupHolds,
   Startup!StorageIsOnce, RuntimeP!StorageIsOnce, Startup!GuardsHold,
   RuntimeP!GuardsHold, Startup!ScopesAreLocal, RuntimeP!ScopesAreLocal,
   Startup!JoinableIsTrue, RuntimeP!JoinableIsTrue

(* So do those of Monitor *)
LEMMA SameMonitor ==
  /\ Monitor!MonitorAssumption <=> RuntimeP!MonitorAssumption
  /\ Monitor!MonitorInit <=> RuntimeP!MonitorInit
  /\ Monitor!MonitorNext <=> RuntimeP!MonitorNext
  /\ Monitor!MonitorHolds <=> RuntimeP!MonitorHolds
BY DEF Monitor!MonitorAssumption, RuntimeP!MonitorAssumption,
   Monitor!IsFiniteSet, RuntimeP!IsFiniteSet, Monitor!MonitorInit,
   RuntimeP!MonitorInit, Monitor!MonitorNext, RuntimeP!MonitorNext,
   Monitor!Acquire, RuntimeP!Acquire, Monitor!Goes, RuntimeP!Goes,
   Monitor!SpuriousWakeup, RuntimeP!SpuriousWakeup, Monitor!Construct,
   RuntimeP!Construct, Monitor!Lock, RuntimeP!Lock, Monitor!Unlock,
   RuntimeP!Unlock, Monitor!Unlocked, RuntimeP!Unlocked, Monitor!Destruct,
   RuntimeP!Destruct, Monitor!Wait, RuntimeP!Wait, Monitor!TestPredicate,
   RuntimeP!TestPredicate, Monitor!NotifyOne, RuntimeP!NotifyOne,
   Monitor!Notified, RuntimeP!Notified, Monitor!Asleep, RuntimeP!Asleep,
   Monitor!NotifyAll, RuntimeP!NotifyAll, Monitor!Read, RuntimeP!Read,
   Monitor!Write, RuntimeP!Write, Monitor!MonitorHolds,
   RuntimeP!MonitorHolds, Monitor!OwnershipIsTrue,
   RuntimeP!OwnershipIsTrue, Monitor!WaitsForPredicate,
   RuntimeP!WaitsForPredicate, Monitor!UpdatesAreAtomic,
   RuntimeP!UpdatesAreAtomic, Monitor!NobodySleepsThrough,
   RuntimeP!NobodySleepsThrough, Monitor!Cardinality, RuntimeP!Cardinality,
   Monitor!Takers, RuntimeP!Takers

(* and those of InlineQueue. *)
LEMMA SameInline ==
  /\ Inline!InlineAssumption <=> RuntimeP!InlineAssumption
  /\ Inline!InlineInit <=> RuntimeP!InlineInit
  /\ Inline!InlineNext <=> RuntimeP!InlineNext
  /\ Inline!HighestStarts <=> RuntimeP!HighestStarts
  /\ Inline!EachTicketOnce <=> RuntimeP!EachTicketOnce
BY DEF Inline!InlineAssumption, RuntimeP!InlineAssumption, Inline!Ticket,
   RuntimeP!Ticket, Inline!InlineInit, RuntimeP!InlineInit,
   Inline!InlineNext, RuntimeP!InlineNext, Inline!Enqueue, RuntimeP!Enqueue,
   Inline!MayCall, RuntimeP!MayCall, Inline!Cardinality,
   RuntimeP!Cardinality, Inline!IsFiniteSet, RuntimeP!IsFiniteSet,
   Inline!callVars, RuntimeP!callVars, Inline!Cancel, RuntimeP!Cancel,
   Inline!Remove, RuntimeP!Remove, Inline!Fronts, RuntimeP!Fronts,
   Inline!Highest, RuntimeP!Highest, Inline!Ids, RuntimeP!Ids,
   Inline!EraseIf, RuntimeP!EraseIf, Inline!Clear, RuntimeP!Clear,
   Inline!ForEach, RuntimeP!ForEach, Inline!WaitForAll, RuntimeP!WaitForAll,
   Inline!TestEmpty, RuntimeP!TestEmpty, Inline!ReadFront,
   RuntimeP!ReadFront, Inline!PopHeap, RuntimeP!PopHeap,
   Inline!FinishProcess, RuntimeP!FinishProcess, Inline!inlineVars,
   RuntimeP!inlineVars, Inline!HighestStarts, RuntimeP!HighestStarts,
   Inline!EachTicketOnce, RuntimeP!EachTicketOnce, Inline!Held,
   RuntimeP!Held

-----------------------------------------------------------------------------
Opened == Stream \ Borrowed

(* An object owns exactly what it has opened, and that is open.            *)
OwnsWhatItOpened ==
  \A o \in Object :
    /\ file[o].m_owns_ <=> Files!StreamOf(o) \in Opened
    /\ Files!StreamOf(o) \in Opened => stream[Files!StreamOf(o)].open

(* No two objects have opened one stream, and no stream is open for nobody.*)
NoneShared ==
  \A o, p \in Object : Files!StreamOf(o) \in Opened /\ Files!StreamOf(o) = Files!StreamOf(p) => o = p

NoneLost == \A s \in Opened : stream[s].open => \E o \in Object : Files!StreamOf(o) = s

BorrowedStayOpen == \A s \in Borrowed : stream[s].open

FileOwners == OwnsWhatItOpened /\ NoneShared /\ NoneLost /\ BorrowedStayOpen

FileInv == Files!FileTypeOK /\ FileOwners

-----------------------------------------------------------------------------
(* The invariant implies what the run checks. *)
LEMMA OneFileOwner ==
  ASSUME Files!FileAssumption, FileInv
  PROVE  Files!StreamsHaveOneOwner
<1>1. ASSUME NEW s \in Opened
      PROVE  LET holders == {o \in Object : Files!StreamOf(o) = s}
             IN /\ Cardinality(holders) = IF stream[s].open THEN 1 ELSE 0
                /\ \A o \in holders : file[o].m_owns_
  <2> DEFINE holders == {o \in Object : Files!StreamOf(o) = s}
  <2>1. \A o \in holders : file[o].m_owns_ /\ stream[s].open
    BY <1>1 DEF FileInv, FileOwners, OwnsWhatItOpened
  <2>2. CASE stream[s].open
    <3>1. PICK o \in Object : Files!StreamOf(o) = s
      BY <1>1, <2>2 DEF FileInv, FileOwners, NoneLost
    <3>2. holders = {o}
      BY <1>1, <3>1 DEF FileInv, FileOwners, NoneShared
    <3> QED BY <2>1, <2>2, <3>2, FS_Singleton
  <2>3. CASE ~stream[s].open
    <3>1. holders = {}
      BY <2>1, <2>3
    <3> QED BY <2>1, <2>3, <3>1, FS_EmptySet
  <2> QED BY <2>2, <2>3
<1>2. ASSUME NEW s \in Borrowed
      PROVE  stream[s].open /\ \A o \in Object : Files!StreamOf(o) = s => ~file[o].m_owns_
  BY DEF FileInv, FileOwners, BorrowedStayOpen, OwnsWhatItOpened, Opened
<1> QED BY <1>1, <1>2 DEF Files!StreamsHaveOneOwner, Opened, Files!Cardinality, Cardinality,
   Files!IsFiniteSet, IsFiniteSet

LEMMA FileInitInv ==
  ASSUME Files!FileAssumption, Files!FileInit
  PROVE  FileInv
<1>1. Files!Closed \in Files!Fields
  BY DEF Files!Closed, Files!Fields, Files!OpenMode
<1>2. Files!FileTypeOK
  BY <1>1 DEF Files!FileInit, Files!FileTypeOK
<1>3. FileOwners
  BY DEF Files!FileAssumption, Files!FileInit, FileOwners, OwnsWhatItOpened, NoneShared, NoneLost,
         BorrowedStayOpen, Opened, Files!StreamOf, Files!Closed
<1> QED BY <1>2, <1>3 DEF FileInv

-----------------------------------------------------------------------------
(* A step that moves no stream keeps its owners. *)
LEMMA SameFileOwners ==
  ASSUME FileOwners, NEW f, NEW s,
         file' = f, stream' = s,
         \A o \in Object : /\ f[o].m_file_pimpl_ = file[o].m_file_pimpl_
                           /\ f[o].m_owns_ = file[o].m_owns_,
         \A t \in Stream : s[t].open = stream[t].open,
         Borrowed \subseteq Stream
  PROVE  FileOwners'
BY DEF FileOwners, OwnsWhatItOpened, NoneShared, NoneLost, BorrowedStayOpen, Opened, Files!StreamOf

(* fclose closes what the object owns, and nothing else. *)
LEMMA FcloseFacts ==
  ASSUME Files!FileAssumption, FileInv, NEW o \in Object
  PROVE  /\ Files!Fclose(o) \in [Stream -> [open : BOOLEAN, eof : BOOLEAN]]
         /\ \A s \in Stream : Files!Fclose(o)[s].open
                                <=> stream[s].open /\ ~(s \in Opened /\ Files!StreamOf(o) = s)
<1>1. CASE file[o].m_owns_
  <2>1. Files!StreamOf(o) \in Opened /\ Files!StreamOf(o) \in Stream
    BY <1>1 DEF FileInv, FileOwners, OwnsWhatItOpened, Opened
  <2>2. Files!Fclose(o) = [stream EXCEPT ![Files!StreamOf(o)] = [open |-> FALSE, eof |-> FALSE]]
    BY <1>1 DEF Files!Fclose
  <2> QED BY <2>1, <2>2 DEF FileInv, Files!FileTypeOK
<1>2. CASE ~file[o].m_owns_
  <2>1. Files!StreamOf(o) \notin Opened /\ Files!Fclose(o) = stream
    BY <1>2 DEF FileInv, FileOwners, OwnsWhatItOpened, Files!Fclose
  <2> QED BY <2>1 DEF FileInv, Files!FileTypeOK
<1> QED BY <1>1, <1>2

(* An object that closes what it owns, and then refers to nothing that it  *)
(* would own: close, a failed open, a borrowed stream.                     *)
LEMMA ReplacedFileInv ==
  ASSUME Files!FileAssumption, FileInv, NEW o \in Object, NEW R \in Files!Fields,
         R.m_file_pimpl_ \in Borrowed \union {"null"}, R.m_owns_ = FALSE,
         file' = [file EXCEPT ![o] = R], stream' = Files!Fclose(o)
  PROVE  FileInv'
<1>1. file'[o] = R /\ \A p \in Object \ {o} : file'[p] = file[p]
  BY DEF FileInv, Files!FileTypeOK
<1>2. Files!FileTypeOK'
  BY FcloseFacts DEF FileInv, Files!FileTypeOK
<1>3. R.m_file_pimpl_ \notin Opened
  BY DEF Files!FileAssumption, Opened
<1>4. \A s \in Stream : stream'[s].open
                          <=> stream[s].open /\ ~(s \in Opened /\ Files!StreamOf(o) = s)
  BY FcloseFacts
<1>5. /\ Files!StreamOf(o)' \notin Opened /\ ~file'[o].m_owns_
      /\ \A p \in Object \ {o} : Files!StreamOf(p)' = Files!StreamOf(p)
  BY <1>1, <1>3 DEF Files!StreamOf
<1>6. OwnsWhatItOpened'
  BY <1>1, <1>4, <1>5 DEF FileInv, FileOwners, OwnsWhatItOpened, NoneShared, Opened
<1>7. NoneShared' /\ NoneLost' /\ BorrowedStayOpen'
  BY <1>4, <1>5 DEF FileInv, FileOwners, NoneShared, NoneLost, BorrowedStayOpen, Opened,
                    Files!FileAssumption
<1> QED BY <1>2, <1>6, <1>7 DEF FileInv, FileOwners

(* fopen that succeeds. *)
LEMMA FopenFileInv ==
  ASSUME Files!FileAssumption, FileInv, NEW o \in Object, NEW mode \in Files!OpenMode,
         NEW s \in Stream \union {"null"}, Files!Fopen(o, mode, s)
  PROVE  FileInv'
<1> DEFINE opened == [Files!Closed EXCEPT !.m_open_mode_ = mode, !.m_file_pimpl_ = s,
                                    !.m_fail_ = (s = "null"), !.m_owns_ = (s # "null")]
<1>1. /\ opened.m_file_pimpl_ = s
      /\ opened \in Files!Fields
      /\ opened.m_owns_ = (s # "null")
  BY DEF Files!Closed, Files!Fields
<1>2. file' = [file EXCEPT ![o] = opened]
  BY DEF Files!Fopen
<1> HIDE DEF opened
<1>3. CASE s = "null"
  <2>1. stream' = Files!Fclose(o) /\ opened.m_owns_ = FALSE
    BY <1>1, <1>3 DEF Files!Fopen
  <2> QED BY <1>1, <1>2, <1>3, <2>1, ReplacedFileInv
<1>4. CASE s # "null"
  <2>1. /\ s \in Stream /\ ~Files!Fclose(o)[s].open
        /\ stream' = [Files!Fclose(o) EXCEPT ![s].open = TRUE]
    BY <1>4 DEF Files!Fopen
  <2>2. Files!FileTypeOK'
    <3> DEFINE C == Files!Fclose(o)
    <3>1. C \in [Stream -> [open : BOOLEAN, eof : BOOLEAN]]
      BY FcloseFacts
    <3> HIDE DEF C
    <3>2. [C EXCEPT ![s].open = TRUE] \in [Stream -> [open : BOOLEAN, eof : BOOLEAN]]
      BY <3>1
    <3>3. stream' = [C EXCEPT ![s].open = TRUE]
      BY <2>1 DEF C
    <3> QED BY <1>1, <1>2, <3>2, <3>3 DEF FileInv, Files!FileTypeOK
  <2>3. \A t \in Stream : stream'[t].open
          <=> t = s \/ (stream[t].open /\ ~(t \in Opened /\ Files!StreamOf(o) = t))
    BY <2>1, FcloseFacts
  <2>4. s \in Opened
    BY <2>1, FcloseFacts DEF FileInv, FileOwners, BorrowedStayOpen, Opened
  <2>5. Files!StreamOf(o) # s => ~stream[s].open
    BY <2>1, FcloseFacts
  <2>6. \A p \in Object \ {o} : Files!StreamOf(p) # s
    BY <2>4, <2>5 DEF FileInv, FileOwners, OwnsWhatItOpened, NoneShared
  <2>7. file'[o] = opened /\ \A p \in Object \ {o} : file'[p] = file[p]
    BY <1>2 DEF FileInv, Files!FileTypeOK
  <2>8. Files!StreamOf(o)' = s /\ file'[o].m_owns_ /\ \A p \in Object \ {o} : Files!StreamOf(p)' = Files!StreamOf(p)
    BY <1>1, <1>4, <2>7 DEF Files!StreamOf
  <2>9. OwnsWhatItOpened'
    BY <2>3, <2>4, <2>6, <2>7, <2>8
    DEF FileInv, FileOwners, OwnsWhatItOpened, NoneShared, Opened
  <2>10. NoneShared' /\ NoneLost' /\ BorrowedStayOpen'
    BY <2>3, <2>4, <2>6, <2>8
    DEF FileInv, FileOwners, NoneShared, NoneLost, BorrowedStayOpen, Opened, Files!FileAssumption
  <2> QED BY <2>2, <2>9, <2>10 DEF FileInv, FileOwners
<1> QED BY <1>3, <1>4

(* A move: o closes what it owns and takes over what p has, which becomes  *)
(* closed.  Both may be the same object.                                   *)
LEMMA MovedFileInv ==
  ASSUME Files!FileAssumption, FileInv, NEW o \in Object, NEW p \in Object,
         file' = [file EXCEPT ![o] = file[p], ![p] = Files!Closed], stream' = Files!Fclose(o)
  PROVE  FileInv'
<1>0. Files!Closed \in Files!Fields /\ Files!Closed.m_file_pimpl_ = "null" /\ Files!Closed.m_owns_ = FALSE
  BY DEF Files!Closed, Files!Fields, Files!OpenMode
<1>1. CASE o = p
  <2>1. file' = [file EXCEPT ![o] = Files!Closed]
    BY <1>1 DEF FileInv, Files!FileTypeOK
  <2> QED BY <1>0, <2>1, ReplacedFileInv
<1>2. CASE o # p
  <2>1. /\ file'[o] = file[p] /\ file'[p] = Files!Closed
        /\ \A q \in Object \ {o, p} : file'[q] = file[q]
    BY <1>2 DEF FileInv, Files!FileTypeOK
  <2>2. Files!FileTypeOK'
    BY <1>0, FcloseFacts DEF FileInv, Files!FileTypeOK
  <2>3. \A s \in Stream : stream'[s].open
                            <=> stream[s].open /\ ~(s \in Opened /\ Files!StreamOf(o) = s)
    BY FcloseFacts
  <2>4. /\ Files!StreamOf(o)' = Files!StreamOf(p) /\ Files!StreamOf(p)' \notin Opened
        /\ \A q \in Object \ {o, p} : Files!StreamOf(q)' = Files!StreamOf(q)
        /\ ~file'[p].m_owns_
    BY <1>0, <2>1 DEF Files!StreamOf, Files!FileAssumption, Opened
  <2>5. OwnsWhatItOpened'
    <3> SUFFICES ASSUME NEW q \in Object
                 PROVE  /\ file'[q].m_owns_ <=> Files!StreamOf(q)' \in Opened
                        /\ Files!StreamOf(q)' \in Opened => stream'[Files!StreamOf(q)'].open
      BY DEF OwnsWhatItOpened
    <3>1. CASE q = p
      BY <2>4, <3>1
    <3>2. CASE q = o
      BY <1>2, <2>1, <2>3, <2>4, <3>2
      DEF FileInv, FileOwners, OwnsWhatItOpened, NoneShared, Opened
    <3>3. CASE q \notin {o, p}
      BY <2>1, <2>3, <2>4, <3>3 DEF FileInv, FileOwners, OwnsWhatItOpened, NoneShared, Opened
    <3> QED BY <3>1, <3>2, <3>3
  <2>6. NoneShared' /\ NoneLost' /\ BorrowedStayOpen'
    BY <1>2, <2>3, <2>4
    DEF FileInv, FileOwners, NoneShared, NoneLost, BorrowedStayOpen, Opened, Files!FileAssumption
  <2> QED BY <2>2, <2>5, <2>6 DEF FileInv, FileOwners
<1> QED BY <1>1, <1>2

-----------------------------------------------------------------------------
(* The calls that transfer data, seek or set flags move no stream.         *)
LEMMA TransferFileInv ==
  ASSUME Files!FileAssumption, FileInv, NEW o \in Object,
         \/ \E count, size \in 0..MaxCount : Files!Read(o, count, size)
         \/ \E count \in 0..MaxCount : Files!Write(o, count)
         \/ Files!Getline(o) \/ Files!Scan(o) \/ Files!SetPos(o) \/ Files!ClearFlags(o) \/ Files!SetFail(o)
  PROVE  FileInv'
<1>1. file[o] \in Files!Fields /\ (Files!StreamOf(o) # "null" => Files!StreamOf(o) \in Stream)
  BY DEF FileInv, Files!FileTypeOK, Files!Fields, Files!StreamOf
<1>2. \/ file' = file
      \/ \E fail \in BOOLEAN : file' = [file EXCEPT ![o].m_fail_ = fail]
      \/ \E fail, eof \in BOOLEAN :
           file' = [file EXCEPT ![o].m_fail_ = fail, ![o].m_eof_ = eof]
  BY DEF Files!Read, Files!Write, Files!Getline, Files!Scan, Files!SetPos, Files!ClearFlags, Files!SetFail, Files!FallShort, Files!fileVars
<1> DEFINE FieldsKept ==
             /\ file' \in [Object -> Files!Fields]
             /\ \A p \in Object : /\ file'[p].m_file_pimpl_ = file[p].m_file_pimpl_
                                  /\ file'[p].m_owns_ = file[p].m_owns_
<1>3. FieldsKept
  <2>1. ASSUME NEW R \in Files!Fields, file' = [file EXCEPT ![o] = R],
               R.m_file_pimpl_ = file[o].m_file_pimpl_, R.m_owns_ = file[o].m_owns_
        PROVE  FieldsKept
    BY <1>1, <2>1 DEF FileInv, Files!FileTypeOK
  <2>2. ASSUME NEW fail \in BOOLEAN, NEW eof \in BOOLEAN
        PROVE  LET one == [file[o] EXCEPT !.m_fail_ = fail]
                   both == [file[o] EXCEPT !.m_fail_ = fail, !.m_eof_ = eof]
               IN /\ one \in Files!Fields /\ both \in Files!Fields
                  /\ one.m_file_pimpl_ = file[o].m_file_pimpl_
                  /\ both.m_file_pimpl_ = file[o].m_file_pimpl_
                  /\ one.m_owns_ = file[o].m_owns_ /\ both.m_owns_ = file[o].m_owns_
    BY <1>1 DEF Files!Fields
  <2>3. CASE file' = file
    BY <2>3 DEF FileInv, Files!FileTypeOK
  <2>4. ASSUME NEW fail \in BOOLEAN, file' = [file EXCEPT ![o].m_fail_ = fail]
        PROVE  FieldsKept
    BY <2>1, <2>2, <2>4
  <2>5. ASSUME NEW fail \in BOOLEAN, NEW eof \in BOOLEAN,
               file' = [file EXCEPT ![o].m_fail_ = fail, ![o].m_eof_ = eof]
        PROVE  FieldsKept
    <3>1. file' = [file EXCEPT ![o] = [file[o] EXCEPT !.m_fail_ = fail, !.m_eof_ = eof]]
      BY <2>5 DEF FileInv, Files!FileTypeOK
    <3> QED BY <2>1, <2>2, <3>1
  <2> QED BY <1>2, <2>3, <2>4, <2>5
<1>4. \/ stream' = stream
      \/ /\ Files!StreamOf(o) # "null"
         /\ \E eof \in BOOLEAN : stream' = [stream EXCEPT ![Files!StreamOf(o)].eof = eof]
  BY DEF Files!Read, Files!Write, Files!Getline, Files!Scan, Files!SetPos, Files!ClearFlags, Files!SetFail, Files!FallShort, Files!fileVars,
         Files!Readable
<1>5. Files!FileTypeOK'
  <2>1. file' \in [Object -> Files!Fields]
    BY <1>3
  <2>2. stream' \in [Stream -> [open : BOOLEAN, eof : BOOLEAN]]
    BY <1>1, <1>4 DEF FileInv, Files!FileTypeOK
  <2> QED BY <2>1, <2>2 DEF Files!FileTypeOK
<1>6. \A t \in Stream : stream'[t].open = stream[t].open
  BY <1>1, <1>4 DEF FileInv, Files!FileTypeOK
<1>7. FileOwners'
  BY <1>3, <1>6, SameFileOwners DEF FileInv, Files!FileAssumption
<1> QED BY <1>5, <1>7 DEF FileInv

LEMMA FileNextInv ==
  ASSUME Files!FileAssumption, FileInv, [Files!FileNext]_(Files!fileVars)
  PROVE  FileInv'
<1>1. CASE UNCHANGED Files!fileVars
  <2>1. file' = file /\ stream' = stream
    BY <1>1 DEF Files!fileVars
  <2>2. FileOwners'
    BY <2>1, SameFileOwners DEF FileInv, Files!FileAssumption
  <2> QED BY <2>1, <2>2 DEF FileInv, Files!FileTypeOK
<1>2. ASSUME NEW o \in Object,
             Files!Close(o) \/ \E mode \in Files!OpenMode : Files!Open(o, mode)
      PROVE  FileInv'
  <2>1. ASSUME NEW mode \in Files!OpenMode
        PROVE  /\ [Files!Closed EXCEPT !.m_open_mode_ = mode] \in Files!Fields
               /\ [Files!Closed EXCEPT !.m_open_mode_ = mode].m_file_pimpl_ = "null"
               /\ [Files!Closed EXCEPT !.m_open_mode_ = mode].m_owns_ = FALSE
    BY DEF Files!Closed, Files!Fields
  <2>2. Files!Closed \in Files!Fields /\ Files!Closed.m_file_pimpl_ = "null" /\ Files!Closed.m_owns_ = FALSE
    BY DEF Files!Closed, Files!Fields, Files!OpenMode
  <2>3. CASE Files!Close(o)
    BY <2>2, <2>3, ReplacedFileInv DEF Files!Close
  <2>4. ASSUME NEW mode \in Files!OpenMode, Files!Open(o, mode)
        PROVE  FileInv'
    BY <2>1, <2>4, ReplacedFileInv, FopenFileInv DEF Files!Open
  <2> QED BY <1>2, <2>3, <2>4
<1>3. ASSUME NEW o \in Object, file[o] = Files!Closed
      PROVE  Files!Fclose(o) = stream
  BY <1>3 DEF Files!Fclose, Files!Closed
<1>4. ASSUME NEW o \in Object, NEW s \in Borrowed \union {"null"}, NEW mode \in Files!OpenMode,
             Files!Borrow(o, s, mode)
      PROVE  FileInv'
  <2> DEFINE borrowed == [Files!Closed EXCEPT !.m_file_pimpl_ = s, !.m_open_mode_ = mode]
  <2>1. /\ borrowed \in Files!Fields
        /\ borrowed.m_file_pimpl_ = s /\ borrowed.m_owns_ = FALSE
    BY DEF Files!Closed, Files!Fields, Files!FileAssumption
  <2>2. file' = [file EXCEPT ![o] = borrowed] /\ stream' = Files!Fclose(o)
    BY <1>3, <1>4 DEF Files!Borrow
  <2> HIDE DEF borrowed
  <2> QED BY <2>1, <2>2, ReplacedFileInv
<1>5. ASSUME NEW o \in Object, NEW p \in Object, Files!MoveConstruct(o, p) \/ Files!MoveAssign(o, p)
      PROVE  FileInv'
  BY <1>3, <1>5, MovedFileInv DEF Files!MoveConstruct, Files!MoveAssign
<1> QED
  BY <1>1, <1>2, <1>4, <1>5, TransferFileInv DEF Files!FileNext

(* Whatever service a program uses, the fields of the objects and the      *)
(* state of the streams keep their types, and every stream that was opened *)
(* has exactly one owner while it is open and none afterwards, through all *)
(* moves, assignments, failed opens and closes; a borrowed one has none    *)
(* and stays open.                                                         *)
LEMMA ServicesFileInv ==
  ASSUME Files!FileAssumption
  PROVE  ServicesSpec => []FileInv
<1>1. ServicesInit => FileInv
  BY FileInitInv DEF ServicesInit, ServicesAre
<1>2. FileInv /\ [ServicesNext]_serviceVars => FileInv'
  <2> SUFFICES ASSUME FileInv, [ServicesNext]_serviceVars PROVE FileInv'
    OBVIOUS
  <2>1. [Files!FileNext]_(Files!fileVars)
    BY DEF ServicesNext, serviceVars, files, Files!fileVars
  <2> QED BY <2>1, FileNextInv
<1> QED BY <1>1, <1>2, PTL DEF ServicesSpec

THEOREM StreamsStayOwned ==
  ASSUME Files!FileAssumption
  PROVE  ServicesSpec => [](Files!FileTypeOK /\ StreamsHaveOneOwner)
<1>1. FileInv => Files!FileTypeOK /\ StreamsHaveOneOwner
  BY OneFileOwner DEF StreamsHaveOneOwner, FileInv
<1> QED BY <1>1, ServicesFileInv, PTL

-----------------------------------------------------------------------------
(* A part of the runtime is at rest while another one is used. *)
LEMMA PartsStep ==
  ASSUME [RuntimeNext]_runtimeVars
  PROVE  /\ part' = part
         /\ [RuntimeP!StartupNext]_(RuntimeP!startupVars)
         /\ [RuntimeP!MonitorNext]_(RuntimeP!monitorVars)
         /\ [RuntimeP!InlineNext]_(RuntimeP!inlineVars)
<1>1. UNCHANGED startup <=> UNCHANGED RuntimeP!startupVars
  BY DEF startup, RuntimeP!startupVars
<1>2. UNCHANGED monitor <=> UNCHANGED RuntimeP!monitorVars
  BY DEF monitor, RuntimeP!monitorVars
<1>3. UNCHANGED inline <=> UNCHANGED RuntimeP!inlineVars
  BY DEF inline, RuntimeP!inlineVars
<1>4. CASE UNCHANGED runtimeVars
  BY <1>1, <1>2, <1>3, <1>4 DEF runtimeVars
<1>5. CASE RuntimeNext
  <2>1. UNCHANGED startup \/ RuntimeP!StartupNext
    BY <1>5, SameStartup DEF RuntimeNext
  <2>2. UNCHANGED monitor \/ RuntimeP!MonitorNext
    BY <1>5, SameMonitor DEF RuntimeNext
  <2>3. UNCHANGED inline \/ RuntimeP!InlineNext
    BY <1>5, SameInline DEF RuntimeNext
  <2>4. part' = part
    BY <1>5 DEF RuntimeNext
  <2> QED BY <1>1, <1>2, <1>3, <2>1, <2>2, <2>3, <2>4
<1> QED BY <1>4, <1>5

(* Through any number of cycles of shutdown and first call the stacks have *)
(* their storage once, no thread meets a guard in use, allocator scopes    *)
(* are local to their threads, and thread objects are joinable while there *)
(* is a native thread to join.                                             *)
THEOREM StartupStaysSafe ==
  ASSUME RuntimeAssumptions
  PROVE  RuntimeSpec => []StartupHolds
<1>0. RuntimeP!StartupAssumption
  BY SameStartup DEF RuntimeAssumptions
<1>1. RuntimeInit => RuntimeP!StartupInv
  BY <1>0, SameStartup, RuntimeP!InitStartupInv DEF RuntimeInit, RuntimeIs
<1>2. RuntimeP!StartupInv /\ [RuntimeNext]_runtimeVars => RuntimeP!StartupInv'
  BY <1>0, PartsStep, RuntimeP!NextStartupInv
<1>3. RuntimeP!StartupInv => StartupHolds
  BY <1>0, SameStartup, RuntimeP!HoldsFromStartupInv DEF StartupHolds
<1> QED BY <1>1, <1>2, <1>3, PTL DEF RuntimeSpec

(* For any set of threads the mutex, the locks and the condition variable  *)
(* make a monitor.                                                         *)
THEOREM MonitorStaysSafe ==
  ASSUME RuntimeAssumptions
  PROVE  RuntimeSpec => []MonitorHolds
<1>0. RuntimeP!MonitorAssumption
  BY SameMonitor DEF RuntimeAssumptions
<1>1. RuntimeInit => RuntimeP!MonitorInv
  BY <1>0, SameMonitor, RuntimeP!InitMonitorInv DEF RuntimeInit, RuntimeIs
<1>2. RuntimeP!MonitorInv /\ [RuntimeNext]_runtimeVars => RuntimeP!MonitorInv'
  BY <1>0, PartsStep, RuntimeP!NextMonitorInv
<1>3. RuntimeP!MonitorInv => MonitorHolds
  BY SameMonitor DEF RuntimeP!MonitorInv, MonitorHolds
<1> QED BY <1>1, <1>2, <1>3, PTL DEF RuntimeSpec

(* The two instances of the pool say the same. *)
LEMMA SamePool ==
  /\ Inline!Pool!PoolInit <=> RuntimeP!Pool!PoolInit
  /\ [Inline!Pool!PoolNext]_(Inline!Pool!poolVars)
       <=> [RuntimeP!Pool!PoolNext]_(RuntimeP!Pool!poolVars)
BY DEF Inline!Pool!PoolInit, RuntimeP!Pool!PoolInit, Inline!Pool!PoolNext,
   RuntimeP!Pool!PoolNext, Inline!Pool!Submit, RuntimeP!Pool!Submit,
   Inline!Pool!Withdraw, RuntimeP!Pool!Withdraw, Inline!Pool!Start,
   RuntimeP!Pool!Start, Inline!Pool!Complete, RuntimeP!Pool!Complete,
   Inline!Pool!BeginWait, RuntimeP!Pool!BeginWait, Inline!Pool!EndWait,
   RuntimeP!Pool!EndWait, Inline!Pool!Outstanding, RuntimeP!Pool!Outstanding,
   Inline!Pool!BeginClose, RuntimeP!Pool!BeginClose, Inline!Pool!EndClose,
   RuntimeP!Pool!EndClose, Inline!Pool!poolVars, RuntimeP!Pool!poolVars,
   Inline!Ids, RuntimeP!Ids, Inline!Held, RuntimeP!Held, Inline!Ticket,
   RuntimeP!Ticket

(* The queue without threads implements the pool that the queue with       *)
(* threads implements.                                                     *)
THEOREM InlineQueueStaysPool ==
  ASSUME RuntimeAssumptions
  PROVE  RuntimeSpec => InlineQueueIsPool
<1>0. RuntimeP!InlineAssumption
  BY SameInline DEF RuntimeAssumptions
<1>1. RuntimeInit => RuntimeP!IInv /\ Inline!Pool!PoolInit
  <2>1. RuntimeP!InlineInit => RuntimeP!Pool!PoolInit
    BY DEF RuntimeP!InlineInit, RuntimeP!Pool!PoolInit, RuntimeP!Ids, RuntimeP!Held
  <2> QED
    BY <1>0, <2>1, SameInline, SamePool, RuntimeP!InitIInv DEF RuntimeInit, RuntimeIs
<1>2. RuntimeP!IInv /\ [RuntimeNext]_runtimeVars
        => RuntimeP!IInv' /\ [RuntimeP!Pool!PoolNext]_(RuntimeP!Pool!poolVars)
           /\ RuntimeP!HighestStarts
  BY <1>0, PartsStep, RuntimeP!NextPool
<1>3. RuntimeP!IInv => Inline!EachTicketOnce
  BY <1>0, SameInline, RuntimeP!ApartIsOnce DEF RuntimeP!IInv
<1>4. [RuntimeP!Pool!PoolNext]_(RuntimeP!Pool!poolVars) /\ RuntimeP!HighestStarts
        /\ Inline!EachTicketOnce'
        => [part = "inline" => Inline!InlineStep]_runtimeVars
  BY SameInline, SamePool DEF Inline!InlineStep
<1> QED
  BY <1>1, <1>2, <1>3, <1>4, PTL DEF RuntimeSpec, InlineQueueIsPool
-----------------------------------------------------------------------------
(***************************************************************************)
(* The profiler, for any threads, bounds and size of the cycle counter.    *)
(* That records nest needs the scopes that are still open: they began in   *)
(* order, and a record of their thread is apart from each or within it.  A *)
(* destructor that has sampled and waits for the lock is the last one of   *)
(* its thread that will add a record until then.                           *)
(***************************************************************************)
ProfilerTypes ==
  /\ now \in 0..MaxTime
  /\ m_is_started_ \in BOOLEAN
  /\ m_records \in Seq(Profiler!Record)
  /\ profiled \in [Profiled -> Seq(0..MaxTime)]
  /\ sampled \in [Profiled -> -1..MaxTime]

ScopesInOrder ==
  \A t \in Profiled : \A k \in 1..Len(profiled[t]) :
    /\ profiled[t][k] <= now
    /\ \A i \in 1..k : profiled[t][i] <= profiled[t][k]
    /\ sampled[t] # -1 => profiled[t][k] <= sampled[t]

SamplesArePast ==
  \A t \in Profiled :
    sampled[t] # -1 => profiled[t] # <<>> /\ sampled[t] \in 0..now

(* A record r of thread t that has the open scopes s and the sample d.     *)
PastRecord(r, s, d, n) ==
  /\ r.m_begin_ <= r.m_end_ /\ r.m_end_ <= n
  /\ d # -1 => r.m_end_ <= d
  /\ \A k \in 1..Len(s) : r.m_end_ <= s[k] \/ s[k] <= r.m_begin_

(* Record r is one of thread t, which shares its id with none.             *)
IsOf(r, t) ==
  Profiler!HasOwnId(t) /\ r.m_thread_id_ = Profiler!Truncated(NativeId[t])

RecordsArePast ==
  \A j \in 1..Len(m_records) :
    /\ m_records[j].m_begin_ <= m_records[j].m_end_ /\ m_records[j].m_end_ <= now
    /\ \A t \in Profiled :
         IsOf(m_records[j], t) => PastRecord(m_records[j], profiled[t], sampled[t], now)

ApartOrWithin(r, q) ==
  \/ r.m_end_ <= q.m_begin_
  \/ q.m_begin_ <= r.m_begin_ /\ r.m_end_ <= q.m_end_

PairsNest ==
  \A t \in Profiled : \A j \in 1..Len(m_records) : \A i \in 1..(j - 1) :
    IsOf(m_records[i], t) /\ IsOf(m_records[j], t) =>
      ApartOrWithin(m_records[i], m_records[j])

ProfilerInv ==
  ProfilerTypes /\ ScopesInOrder /\ SamplesArePast /\ RecordsArePast /\ PairsNest

(* What is known of the elements of a sequence. *)
LEMMA SeqElements ==
  ASSUME NEW S, NEW s \in Seq(S)
  PROVE  /\ Len(s) \in Nat
         /\ s # <<>> => Len(s) \in Nat \ {0}
         /\ \A k \in 1..Len(s) : s[k] \in S
<1>1. Len(s) \in Nat
  OBVIOUS
<1>2. \A k \in 1..Len(s) : s[k] \in S
  OBVIOUS
<1>3. Len(s) = 0 => s = <<>>
  OBVIOUS
<1> QED BY <1>1, <1>2, <1>3

(* What is left of a sequence without its last element. *)
LEMMA ButLastElement ==
  ASSUME NEW S, NEW s \in Seq(S), Len(s) # 0
  PROVE  /\ SubSeq(s, 1, Len(s) - 1) \in Seq(S)
         /\ Len(SubSeq(s, 1, Len(s) - 1)) = Len(s) - 1
         /\ \A k \in 1..(Len(s) - 1) : SubSeq(s, 1, Len(s) - 1)[k] = s[k]
<1> DEFINE m == Len(s) - 1
<1>1. m \in Nat /\ m <= Len(s) /\ \A k \in 1..m : k \in 1..Len(s)
  OBVIOUS
<1> HIDE DEF m
<1>2. SubSeq(s, 1, m) \in Seq(S)
  BY <1>1
<1>3. Len(SubSeq(s, 1, m)) = m
  BY <1>1
<1>4. \A k \in 1..m : SubSeq(s, 1, m)[k] = s[k]
  BY <1>1
<1> QED BY <1>2, <1>3, <1>4 DEF m

(* The invariant says more than the property. *)
LEMMA RecordsNestFromInv ==
  ASSUME ProfilerInv
  PROVE  RecordsNest
<1>1. \A j \in 1..Len(m_records) : m_records[j].m_begin_ <= m_records[j].m_end_
  BY DEF ProfilerInv, RecordsArePast
<1>2. ASSUME NEW t \in Profiled, NEW j \in 1..Len(m_records), IsOf(m_records[j], t)
      PROVE  /\ \A i \in 1..Len(m_records) :
                  i < j /\ IsOf(m_records[i], t) => ApartOrWithin(m_records[i], m_records[j])
             /\ \A k \in 1..Len(profiled[t]) :
                  \/ m_records[j].m_end_ <= profiled[t][k]
                  \/ profiled[t][k] <= m_records[j].m_begin_ /\ m_records[j].m_end_ <= now
  <2>1. PastRecord(m_records[j], profiled[t], sampled[t], now)
    BY <1>2 DEF ProfilerInv, RecordsArePast
  <2>2. ASSUME NEW i \in 1..Len(m_records), i < j, IsOf(m_records[i], t)
        PROVE  ApartOrWithin(m_records[i], m_records[j])
    <3>1. i \in 1..(j - 1)
      BY <2>2
    <3> QED BY <1>2, <2>2, <3>1 DEF ProfilerInv, PairsNest
  <2> QED BY <2>1, <2>2 DEF PastRecord
<1> QED BY <1>1, <1>2 DEF RecordsNest, Profiler!RecordsNest, ApartOrWithin, IsOf

(* It holds before the first scope. *)
LEMMA ProfilerInitInv ==
  ASSUME Profiler!ProfilerAssumption, Profiler!ProfilerInit
  PROVE  ProfilerInv
<1>1. /\ now = 0 /\ m_is_started_ = FALSE /\ m_records = <<>>
      /\ profiled = [t \in Profiled |-> <<>>] /\ sampled = [t \in Profiled |-> -1]
      /\ MaxTime \in Nat
  BY DEF Profiler!ProfilerInit, Profiler!ProfilerAssumption
<1>2. ProfilerTypes
  <2>1. <<>> \in Seq(0..MaxTime) /\ m_records \in Seq(Profiler!Record)
    BY <1>1
  <2>2. profiled \in [Profiled -> Seq(0..MaxTime)]
    BY <1>1, <2>1
  <2>3. now \in 0..MaxTime /\ -1 \in -1..MaxTime
    BY <1>1
  <2>4. sampled \in [Profiled -> -1..MaxTime]
    BY <1>1, <2>3
  <2>5. m_is_started_ \in BOOLEAN
    BY <1>1, Zenon
  <2> QED BY <2>1, <2>2, <2>3, <2>4, <2>5 DEF ProfilerTypes
<1>3. /\ Len(m_records) = 0
      /\ \A t \in Profiled : Len(profiled[t]) = 0 /\ sampled[t] = -1
  BY <1>1
<1> QED
  BY <1>2, <1>3
  DEF ProfilerInv, ScopesInOrder, SamplesArePast, RecordsArePast, PairsNest

(* The clock ticks, the profiler is started or stopped.                    *)
LEMMA ProfilerClockInv ==
  ASSUME Profiler!ProfilerAssumption, ProfilerInv,
         Profiler!Tick \/ Profiler!start_ \/ Profiler!stop_ \/ UNCHANGED profiler
  PROVE  ProfilerInv'
<1>1. /\ ProfilerTypes /\ ScopesInOrder /\ SamplesArePast /\ RecordsArePast /\ PairsNest
  BY DEF ProfilerInv
<1>2. /\ profiled' = profiled /\ sampled' = sampled
      /\ now' \in 0..MaxTime /\ now' >= now
      /\ m_is_started_' \in BOOLEAN
      /\ m_records' = m_records \/ m_records' = <<>>
  <2>1. now \in 0..MaxTime /\ m_is_started_ \in BOOLEAN /\ MaxTime \in Nat
    BY <1>1 DEF ProfilerTypes, Profiler!ProfilerAssumption
  <2>2. CASE Profiler!Tick
    BY <2>1, <2>2 DEF Profiler!Tick
  <2>3. CASE Profiler!start_
    BY <2>1, <2>3 DEF Profiler!start_
  <2>4. CASE Profiler!stop_
    <3>1. /\ profiled' = profiled /\ sampled' = sampled /\ now' = now
          /\ m_is_started_' \in BOOLEAN /\ m_records' = m_records
      BY <2>4, Zenon DEF Profiler!stop_
    <3> QED BY <2>1, <3>1
  <2>5. CASE UNCHANGED profiler
    BY <2>1, <2>5 DEF profiler
  <2> QED BY <2>2, <2>3, <2>4, <2>5
<1>3. ProfilerTypes'
  <2>1. m_records \in Seq(Profiler!Record) /\ <<>> \in Seq(Profiler!Record)
    BY <1>1 DEF ProfilerTypes
  <2>2. m_records' \in Seq(Profiler!Record)
    BY <1>2, <2>1
  <2> QED BY <1>1, <1>2, <2>2 DEF ProfilerTypes
<1>4. ScopesInOrder'
  <2> SUFFICES ASSUME NEW t \in Profiled, NEW k \in 1..Len(profiled[t])
               PROVE  profiled[t][k] <= now'
    BY <1>1, <1>2 DEF ScopesInOrder
  <2>1. profiled[t] \in Seq(0..MaxTime)
    BY <1>1 DEF ProfilerTypes
  <2>2. profiled[t][k] \in 0..MaxTime
    BY <2>1, SeqElements
  <2> QED BY <1>1, <1>2, <2>2 DEF ScopesInOrder, ProfilerTypes
<1>5. SamplesArePast'
  BY <1>1, <1>2 DEF SamplesArePast, ProfilerTypes
<1>6. RecordsArePast'
  <2> SUFFICES ASSUME NEW j \in 1..Len(m_records), m_records' = m_records
               PROVE  /\ m_records[j].m_begin_ <= m_records[j].m_end_
                      /\ m_records[j].m_end_ <= now'
                      /\ \A t \in Profiled : IsOf(m_records[j], t) =>
                           PastRecord(m_records[j], profiled[t], sampled[t], now')
    BY <1>2 DEF RecordsArePast
  <2>1. m_records[j] \in Profiler!Record
    BY <1>1 DEF ProfilerTypes
  <2>2. /\ m_records[j].m_begin_ <= m_records[j].m_end_ /\ m_records[j].m_end_ <= now
        /\ \A t \in Profiled : IsOf(m_records[j], t) =>
             PastRecord(m_records[j], profiled[t], sampled[t], now)
    BY <1>1 DEF RecordsArePast
  <2>3. m_records[j].m_end_ <= now'
    <3>1. m_records[j].m_end_ \in 0..MaxTime
      BY <2>1 DEF Profiler!Record
    <3> QED BY <1>1, <1>2, <2>2, <3>1 DEF ProfilerTypes
  <2> QED BY <2>2, <2>3 DEF PastRecord
<1>7. PairsNest'
  BY <1>1, <1>2 DEF PairsNest
<1> QED BY <1>3, <1>4, <1>5, <1>6, <1>7 DEF ProfilerInv

(* A constructor adds a scope that began after those around it. *)
LEMMA ProfilerEnterInv ==
  ASSUME Profiler!ProfilerAssumption, ProfilerInv, NEW t \in Profiled, Profiler!Enter(t)
  PROVE  ProfilerInv'
<1>1. /\ ProfilerTypes /\ ScopesInOrder /\ SamplesArePast /\ RecordsArePast /\ PairsNest
  BY DEF ProfilerInv
<1>2. /\ profiled' = [profiled EXCEPT ![t] = Append(profiled[t], now)]
      /\ sampled[t] = -1
      /\ UNCHANGED <<now, m_is_started_, m_records, sampled>>
  BY DEF Profiler!Enter
<1>3. ProfilerTypes'
  BY <1>1, <1>2 DEF ProfilerTypes
<1>4. /\ profiled[t] \in Seq(0..MaxTime) /\ now \in 0..MaxTime
      /\ profiled'[t] = Append(profiled[t], now)
      /\ \A u \in Profiled : u # t => profiled'[u] = profiled[u]
  BY <1>1, <1>2 DEF ProfilerTypes
<1>5. /\ Len(profiled'[t]) = Len(profiled[t]) + 1
      /\ \A k \in 1..Len(profiled[t]) : profiled'[t][k] = profiled[t][k]
      /\ profiled'[t][Len(profiled[t]) + 1] = now
  BY <1>4
<1>6. ScopesInOrder'
  <2> SUFFICES ASSUME NEW u \in Profiled, NEW k \in 1..Len(profiled'[u])
               PROVE  /\ profiled'[u][k] <= now
                      /\ \A i \in 1..k : profiled'[u][i] <= profiled'[u][k]
                      /\ sampled[u] # -1 => profiled'[u][k] <= sampled[u]
    BY <1>2 DEF ScopesInOrder
  <2>1. CASE u # t
    BY <1>1, <1>4, <2>1 DEF ScopesInOrder
  <2>2. CASE u = t /\ k <= Len(profiled[t])
    <3>1. k \in 1..Len(profiled[t]) /\ \A i \in 1..k : i \in 1..Len(profiled[t])
      BY <1>4, <2>2
    <3> QED BY <1>1, <1>4, <1>5, <2>2, <3>1 DEF ScopesInOrder
  <2>3. CASE u = t /\ k = Len(profiled[t]) + 1
    BY <1>1, <1>2, <1>4, <1>5, <2>3 DEF ScopesInOrder
  <2> QED BY <1>4, <1>5, <2>1, <2>2, <2>3
<1>7. SamplesArePast'
  BY <1>1, <1>2, <1>4 DEF SamplesArePast
<1>8. RecordsArePast'
  <2> SUFFICES ASSUME NEW j \in 1..Len(m_records), NEW u \in Profiled, IsOf(m_records[j], u)
               PROVE  PastRecord(m_records[j], profiled'[u], sampled[u], now)
    BY <1>1, <1>2 DEF RecordsArePast
  <2>1. PastRecord(m_records[j], profiled[u], sampled[u], now)
    BY <1>1 DEF RecordsArePast
  <2>2. CASE u = t
    <3>1. \A k \in 1..Len(profiled[t]) :
            m_records[j].m_end_ <= profiled[t][k] \/ profiled[t][k] <= m_records[j].m_begin_
      BY <2>1, <2>2 DEF PastRecord
    <3>2. \A k \in 1..Len(profiled'[t]) :
            m_records[j].m_end_ <= profiled'[t][k] \/ profiled'[t][k] <= m_records[j].m_begin_
      <4> SUFFICES ASSUME NEW k \in 1..Len(profiled'[t])
                   PROVE  \/ m_records[j].m_end_ <= profiled'[t][k]
                          \/ profiled'[t][k] <= m_records[j].m_begin_
        OBVIOUS
      <4>1. k \in 1..Len(profiled[t]) \/ k = Len(profiled[t]) + 1
        BY <1>4, <1>5
      <4> QED BY <1>5, <2>1, <3>1, <4>1 DEF PastRecord
    <3> QED BY <2>1, <2>2, <3>2 DEF PastRecord
  <2>3. CASE u # t
    BY <1>4, <2>1, <2>3
  <2> QED BY <2>2, <2>3
<1>9. PairsNest'
  BY <1>1, <1>2 DEF PairsNest
<1> QED BY <1>3, <1>6, <1>7, <1>8, <1>9 DEF ProfilerInv

(* The sample of a destructor is later than every record. *)
LEMMA ProfilerSampleInv ==
  ASSUME Profiler!ProfilerAssumption, ProfilerInv, NEW t \in Profiled, Profiler!Sample(t)
  PROVE  ProfilerInv'
<1>1. /\ ProfilerTypes /\ ScopesInOrder /\ SamplesArePast /\ RecordsArePast /\ PairsNest
  BY DEF ProfilerInv
<1>2. /\ sampled' = [sampled EXCEPT ![t] = now]
      /\ profiled[t] # <<>>
      /\ UNCHANGED <<now, m_is_started_, m_records, profiled>>
  BY DEF Profiler!Sample
<1>3. /\ now \in 0..MaxTime /\ sampled'[t] = now
      /\ \A u \in Profiled : u # t => sampled'[u] = sampled[u]
  BY <1>1, <1>2 DEF ProfilerTypes
<1>4. ProfilerTypes'
  BY <1>1, <1>2 DEF ProfilerTypes
<1>5. ScopesInOrder'
  BY <1>1, <1>2, <1>3 DEF ScopesInOrder
<1>6. SamplesArePast'
  BY <1>1, <1>2, <1>3 DEF SamplesArePast
<1>7. RecordsArePast'
  <2> SUFFICES ASSUME NEW j \in 1..Len(m_records), NEW u \in Profiled, IsOf(m_records[j], u)
               PROVE  PastRecord(m_records[j], profiled[u], sampled'[u], now)
    BY <1>1, <1>2 DEF RecordsArePast
  <2>1. PastRecord(m_records[j], profiled[u], sampled[u], now)
    BY <1>1 DEF RecordsArePast
  <2> QED BY <1>3, <2>1 DEF PastRecord
<1>8. PairsNest'
  BY <1>1, <1>2 DEF PairsNest
<1> QED BY <1>4, <1>5, <1>6, <1>7, <1>8 DEF ProfilerInv

(* A destructor with the lock adds the record of its innermost scope, or  *)
(* none, and the scope is over.                                            *)
LEMMA ProfilerLeaveInv ==
  ASSUME Profiler!ProfilerAssumption, ProfilerInv, NEW t \in Profiled, Profiler!Leave(t)
  PROVE  ProfilerInv'
<1> DEFINE n == Len(profiled[t])
           r == [m_begin_ |-> profiled[t][n], m_end_ |-> sampled[t],
                 m_thread_id_ |-> Profiler!Truncated(NativeId[t])]
<1>1. /\ ProfilerTypes /\ ScopesInOrder /\ SamplesArePast /\ RecordsArePast /\ PairsNest
  BY DEF ProfilerInv
<1>2. /\ sampled[t] # -1
      /\ profiled' = [profiled EXCEPT ![t] = SubSeq(profiled[t], 1, n - 1)]
      /\ sampled' = [sampled EXCEPT ![t] = -1]
      /\ m_records' = Append(m_records, r) \/ m_records' = m_records
      /\ UNCHANGED <<now, m_is_started_>>
  BY DEF Profiler!Leave, Profiler!Innermost, Profiler!hxthread_id
<1>3. /\ now \in 0..MaxTime /\ sampled[t] \in 0..now /\ n \in Nat \ {0}
      /\ profiled[t] \in Seq(0..MaxTime)
      /\ \A k \in 1..n : profiled[t][k] \in 0..MaxTime
  <2>1. now \in 0..MaxTime /\ profiled[t] \in Seq(0..MaxTime)
    BY <1>1 DEF ProfilerTypes
  <2>2. sampled[t] \in 0..now /\ profiled[t] # <<>>
    BY <1>1, <1>2 DEF SamplesArePast
  <2>3. n \in Nat \ {0} /\ \A k \in 1..n : profiled[t][k] \in 0..MaxTime
    BY <2>1, <2>2, SeqElements
  <2> QED BY <2>1, <2>2, <2>3
<1>4. /\ profiled[t][n] <= sampled[t]
      /\ \A k \in 1..n : profiled[t][k] <= profiled[t][n]
  BY <1>1, <1>2, <1>3 DEF ScopesInOrder
<1>5. r \in Profiler!Record
  <2>1. profiled[t][n] \in 0..MaxTime /\ sampled[t] \in 0..MaxTime
    BY <1>1, <1>2, <1>3 DEF ProfilerTypes
  <2>2. NativeId[t] \in Nat /\ IdCount \in Nat \ {0}
    BY DEF Profiler!ProfilerAssumption
  <2>3. Profiler!Truncated(NativeId[t]) \in 0..(IdCount - 1)
    BY <2>2 DEF Profiler!Truncated
  <2> QED BY <2>1, <2>3 DEF Profiler!Record
<1>6. /\ profiled'[t] = SubSeq(profiled[t], 1, n - 1) /\ sampled'[t] = -1
      /\ \A u \in Profiled : u # t => profiled'[u] = profiled[u] /\ sampled'[u] = sampled[u]
  BY <1>1, <1>2 DEF ProfilerTypes
<1>7. /\ profiled'[t] \in Seq(0..MaxTime) /\ Len(profiled'[t]) = n - 1
      /\ \A k \in 1..(n - 1) : profiled'[t][k] = profiled[t][k]
  <2>1. profiled[t] \in Seq(0..MaxTime) /\ n \in Nat \ {0}
    BY <1>3
  <2>2. profiled'[t] = SubSeq(profiled[t], 1, n - 1)
    BY <1>6
  <2> QED BY <2>1, <2>2, ButLastElement
<1>8. ProfilerTypes'
  <2>1. profiled' \in [Profiled -> Seq(0..MaxTime)]
    BY <1>1, <1>2, <1>6, <1>7 DEF ProfilerTypes
  <2>2. m_records' \in Seq(Profiler!Record)
    <3>1. m_records \in Seq(Profiler!Record)
      BY <1>1 DEF ProfilerTypes
    <3>2. Append(m_records, r) \in Seq(Profiler!Record)
      BY <1>5, <3>1
    <3> QED BY <1>2, <3>1, <3>2
  <2>3. sampled' \in [Profiled -> -1..MaxTime]
    <3>1. MaxTime \in Nat
      BY DEF Profiler!ProfilerAssumption
    <3> QED BY <1>1, <1>2, <3>1 DEF ProfilerTypes
  <2> QED BY <1>1, <1>2, <2>1, <2>2, <2>3 DEF ProfilerTypes
<1>9. ScopesInOrder'
  <2> SUFFICES ASSUME NEW u \in Profiled, NEW k \in 1..Len(profiled'[u])
               PROVE  /\ profiled'[u][k] <= now
                      /\ \A i \in 1..k : profiled'[u][i] <= profiled'[u][k]
                      /\ sampled'[u] # -1 => profiled'[u][k] <= sampled'[u]
    BY <1>2 DEF ScopesInOrder
  <2>1. CASE u # t
    BY <1>1, <1>6, <2>1 DEF ScopesInOrder
  <2>2. CASE u = t
    <3>1. k \in 1..n /\ \A i \in 1..k : i \in 1..(n - 1)
      BY <1>3, <1>7, <2>2
    <3> QED BY <1>1, <1>6, <1>7, <2>2, <3>1 DEF ScopesInOrder
  <2> QED BY <2>1, <2>2
<1>10. SamplesArePast'
  BY <1>1, <1>2, <1>6 DEF SamplesArePast
<1>11. ASSUME NEW j \in 1..Len(m_records), NEW u \in Profiled, IsOf(m_records[j], u)
       PROVE  /\ PastRecord(m_records[j], profiled[u], sampled[u], now)
              /\ PastRecord(m_records[j], profiled'[u], sampled'[u], now)
  <2>1. PastRecord(m_records[j], profiled[u], sampled[u], now)
    BY <1>1, <1>11 DEF RecordsArePast
  <2>2. CASE u = t
    <3>1. \A k \in 1..(n - 1) : k \in 1..n
      BY <1>3
    <3> QED BY <1>6, <1>7, <2>1, <2>2, <3>1 DEF PastRecord
  <2>3. CASE u # t
    BY <1>6, <2>1, <2>3
  <2> QED BY <2>1, <2>2, <2>3
<1>12. PastRecord(r, profiled'[t], sampled'[t], now)
  <2>1. \A k \in 1..(n - 1) : k \in 1..n
    BY <1>3
  <2>2. \A k \in 1..(n - 1) : profiled'[t][k] <= profiled[t][n]
    BY <1>4, <1>7, <2>1
  <2> QED BY <1>3, <1>4, <1>6, <1>7, <2>2 DEF PastRecord
<1>13. ASSUME NEW j \in 1..Len(m_records), IsOf(m_records[j], t)
       PROVE  ApartOrWithin(m_records[j], r)
  <2>1. PastRecord(m_records[j], profiled[t], sampled[t], now)
    BY <1>11, <1>13
  <2>2. sampled[t] # -1 /\ n \in 1..Len(profiled[t])
    BY <1>2, <1>3
  <2> HIDE DEF n
  <2>3. /\ m_records[j].m_end_ <= sampled[t]
        /\ m_records[j].m_end_ <= profiled[t][n] \/ profiled[t][n] <= m_records[j].m_begin_
    BY <2>1, <2>2 DEF PastRecord
  <2> QED BY <2>3 DEF ApartOrWithin
<1>14. \A u \in Profiled : IsOf(r, u) => u = t
  BY DEF IsOf, Profiler!HasOwnId
<1>15. r.m_begin_ <= r.m_end_ /\ r.m_end_ <= now
  BY <1>12 DEF PastRecord
<1> HIDE DEF r, n
<1>16. CASE m_records' = m_records
  <2>1. RecordsArePast' /\ PairsNest'
    BY <1>1, <1>2, <1>11, <1>16 DEF RecordsArePast, PairsNest
  <2> QED BY <1>8, <1>9, <1>10, <2>1 DEF ProfilerInv
<1>17. CASE m_records' = Append(m_records, r)
  <2>1. /\ Len(m_records') = Len(m_records) + 1 /\ Len(m_records) \in Nat
        /\ \A j \in 1..Len(m_records) : m_records'[j] = m_records[j]
        /\ m_records'[Len(m_records) + 1] = r
    BY <1>1, <1>5, <1>17 DEF ProfilerTypes
  <2>3. RecordsArePast'
    <3> SUFFICES ASSUME NEW j \in 1..Len(m_records')
                 PROVE  /\ m_records'[j].m_begin_ <= m_records'[j].m_end_
                        /\ m_records'[j].m_end_ <= now
                        /\ \A u \in Profiled : IsOf(m_records'[j], u) =>
                             PastRecord(m_records'[j], profiled'[u], sampled'[u], now)
      BY <1>2 DEF RecordsArePast
    <3>1. CASE j \in 1..Len(m_records)
      BY <1>1, <1>11, <2>1, <3>1 DEF RecordsArePast
    <3>2. CASE j = Len(m_records) + 1
      BY <1>14, <1>12, <1>15, <2>1, <3>2
    <3> QED BY <2>1, <3>1, <3>2
  <2>4. PairsNest'
    <3> SUFFICES ASSUME NEW u \in Profiled, NEW j \in 1..Len(m_records'), NEW i \in 1..(j - 1),
                        IsOf(m_records'[i], u), IsOf(m_records'[j], u)
                 PROVE  ApartOrWithin(m_records'[i], m_records'[j])
      BY DEF PairsNest
    <3>1. CASE j \in 1..Len(m_records)
      <4>1. i \in 1..Len(m_records)
        BY <2>1, <3>1
      <4> QED BY <1>1, <2>1, <3>1, <4>1 DEF PairsNest
    <3>2. CASE j = Len(m_records) + 1
      <4>1. i \in 1..Len(m_records)
        BY <2>1, <3>2
      <4>2. u = t
        BY <1>14, <2>1, <3>2
      <4> QED BY <1>13, <2>1, <3>2, <4>1, <4>2
    <3> QED BY <2>1, <3>1, <3>2
  <2> QED BY <1>8, <1>9, <1>10, <2>3, <2>4 DEF ProfilerInv
<1> QED BY <1>2, <1>16, <1>17

(* For any ids of the threads, the records with an id that one thread has  *)
(* alone are those of nested scopes, however threads, start and stop come  *)
(* between the sample of a scope and its record.                           *)
THEOREM ProfilerRecordsNest ==
  ASSUME Profiler!ProfilerAssumption
  PROVE  ServicesSpec => []RecordsNest
<1>1. ServicesInit => ProfilerInv
  BY ProfilerInitInv DEF ServicesInit, ServicesAre
<1>2. ProfilerInv /\ [ServicesNext]_serviceVars => ProfilerInv'
  <2> SUFFICES ASSUME ProfilerInv, [ServicesNext]_serviceVars PROVE ProfilerInv'
    OBVIOUS
  <2>1. Profiler!ProfilerNext \/ UNCHANGED profiler
    BY DEF ServicesNext, serviceVars
  <2> QED
    BY <2>1, ProfilerClockInv, ProfilerEnterInv, ProfilerSampleInv, ProfilerLeaveInv
    DEF Profiler!ProfilerNext
<1>3. ProfilerInv => RecordsNest
  BY RecordsNestFromInv
<1> QED BY <1>1, <1>2, <1>3, PTL DEF ServicesSpec
-----------------------------------------------------------------------------
(***************************************************************************)
(* The console, for any commands, types, scripts and lines.  A script is   *)
(* left when a line of it failed, because the result and the history of    *)
(* failures are each other's negation in every state.                      *)
(***************************************************************************)
Frame == [path : DOMAIN Script, next : Nat \ {0}]

ResultTells == result \in BOOLEAN /\ failed = ~result

ConsoleInv ==
  /\ commands \subseteq Symbol
  /\ frames \in Seq(Frame)
  /\ ResultTells
  /\ ArgumentsAreExact

(* A number that is in the range of its type is not changed by a cast. *)
LEMMA CastInRange ==
  ASSUME NEW type \in DOMAIN Console!TypeRange, NEW v \in Console!TypeRange[type]
  PROVE  Console!Cast(type, v) = v
<1>1. CASE type = "bool"
  BY <1>1 DEF Console!Cast, Console!TypeRange
<1>2. CASE type \in {"i8", "u8"}
  <2>1. \A c \in Console!TypeRange[type] : (c - v) % 4 = 0 <=> c = v
    BY <1>2 DEF Console!TypeRange
  <2>2. type # "bool"
    BY <1>2
  <2>3. Console!Cast(type, v) = CHOOSE c \in Console!TypeRange[type] : (c - v) % 4 = 0
    BY <1>2, <2>2 DEF Console!Cast
  <2> QED BY <2>1, <2>3
<1>3. CASE type \in {"i64", "u64"}
  <2>1. \A c \in Console!TypeRange[type] : (c - v) % 16 = 0 <=> c = v
    BY <1>3 DEF Console!TypeRange, Console!Long, Console!ULong
  <2>2. type # "bool" /\ type \notin {"i8", "u8"}
    BY <1>3
  <2>3. Console!Cast(type, v) = CHOOSE c \in Console!TypeRange[type] : (c - v) % 16 = 0
    BY <2>2 DEF Console!Cast
  <2> QED BY <2>1, <2>3
<1> QED BY <1>1, <1>2, <1>3 DEF Console!TypeRange

(* What parses as an argument is a number of the type, and is passed on as *)
(* it is: the range of a type is checked before the cast.                  *)
LEMMA ArgumentIsNumber ==
  ASSUME NEW type \in DOMAIN Console!TypeRange, NEW token \in Console!Token,
         Console!hxconsole_parse_arg_(type, token).moved
  PROVE  LET v == Console!hxconsole_parse_arg_(type, token).value
         IN token = [kind |-> "number", value |-> v] /\ v \in Console!TypeRange[type]
<1> DEFINE r == IF Console!IsSigned(type) THEN Console!Strtol(token) ELSE Console!Strtoul(token)
<1>1. /\ r.moved /\ r.value \in Console!TypeRange[type]
      /\ Console!hxconsole_parse_arg_(type, token).value = Console!Cast(type, r.value)
  BY DEF Console!hxconsole_parse_arg_
<1>2. token.kind = "number" /\ token.value = r.value
  <2>1. CASE r = Console!Strtol(token)
    <3>1. token.kind = "number" /\ token.value \in -8..7
      <4>1. Console!Strtol(token).moved
              = (token.kind = "number" /\ token.value \in Console!Long)
        BY Zenon DEF Console!Strtol
      <4> QED BY <1>1, <2>1, <4>1 DEF Console!Long
    <3>2. r.value = token.value
      BY <2>1, <3>1 DEF Console!Strtol
    <3> QED BY <3>1, <3>2
  <2>2. CASE r = Console!Strtoul(token)
    <3>1. token.kind = "number" /\ token.value \in 0..15
      <4>1. CASE token.kind = "number" /\ token.value >= 0
        <5>1. Console!Strtoul(token).moved = (token.value \in Console!ULong)
          BY <4>1, Zenon DEF Console!Strtoul
        <5> QED BY <1>1, <2>2, <4>1, <5>1 DEF Console!ULong
      <4>2. CASE ~(token.kind = "number" /\ token.value >= 0)
        BY <1>1, <2>2, <4>2 DEF Console!Strtoul
      <4> QED BY <4>1, <4>2
    <3>2. r.value = token.value
      BY <2>2, <3>1 DEF Console!Strtoul
    <3> QED BY <3>1, <3>2
  <2> QED BY <2>1, <2>2
<1> HIDE DEF r
<1>3. Console!Cast(type, r.value) = r.value
  BY <1>1, CastInRange
<1> QED BY <1>1, <1>2, <1>3 DEF Console!Token

(* A call gets the numbers of its line, no fewer and no more.              *)
LEMMA CallIsExact ==
  ASSUME NEW l \in Console!LineType, NEW types \in Seq(DOMAIN Console!TypeRange),
         Console!Parses(types, l.tokens)
  PROVE  LET values == Console!Parsed(types, l.tokens)
         IN /\ Len(values) = Len(types)
            /\ \A i \in 1..Len(types) :
                 /\ l.tokens[i] = [kind |-> "number", value |-> values[i]]
                 /\ values[i] \in Console!TypeRange[types[i]]
            /\ Len(l.tokens) = Len(types) \/ l.tokens[Len(types) + 1].kind = "comment"
<1>1. l.tokens \in Seq(Console!Token) /\ Len(l.tokens) \in Nat /\ Len(types) \in Nat
  BY DEF Console!LineType
<1>2. /\ Len(l.tokens) >= Len(types)
      /\ \A i \in 1..Len(types) :
           Console!hxconsole_parse_arg_(types[i], l.tokens[i]).moved
      /\ Console!hxconsole_is_end_of_line_(SubSeq(l.tokens, Len(types) + 1, Len(l.tokens)))
  BY DEF Console!Parses
<1>3. Len(Console!Parsed(types, l.tokens)) = Len(types)
  BY <1>1 DEF Console!Parsed
<1>4. ASSUME NEW i \in 1..Len(types)
      PROVE  /\ l.tokens[i] = [kind |-> "number", value |-> Console!Parsed(types, l.tokens)[i]]
             /\ Console!Parsed(types, l.tokens)[i] \in Console!TypeRange[types[i]]
  <2>1. types[i] \in DOMAIN Console!TypeRange /\ l.tokens[i] \in Console!Token
    BY <1>1, <1>2, SeqElements
  <2>2. Console!Parsed(types, l.tokens)[i]
          = Console!hxconsole_parse_arg_(types[i], l.tokens[i]).value
    BY DEF Console!Parsed
  <2>3. Console!hxconsole_parse_arg_(types[i], l.tokens[i]).moved
    BY <1>2
  <2> QED BY <2>1, <2>2, <2>3, ArgumentIsNumber
<1>5. CASE Len(l.tokens) > Len(types)
  <2> DEFINE m == Len(types) + 1
             rest == SubSeq(l.tokens, m, Len(l.tokens))
  <2>1. m \in 1..Len(l.tokens)
    BY <1>1, <1>5
  <2>2. Len(rest) = Len(l.tokens) - m + 1 /\ rest[1] = l.tokens[m]
    <3> HIDE DEF m
    <3> QED BY <1>1, <2>1
  <2>3. rest # <<>>
    <3>1. Len(rest) # 0
      BY <1>1, <2>1, <2>2
    <3> QED BY <3>1
  <2>4. rest[1].kind = "comment"
    BY <1>2, <2>3 DEF Console!hxconsole_is_end_of_line_
  <2> QED BY <1>3, <1>4, <2>2, <2>4
<1> QED BY <1>1, <1>2, <1>3, <1>4, <1>5

(* A line that is done, or has started a file. *)
Finished(stack) == \E ok \in BOOLEAN : Console!Finish(ok, stack)
Started(stack) == \E p \in DOMAIN Script : Console!Start(p, stack)

(* What the execution of a line does to the stack of files, to the         *)
(* registered symbols and to what is remembered of calls.                  *)
LEMMA LineOutcome ==
  ASSUME Console!ConsoleAssumption, NEW l, NEW newline, NEW stack,
         Console!hxconsole_exec_line(l, newline, stack)
  PROVE  /\ line' = l
         /\ Finished(stack) \/ Started(stack)
         /\ commands' \subseteq commands
         /\ \/ called' = called
            \/ /\ l.symbol \in commands
               /\ Console!Parses(Types[l.symbol], l.tokens)
               /\ called' = [line |-> l, values |-> Console!Parsed(Types[l.symbol], l.tokens)]
<1>1. line' = l
  BY DEF Console!hxconsole_exec_line
<1>2. CASE /\ Console!Finish(l.symbol = Console!Blank, stack)
           /\ UNCHANGED <<commands, value, called>>
  BY <1>1, <1>2 DEF Finished
<1>3. CASE l.symbol \in commands /\ Console!Execute(l.symbol, l, newline, stack)
  <2> DEFINE none == Console!hxconsole_is_end_of_line_(l.tokens)
             values == Console!Parsed(Types[l.symbol], l.tokens)
  <2>1. \/ Console!Finish(TRUE, stack) \/ Console!Finish(FALSE, stack)
        \/ Console!Finish(none, stack)
        \/ Console!Start(BootPath, stack)
        \/ /\ Console!NamesFile(l.tokens, newline)
           /\ Console!Start(l.tokens[1].value, stack)
    BY <1>3, Zenon DEF Console!Execute
  <2>2. none \in BOOLEAN
    BY DEF Console!hxconsole_is_end_of_line_
  <2>3. BootPath \in DOMAIN Script
    BY DEF Console!ConsoleAssumption
  <2>4. Finished(stack) \/ Started(stack)
    BY <2>1, <2>2, <2>3, Zenon DEF Finished, Started, Console!NamesFile
  <2>5. commands' \subseteq commands
    BY <1>3 DEF Console!Execute
  <2>6. \/ called' = called
        \/ /\ Console!Parses(Types[l.symbol], l.tokens)
           /\ called' = [line |-> l, values |-> values]
    BY <1>3, Zenon DEF Console!Execute
  <2> QED BY <1>1, <1>3, <2>4, <2>5, <2>6
<1> QED BY <1>2, <1>3, Zenon DEF Console!hxconsole_exec_line

(* A line that is executed when no earlier one of its files failed keeps   *)
(* the invariant, and does not leave the file that it is in.               *)
LEMMA ConsoleLineInv ==
  ASSUME Console!ConsoleAssumption, ConsoleInv, NEW l \in Console!LineType, NEW newline,
         NEW stack \in Seq(Frame), stack # <<>> => result,
         Console!hxconsole_exec_line(l, newline, stack)
  PROVE  ConsoleInv' /\ Len(frames') >= Len(stack)
<1>1. /\ line' = l
      /\ Finished(stack) \/ Started(stack)
      /\ commands' \subseteq commands
      /\ \/ called' = called
         \/ /\ l.symbol \in commands
            /\ Console!Parses(Types[l.symbol], l.tokens)
            /\ called' = [line |-> l, values |-> Console!Parsed(Types[l.symbol], l.tokens)]
  BY LineOutcome
<1>2. ~(stack # <<>> /\ failed)
  BY DEF ConsoleInv, ResultTells
<1>3. ResultTells' /\ (frames' = stack \/ Started(stack))
  <2>1. ASSUME NEW ok \in BOOLEAN, Console!Finish(ok, stack)
        PROVE  ResultTells' /\ frames' = stack
    BY <1>2, <2>1 DEF Console!Finish, ResultTells
  <2>2. ASSUME NEW p \in DOMAIN Script, Console!Start(p, stack)
        PROVE  ResultTells'
    BY <1>2, <2>2 DEF Console!Start, ResultTells
  <2> QED BY <1>1, <2>1, <2>2 DEF Finished, Started
<1>4. frames' \in Seq(Frame) /\ Len(frames') >= Len(stack)
  <2>1. CASE frames' = stack
    BY <2>1
  <2>2. ASSUME NEW p \in DOMAIN Script, Console!Start(p, stack)
        PROVE  frames' \in Seq(Frame) /\ Len(frames') >= Len(stack)
    <3> DEFINE f == [path |-> p, next |-> 1]
    <3>1. frames' = Append(stack, f)
      BY <2>2 DEF Console!Start
    <3>2. f \in Frame
      BY DEF Frame
    <3> HIDE DEF f
    <3> QED BY <3>1, <3>2
  <2> QED BY <1>3, <2>1, <2>2 DEF Started
<1>5. ArgumentsAreExact'
  <2>1. CASE called' = called
    BY <2>1 DEF ConsoleInv, ArgumentsAreExact, Console!ArgumentsExact
  <2>2. CASE /\ l.symbol \in commands
             /\ Console!Parses(Types[l.symbol], l.tokens)
             /\ called' = [line |-> l, values |-> Console!Parsed(Types[l.symbol], l.tokens)]
    <3>1. Types[l.symbol] \in Seq(DOMAIN Console!TypeRange)
      BY <2>2 DEF ConsoleInv, Console!ConsoleAssumption
    <3>2. /\ called'.line.tokens = l.tokens /\ called'.line.symbol = l.symbol
          /\ called'.values = Console!Parsed(Types[l.symbol], l.tokens)
      BY <2>2
    <3> QED BY <2>2, <3>1, <3>2, CallIsExact DEF ArgumentsAreExact, Console!ArgumentsExact
  <2> QED BY <1>1, <2>1, <2>2
<1> QED BY <1>1, <1>3, <1>4, <1>5 DEF ConsoleInv

(* The next line of the innermost file. *)
LEMMA NextLineInv ==
  ASSUME Console!ConsoleAssumption, ConsoleInv, Console!NextLine
  PROVE  ConsoleInv' /\ Len(frames') >= Len(frames)
<1> DEFINE n == Len(frames)
           frame == frames[n]
           rest == SubSeq(frames, 1, n - 1)
           l == Script[frame.path].lines[frame.next]
           stack == Append(rest, [frame EXCEPT !.next = @ + 1])
<1>1. /\ frames # <<>> /\ result /\ frame.next <= Len(Script[frame.path].lines)
      /\ \E newline : Console!hxconsole_exec_line(l, newline, stack)
  BY DEF Console!NextLine, Console!HasNext, Console!Top, Console!Below
<1>2. frames \in Seq(Frame) /\ n \in Nat \ {0} /\ frame \in Frame
  BY <1>1, SeqElements DEF ConsoleInv
<1>3. rest \in Seq(Frame) /\ Len(rest) = n - 1
  BY <1>2, ButLastElement
<1>4. [frame EXCEPT !.next = @ + 1] \in Frame
  BY <1>2 DEF Frame
<1>5. l \in Console!LineType
  <2>1. Script[frame.path].lines \in Seq(Console!LineType)
    BY <1>2 DEF Console!ConsoleAssumption, Frame
  <2>2. frame.next \in 1..Len(Script[frame.path].lines)
    BY <1>1, <1>2, <2>1 DEF Frame
  <2> QED BY <2>1, <2>2, SeqElements
<1> HIDE DEF n, frame, rest, l
<1>6. stack \in Seq(Frame) /\ Len(stack) = n
  BY <1>2, <1>3, <1>4
<1> HIDE DEF stack
<1> QED BY <1>1, <1>5, <1>6, ConsoleLineInv DEF n

(* A file that was read to its end, or is left because a line failed. *)
LEMMA EndFileFacts ==
  ASSUME Console!ConsoleAssumption, ConsoleInv, Console!EndFile
  PROVE  /\ ConsoleInv'
         /\ UNCHANGED <<commands, value, called, result, line, failed>>
         /\ result => Console!Top.next > Len(Script[Console!Top.path].lines)
<1>1. /\ frames # <<>> /\ ~Console!HasNext
      /\ frames' = SubSeq(frames, 1, Len(frames) - 1)
      /\ UNCHANGED <<commands, value, called, result, line, failed>>
  BY DEF Console!EndFile, Console!Below
<1>2. frames' \in Seq(Frame)
  BY <1>1, SeqElements, ButLastElement DEF ConsoleInv
<1>3. ConsoleInv'
  BY <1>1, <1>2 DEF ConsoleInv, ResultTells, ArgumentsAreExact, Console!ArgumentsExact
<1>4. /\ Console!Top.next \in Nat
      /\ Len(Script[Console!Top.path].lines) \in Nat
  <2>1. Console!Top \in Frame
    BY <1>1, SeqElements DEF Console!Top, ConsoleInv
  <2>2. Script[Console!Top.path].lines \in Seq(Console!LineType)
    BY <2>1 DEF Frame, Console!ConsoleAssumption
  <2> QED BY <2>1, <2>2 DEF Frame
<1>5. result => ~(Console!Top.next <= Len(Script[Console!Top.path].lines))
  BY <1>1 DEF Console!HasNext
<1> QED BY <1>1, <1>3, <1>4, <1>5

(* Lines are typed, and commands come and go, only outside of any file. *)
LEMMA OutsideInv ==
  ASSUME Console!ConsoleAssumption, ConsoleInv,
         \/ \E l \in Typed : Console!TypeLine(l)
         \/ \E s \in Late : \/ Console!hxconsole_register_(s)
                           \/ Console!hxconsole_deregister(s)
  PROVE  ConsoleInv' /\ frames = <<>>
<1>1. ASSUME NEW l \in Typed, Console!TypeLine(l)
      PROVE  ConsoleInv' /\ frames = <<>>
  <2>1. l \in Console!LineType /\ frames = <<>> /\ Console!hxconsole_exec_line(l, FALSE, <<>>)
    BY <1>1 DEF Console!TypeLine, Console!ConsoleAssumption
  <2>2. <<>> \in Seq(Frame)
    OBVIOUS
  <2> QED BY <2>1, <2>2, ConsoleLineInv
<1>2. ASSUME NEW s \in Late,
             Console!hxconsole_register_(s) \/ Console!hxconsole_deregister(s)
      PROVE  ConsoleInv' /\ frames = <<>>
  <2>1. /\ frames = <<>> /\ commands' \subseteq Symbol
        /\ UNCHANGED <<called, frames, result, failed>>
    BY <1>2
    DEF Console!hxconsole_register_, Console!hxconsole_deregister, Console!ConsoleAssumption,
        ConsoleInv
  <2> QED BY <2>1 DEF ConsoleInv, ResultTells, ArgumentsAreExact, Console!ArgumentsExact
<1> QED BY <1>1, <1>2

(* Every step of the console. *)
LEMMA ConsoleStepInv ==
  ASSUME Console!ConsoleAssumption, ConsoleInv, Console!ConsoleNext
  PROVE  ConsoleInv' /\ Console!FailureStep
<1>1. CASE Console!NextLine
  <2>1. ConsoleInv' /\ Len(frames') >= Len(frames)
    BY <1>1, NextLineInv
  <2>2. result /\ frames # <<>> /\ Len(frames) \in Nat \ {0}
    BY <1>1, SeqElements DEF Console!NextLine, Console!HasNext, ConsoleInv
  <2>3. ~failed
    BY <2>2, Zenon DEF ConsoleInv, ResultTells
  <2>4. frames' # <<>> /\ ~(Len(frames') < Len(frames))
    <3>1. frames' \in Seq(Frame) /\ Len(frames') # 0
      BY <2>1, <2>2 DEF ConsoleInv
    <3> QED BY <2>1, <2>2, <3>1
  <2> QED BY <2>1, <2>3, <2>4, Zenon DEF Console!FailureStep
<1>2. CASE Console!EndFile
  <2>1. /\ ConsoleInv'
        /\ UNCHANGED <<commands, value, called, result, line, failed>>
        /\ result => Console!Top.next > Len(Script[Console!Top.path].lines)
    BY <1>2, EndFileFacts
  <2>2. /\ UNCHANGED <<commands, value, called, line>>
        /\ result <=> ~failed
        /\ result' <=> ~failed'
    BY <2>1, Zenon DEF ConsoleInv, ResultTells
  <2> QED BY <2>1, <2>2, Zenon DEF Console!FailureStep
<1>3. CASE \/ \E l \in Typed : Console!TypeLine(l)
           \/ \E s \in Late : \/ Console!hxconsole_register_(s)
                             \/ Console!hxconsole_deregister(s)
  <2>1. ConsoleInv' /\ frames = <<>>
    BY <1>3, OutsideInv
  <2>2. ~(Len(frames') < Len(frames))
    BY <2>1 DEF ConsoleInv
  <2> QED BY <2>1, <2>2, Zenon DEF Console!FailureStep
<1> QED BY <1>1, <1>2, <1>3 DEF Console!ConsoleNext

(* The invariant of the console in the program that uses the services.     *)
LEMMA ConsoleAlways ==
  ASSUME Console!ConsoleAssumption
  PROVE  ServicesSpec => []ConsoleInv
<1>1. ServicesInit => ConsoleInv
  <2> SUFFICES ASSUME Console!ConsoleInit PROVE ConsoleInv
    BY DEF ServicesInit, ServicesAre
  <2>1. /\ commands \subseteq Symbol /\ frames = <<>> /\ called.line = Console!Nothing
        /\ result = TRUE /\ failed = FALSE
    BY DEF Console!ConsoleInit
  <2>2. frames \in Seq(Frame)
    BY <2>1
  <2>3. ResultTells
    BY <2>1, Zenon DEF ResultTells
  <2> QED BY <2>1, <2>2, <2>3 DEF ConsoleInv, ArgumentsAreExact, Console!ArgumentsExact
<1>2. ConsoleInv /\ [ServicesNext]_serviceVars => ConsoleInv'
  <2> SUFFICES ASSUME ConsoleInv, [ServicesNext]_serviceVars PROVE ConsoleInv'
    OBVIOUS
  <2>1. Console!ConsoleNext \/ UNCHANGED console
    BY DEF ServicesNext, serviceVars
  <2>2. CASE UNCHANGED console
    BY <2>2 DEF console, ConsoleInv, ResultTells, ArgumentsAreExact, Console!ArgumentsExact
  <2> QED BY <2>1, <2>2, ConsoleStepInv
<1> QED BY <1>1, <1>2, PTL DEF ServicesSpec

(* The arguments of every call are the numbers of its line, each within    *)
(* the range of its parameter, however commands come and go and files      *)
(* execute files.                                                          *)
THEOREM ArgumentsStayExact ==
  ASSUME Console!ConsoleAssumption
  PROVE  ServicesSpec => []ArgumentsAreExact
<1>1. ConsoleInv => ArgumentsAreExact
  BY DEF ConsoleInv
<1> QED BY <1>1, ConsoleAlways, PTL

(* After a failed line no other line runs in any of the files that are     *)
(* being executed, and the typed line fails if and only if one failed;     *)
(* a stopped profiler keeps its records.                                   *)
THEOREM ServicesStepSafely ==
  ASSUME Console!ConsoleAssumption
  PROVE  ServicesSpec => ServiceSteps
<1>1. ConsoleInv /\ [ServicesNext]_serviceVars
        => [Console!FailureStep /\ Profiler!StoppedStep]_serviceVars
  <2> SUFFICES ASSUME ConsoleInv, ServicesNext
               PROVE  Console!FailureStep /\ Profiler!StoppedStep
    OBVIOUS
  <2>1. ASSUME UNCHANGED console
        PROVE  Console!FailureStep
    <3>1. frames' = frames /\ UNCHANGED <<commands, value, called, line>>
      BY <2>1 DEF console
    <3>2. ~(Len(frames) < Len(frames))
      BY DEF ConsoleInv
    <3> QED BY <3>1, <3>2, Zenon DEF Console!FailureStep
  <2>2. ASSUME UNCHANGED profiler \/ Profiler!ProfilerNext
        PROVE  Profiler!StoppedStep
    <3>1. CASE m_records' = m_records
      BY <3>1 DEF Profiler!StoppedStep
    <3>2. CASE Profiler!start_
      BY <3>2, Zenon DEF Profiler!start_, Profiler!StoppedStep
    <3>3. ASSUME NEW t \in Profiled, Profiler!Leave(t)
          PROVE  m_is_started_ \/ m_records' = m_records
      BY <3>3 DEF Profiler!Leave
    <3>4. \/ m_records' = m_records \/ Profiler!start_
          \/ \E t \in Profiled : Profiler!Leave(t)
      BY <2>2
      DEF profiler, Profiler!ProfilerNext, Profiler!Tick, Profiler!Enter, Profiler!Sample,
          Profiler!stop_
    <3> QED BY <3>1, <3>2, <3>3, <3>4 DEF Profiler!StoppedStep
  <2>3. Console!ConsoleNext \/ UNCHANGED console
    BY DEF ServicesNext
  <2>4. Profiler!ProfilerNext \/ UNCHANGED profiler
    BY DEF ServicesNext
  <2> QED BY <2>1, <2>2, <2>3, <2>4, ConsoleStepInv
<1> QED BY <1>1, ConsoleAlways, PTL DEF ServicesSpec, ServiceSteps
-----------------------------------------------------------------------------
(***************************************************************************)
(* The test runner, for any tests, suites, lines and limits.  The counters *)
(* are those of the verdicts because no test runs twice, so that each      *)
(* verdict is that of a test which had none; and a test passes for what it *)
(* checked because its state tells which checks there were so far.         *)
(***************************************************************************)
With(v) == {t \in Case : verdict[t] = v}
Ran == {m_test_cases_[i] : i \in 1..(it_ - 1)}

CasesDiffer ==
  \A i, j \in 1..Len(m_test_cases_) : m_test_cases_[i] = m_test_cases_[j] => i = j

CasesInOrder ==
  test_pc # "idle" =>
    \A i, j \in 1..Len(m_test_cases_) :
      i < j => Tests!hxtest_case_sort_(m_test_cases_[i], m_test_cases_[j])

CaseIsNext ==
  /\ test_pc = "next" => it_ \in 1..Len(m_test_cases_) + 1
  /\ test_pc \in {"test", "halted"} =>
       it_ \in 1..Len(m_test_cases_) /\ Tests!Selected(m_test_cases_[it_])

StateTells ==
  test_pc = "test" =>
    /\ runner.m_test_state_ = "nothing_asserted" <=> seen = {}
    /\ runner.m_test_state_ = "pass" <=> seen = {TRUE}

VerdictsCount ==
  test_pc \in {"next", "test"} =>
    /\ IsFiniteSet(With("pass")) /\ runner.m_pass_count_ = Cardinality(With("pass"))
    /\ IsFiniteSet(With("fail")) /\ runner.m_fail_count_ = Cardinality(With("fail"))
    /\ \A t \in Case : verdict[t] = "skipped" <=> t \notin Ran \/ ~Tests!Selected(t)

StackIsCharged ==
  test_pc \in {"next", "test"} /\ temp_stack # "empty" => With("fail") # {}

ResultCounts ==
  test_pc = "idle" /\ test_result # -1 =>
    test_result = IF Cardinality(With("fail")) = 0 /\ With("pass") = {} THEN 1
                  ELSE Cardinality(With("fail"))

TestsInv ==
  /\ Tests!TestTypeOK /\ CasesDiffer /\ CasesInOrder /\ CaseIsNext
  /\ StateTells /\ VerdictsCount /\ StackIsCharged /\ ResultCounts /\ Tests!HaltsEarly

(* What a check does to the counters, if it holds and if not. *)
LEMMA CheckTells ==
  ASSUME NEW r \in Tests!Counters
  PROVE  /\ Tests!condition_check_(r, TRUE) \in Tests!Counters
         /\ Tests!condition_check_(r, FALSE) \in Tests!Counters
         /\ Tests!condition_check_(r, TRUE).m_test_state_
              = IF r.m_test_state_ # "fail" THEN "pass" ELSE "fail"
         /\ Tests!condition_check_(r, FALSE).m_test_state_ = "fail"
         /\ Tests!condition_check_(r, TRUE).m_assert_count_ = r.m_assert_count_
         /\ Tests!condition_check_(r, FALSE).m_assert_count_ = r.m_assert_count_ + 1
         /\ \A condition \in BOOLEAN :
              /\ Tests!condition_check_(r, condition).m_pass_count_ = r.m_pass_count_
              /\ Tests!condition_check_(r, condition).m_fail_count_ = r.m_fail_count_
<1> DEFINE r1 == Tests!condition_check_(r, TRUE)
           r0 == Tests!condition_check_(r, FALSE)
<1>1. /\ r1 = [r EXCEPT !.m_test_state_ =
                  IF r.m_test_state_ # "fail" THEN "pass" ELSE "fail"]
      /\ r0 = [r EXCEPT !.m_test_state_ = "fail", !.m_assert_count_ = @ + 1,
                        !.m_total_assert_count_ = @ + 1]
  BY DEF Tests!condition_check_, Tests!Counters
<1> HIDE DEF r1, r0
<1>2. /\ r1 \in Tests!Counters
      /\ r1.m_test_state_ = IF r.m_test_state_ # "fail" THEN "pass" ELSE "fail"
      /\ r1.m_assert_count_ = r.m_assert_count_
      /\ r1.m_pass_count_ = r.m_pass_count_ /\ r1.m_fail_count_ = r.m_fail_count_
  <2>1. PICK s \in {"pass", "fail"} :
          s = IF r.m_test_state_ # "fail" THEN "pass" ELSE "fail"
    OBVIOUS
  <2>2. r1 = [r EXCEPT !.m_test_state_ = s]
    BY <1>1, <2>1
  <2>3. /\ r1 \in Tests!Counters /\ r1.m_test_state_ = s
        /\ r1.m_assert_count_ = r.m_assert_count_
        /\ r1.m_pass_count_ = r.m_pass_count_ /\ r1.m_fail_count_ = r.m_fail_count_
    BY <2>2 DEF Tests!Counters
  <2> QED BY <2>1, <2>3
<1>3. /\ r0 \in Tests!Counters
      /\ r0.m_test_state_ = "fail" /\ r0.m_assert_count_ = r.m_assert_count_ + 1
      /\ r0.m_pass_count_ = r.m_pass_count_ /\ r0.m_fail_count_ = r.m_fail_count_
  <2>1. PICK n \in Nat, m \in Nat :
          n = r.m_assert_count_ + 1 /\ m = r.m_total_assert_count_ + 1
    BY DEF Tests!Counters
  <2>2. r0 = [r EXCEPT !.m_test_state_ = "fail", !.m_assert_count_ = n,
                       !.m_total_assert_count_ = m]
    BY <1>1, <2>1 DEF Tests!Counters
  <2>3. /\ r0 \in Tests!Counters
        /\ r0.m_test_state_ = "fail" /\ r0.m_assert_count_ = n
        /\ r0.m_pass_count_ = r.m_pass_count_ /\ r0.m_fail_count_ = r.m_fail_count_
    BY <2>2 DEF Tests!Counters
  <2> QED BY <2>1, <2>3
<1> QED BY <1>2, <1>3, Zenon DEF r1, r0

(* What a check that fails, or one that holds, makes of those before it. *)
LEMMA SeenNow ==
  ASSUME NEW s \in SUBSET BOOLEAN
  PROVE  /\ s \union {FALSE} # {} /\ s \union {FALSE} # {TRUE}
         /\ s \union {TRUE} # {}
         /\ s \union {TRUE} = {TRUE} <=> s = {} \/ s = {TRUE}
<1>1. s \union {FALSE} # {} /\ s \union {TRUE} # {}
  BY Zenon
<1>2. s \union {FALSE} # {TRUE}
  <2>1. FALSE \in s \union {FALSE} /\ FALSE \notin {TRUE}
    BY Zenon
  <2> QED BY <2>1, Zenon
<1>3. s = {} \/ s = {TRUE} => s \union {TRUE} = {TRUE}
  BY Zenon
<1>4. s \union {TRUE} = {TRUE} => s \subseteq {TRUE}
  BY Zenon
<1>5. s \subseteq {TRUE} => s = {} \/ s = {TRUE}
  BY Zenon
<1> QED BY <1>1, <1>2, <1>3, <1>4, <1>5, Zenon

(* A verdict on a test that had none is one more of its kind. *)
LEMMA OneMoreVerdict ==
  ASSUME Tests!TestTypeOK, NEW c \in Case, verdict[c] = "skipped",
         NEW v \in {"pass", "fail"}, NEW u \in {"pass", "fail"}, u # v,
         verdict' = [verdict EXCEPT ![c] = v],
         IsFiniteSet(With(v)), IsFiniteSet(With(u))
  PROVE  /\ IsFiniteSet(With(v)') /\ Cardinality(With(v)') = Cardinality(With(v)) + 1
         /\ IsFiniteSet(With(u)') /\ Cardinality(With(u)') = Cardinality(With(u))
<1>1. verdict \in [Case -> {"skipped", "pass", "fail"}]
  BY DEF Tests!TestTypeOK
<1>2. c \notin With(v)
  BY DEF With
<1>3. With(v)' = With(v) \union {c}
  BY <1>1 DEF With
<1>4. With(u)' = With(u)
  BY <1>1 DEF With
<1>5. /\ IsFiniteSet(With(v) \union {c})
      /\ Cardinality(With(v) \union {c}) = Cardinality(With(v)) + 1
  BY <1>2, FS_AddElement
<1> QED BY <1>3, <1>4, <1>5

(* What Append does to the elements of a sequence. *)
LEMMA AppendFacts ==
  ASSUME NEW S, NEW s \in Seq(S), NEW v \in S
  PROVE  /\ Append(s, v) \in Seq(S) /\ Len(Append(s, v)) = Len(s) + 1
         /\ \A i \in 1..Len(s) : Append(s, v)[i] = s[i]
         /\ Append(s, v)[Len(s) + 1] = v
<1>1. Append(s, v) \in Seq(S)
  OBVIOUS
<1>2. Len(Append(s, v)) = Len(s) + 1
  OBVIOUS
<1>3. \A i \in 1..Len(s) : Append(s, v)[i] = s[i]
  OBVIOUS
<1>4. Append(s, v)[Len(s) + 1] = v
  OBVIOUS
<1> QED BY <1>1, <1>2, <1>3, <1>4

(* Registration. *)
LEMMA AddTestKeeps ==
  ASSUME TestsInv, NEW t \in Case, Tests!AddTest(t)
  PROVE  TestsInv'
<1> USE DEF TestsInv
<1>1. /\ test_pc = "idle" /\ test_pc' = "idle" /\ verdict' = verdict
      /\ test_result' = test_result
  BY DEF Tests!AddTest
<1>2. /\ Append(m_test_cases_, t) \in Seq(Case)
      /\ Len(Append(m_test_cases_, t)) = Len(m_test_cases_) + 1
      /\ \A i \in 1..Len(m_test_cases_) : Append(m_test_cases_, t)[i] = m_test_cases_[i]
      /\ Append(m_test_cases_, t)[Len(m_test_cases_) + 1] = t
      /\ Len(m_test_cases_) \in Nat
  BY AppendFacts DEF Tests!TestTypeOK
<1>3. m_test_cases_' = Append(m_test_cases_, t)
  BY DEF Tests!AddTest
<1>4. Tests!TestTypeOK'
  BY <1>2, <1>3 DEF Tests!TestTypeOK, Tests!AddTest
<1>5. CasesDiffer'
  <2>1. \A i \in 1..Len(m_test_cases_) : m_test_cases_[i] # t
    BY DEF Tests!AddTest
  <2> QED BY <1>2, <1>3, <2>1 DEF CasesDiffer
<1>6. ResultCounts'
  BY <1>1 DEF ResultCounts, With
<1> QED BY <1>1, <1>4, <1>5, <1>6
        DEF CasesInOrder, CaseIsNext, StateTells, VerdictsCount, StackIsCharged,
            Tests!HaltsEarly

(* A run starts with the tests in order, none of which has a verdict. *)
LEMMA RunAllTestsKeeps ==
  ASSUME Tests!TestRunnerAssumption, TestsInv,
         NEW suite \in {Tests!AllSuites} \union {CaseSuite[t] : t \in Case},
         Tests!RunAllTests(suite)
  PROVE  TestsInv'
<1> USE DEF TestsInv
<1>1. /\ test_pc' \in {"next", "leaked"} /\ it_' = 1
      /\ verdict' = [t \in Case |-> "skipped"] /\ temp_stack' = temp_stack
      /\ test_pc' = "next" => temp_stack' = "empty"
  BY DEF Tests!RunAllTests
<1>2. PICK n \in Nat : n = Len(m_test_cases_)
  BY DEF Tests!TestTypeOK
<1>3. /\ m_test_cases_' \in [1..n -> Case]
      /\ \A i, j \in 1..n :
           i < j => Tests!hxtest_case_sort_(m_test_cases_'[i], m_test_cases_'[j])
  <2>1. {m_test_cases_[i] : i \in 1..n} \subseteq Case
    BY <1>2 DEF Tests!TestTypeOK
  <2>2. m_test_cases_' \in Tests!SortedCases
    BY DEF Tests!RunAllTests
  <2> QED BY <1>2, <2>1, <2>2 DEF Tests!SortedCases
<1>4. m_test_cases_' \in Seq(Case) /\ Len(m_test_cases_') = n
  BY <1>3
<1>5. Tests!TestTypeOK'
  <2>1. runner' \in Tests!Counters
    BY DEF Tests!RunAllTests, Tests!TestTypeOK, Tests!Counters
  <2> QED BY <1>1, <1>4, <2>1 DEF Tests!TestTypeOK, Tests!RunAllTests
<1>6. CasesDiffer'
  <2>1. \A t \in Case : ~Tests!hxtest_case_sort_(t, t)
    BY DEF Tests!hxtest_case_sort_, Tests!TestRunnerAssumption
  <2>2. ASSUME NEW i \in 1..n, NEW j \in 1..n, m_test_cases_'[i] = m_test_cases_'[j], i # j
        PROVE  FALSE
    <3>1. i < j \/ j < i
      BY <2>2
    <3> QED BY <1>3, <2>1, <2>2, <3>1
  <2> QED BY <1>4, <2>2 DEF CasesDiffer
<1>7. CasesInOrder'
  BY <1>3, <1>4 DEF CasesInOrder
<1>8. VerdictsCount'
  <2>1. With("pass")' = {} /\ With("fail")' = {} /\ Ran' = {}
    BY <1>1 DEF With, Ran
  <2>2. runner'.m_pass_count_ = 0 /\ runner'.m_fail_count_ = 0
    BY DEF Tests!RunAllTests, Tests!TestTypeOK, Tests!Counters
  <2> QED BY <1>1, <2>1, <2>2, FS_EmptySet DEF VerdictsCount
<1>9. StackIsCharged' /\ StateTells' /\ ResultCounts' /\ Tests!HaltsEarly'
  BY <1>1 DEF StackIsCharged, StateTells, ResultCounts, Tests!HaltsEarly
<1>10. CaseIsNext'
  BY <1>1, <1>2, <1>4 DEF CaseIsNext
<1> QED BY <1>5, <1>6, <1>7, <1>8, <1>9, <1>10

(* A test that is not selected is passed over. *)
LEMMA NextTestKeeps ==
  ASSUME Tests!TestRunnerAssumption, TestsInv, Tests!NextTest
  PROVE  TestsInv'
<1> USE DEF TestsInv
<1>1. /\ test_pc = "next" /\ it_ \in 1..Len(m_test_cases_)
      /\ m_test_cases_' = m_test_cases_ /\ verdict' = verdict /\ filter' = filter
      /\ m_test_cases_[it_] \in Case /\ Len(m_test_cases_) \in Nat
  BY DEF Tests!NextTest, CaseIsNext, Tests!TestTypeOK
<1>2. \A t \in Case : Tests!Selected(t)' <=> Tests!Selected(t)
  BY <1>1 DEF Tests!Selected
<1>3. With("pass")' = With("pass") /\ With("fail")' = With("fail")
  BY <1>1 DEF With
<1>4. StackIsCharged'
  <2>1. temp_stack' = temp_stack
    BY DEF Tests!NextTest
  <2> QED BY <1>1, <1>3, <2>1 DEF StackIsCharged
<1>5. CASE Tests!Selected(m_test_cases_[it_])
  <2>1. /\ test_pc' = "test" /\ it_' = it_ /\ seen' = {} /\ made' = 0
        /\ runner' = [runner EXCEPT !.m_test_state_ = "nothing_asserted",
                                    !.m_assert_count_ = 0]
    BY <1>5 DEF Tests!NextTest
  <2>2. /\ runner' \in Tests!Counters /\ runner'.m_test_state_ = "nothing_asserted"
        /\ runner'.m_pass_count_ = runner.m_pass_count_
        /\ runner'.m_fail_count_ = runner.m_fail_count_
    BY <2>1 DEF Tests!TestTypeOK, Tests!Counters
  <2>3. Tests!TestTypeOK'
    BY <2>1, <2>2 DEF Tests!TestTypeOK, Tests!NextTest, Tests!TestRunnerAssumption
  <2>4. Ran' = Ran
    BY <1>1, <2>1 DEF Ran
  <2>5. VerdictsCount'
    BY <1>1, <1>2, <1>3, <2>1, <2>2, <2>4 DEF VerdictsCount
  <2>6. CaseIsNext'
    BY <1>1, <1>2, <1>5, <2>1 DEF CaseIsNext
  <2> QED BY <1>1, <1>4, <2>1, <2>2, <2>3, <2>5, <2>6
          DEF CasesDiffer, CasesInOrder, StateTells, ResultCounts, Tests!HaltsEarly
<1>6. CASE ~Tests!Selected(m_test_cases_[it_])
  <2>1. test_pc' = test_pc /\ it_' = it_ + 1 /\ runner' = runner
    BY <1>6 DEF Tests!NextTest
  <2>2. Tests!TestTypeOK'
    BY <1>6, <2>1 DEF Tests!TestTypeOK, Tests!NextTest
  <2>3. Ran' = Ran \union {m_test_cases_[it_]}
    BY <1>1, <2>1 DEF Ran
  <2>4. VerdictsCount'
    <3>1. \A t \in Case : verdict[t] = "skipped" <=> t \notin Ran' \/ ~Tests!Selected(t)
      BY <1>1, <1>6, <2>3 DEF VerdictsCount
    <3> QED BY <1>1, <1>2, <1>3, <2>1, <3>1 DEF VerdictsCount
  <2> QED BY <1>1, <1>4, <2>1, <2>2, <2>4
          DEF CasesDiffer, CasesInOrder, CaseIsNext, StateTells, ResultCounts,
              Tests!HaltsEarly
<1> QED BY <1>5, <1>6

(* A check keeps its test's state what the checks so far make of it. *)
LEMMA CheckKeeps ==
  ASSUME Tests!TestRunnerAssumption,
         TestsInv, NEW condition \in BOOLEAN, NEW is_assert \in BOOLEAN,
         Tests!Check(condition, is_assert)
  PROVE  TestsInv'
<1> USE DEF TestsInv
<1>1. /\ test_pc = "test" /\ m_test_cases_' = m_test_cases_ /\ verdict' = verdict
      /\ filter' = filter /\ it_' = it_ /\ test_result' = test_result
      /\ test_pc' \in {"test", "halted"} /\ made' \in 0..MaxChecks
      /\ runner \in Tests!Counters /\ seen \subseteq BOOLEAN
  <2>1. test_pc' \in {"test", "halted"}
    BY Zenon DEF Tests!Check
  <2>2. made' \in 0..MaxChecks
    BY DEF Tests!Check, Tests!TestTypeOK, Tests!TestRunnerAssumption
  <2> QED BY <2>1, <2>2 DEF Tests!Check, Tests!TestTypeOK
<1>2. /\ runner' = Tests!condition_check_(runner, condition)
      /\ seen' = seen \union {condition} /\ seen' \subseteq BOOLEAN
  BY <1>1, Zenon DEF Tests!Check
<1>3. /\ runner' \in Tests!Counters
      /\ runner'.m_pass_count_ = runner.m_pass_count_
      /\ runner'.m_fail_count_ = runner.m_fail_count_
  <2>1. condition = TRUE \/ condition = FALSE
    BY Zenon
  <2> QED BY <1>1, <1>2, <2>1, CheckTells, Zenon
<1>4. Tests!TestTypeOK'
  <2>1. temp_stack' = temp_stack
    BY Zenon DEF Tests!Check
  <2> QED BY <1>1, <1>2, <1>3, <2>1 DEF Tests!TestTypeOK
<1>5. VerdictsCount'
  <2>1. With("pass")' = With("pass") /\ With("fail")' = With("fail") /\ Ran' = Ran
    BY <1>1 DEF With, Ran
  <2>2. \A t \in Case : Tests!Selected(t)' <=> Tests!Selected(t)
    BY <1>1 DEF Tests!Selected
  <2> QED BY <1>1, <1>3, <2>1, <2>2 DEF VerdictsCount
<1>6. StateTells'
  <2>1. CASE condition = TRUE
    <3>1. /\ runner'.m_test_state_
               = IF runner.m_test_state_ # "fail" THEN "pass" ELSE "fail"
          /\ seen' = seen \union {TRUE}
      BY <1>1, <1>2, <2>1, CheckTells, Zenon
    <3>2. seen' # {} /\ (seen' = {TRUE} <=> seen = {} \/ seen = {TRUE})
      BY <1>1, <3>1, SeenNow, Zenon
    <3>3. runner.m_test_state_ # "fail" <=> seen = {} \/ seen = {TRUE}
      BY <1>1 DEF StateTells, Tests!Counters
    <3> QED BY <3>1, <3>2, <3>3 DEF StateTells
  <2>2. CASE condition = FALSE
    <3>1. runner'.m_test_state_ = "fail" /\ seen' = seen \union {FALSE}
      BY <1>1, <1>2, <2>2, CheckTells, Zenon
    <3>2. seen' # {} /\ seen' # {TRUE}
      BY <1>1, <3>1, SeenNow, Zenon
    <3> QED BY <3>1, <3>2 DEF StateTells
  <2> QED BY <2>1, <2>2, Zenon
<1>7. Tests!HaltsEarly'
  <2> SUFFICES ASSUME test_pc' = "halted" PROVE FALSE \in seen'
    BY Zenon DEF Tests!HaltsEarly
  <2>1. condition = FALSE
    BY Zenon DEF Tests!Check, Tests!Halts
  <2> QED BY <1>2, <2>1, Zenon
<1>8. StackIsCharged'
  <2>1. temp_stack' = temp_stack
    BY DEF Tests!Check
  <2> QED BY <1>1, <2>1 DEF StackIsCharged, With
<1> QED BY <1>1, <1>4, <1>5, <1>6, <1>7, <1>8
        DEF CasesDiffer, CasesInOrder, CaseIsNext, ResultCounts, Tests!Selected

(* The end of a test gives its verdict, and counts it. *)
LEMMA EndTestKeeps ==
  ASSUME Tests!TestRunnerAssumption, TestsInv,
         NEW left \in Tests!StackStates, NEW throws \in BOOLEAN,
         Tests!EndTest(left, throws)
  PROVE  TestsInv'
<1> USE DEF TestsInv
<1> DEFINE c == m_test_cases_[it_]
           fails == throws \/ left # "empty"
           r1 == IF fails THEN Tests!condition_check_(runner, FALSE) ELSE runner
           r2 == IF r1.m_test_state_ = "nothing_asserted"
                 THEN Tests!condition_check_(r1, FALSE) ELSE r1
           passes == r2.m_test_state_ = "pass"
           halts == fails /\ Tests!Halts(r1, FALSE, TRUE)
           deserved == IF ~fails /\ seen = {TRUE} THEN "pass" ELSE "fail"
<1>1. /\ test_pc = "test" /\ it_ \in 1..Len(m_test_cases_) /\ c \in Case
      /\ m_test_cases_' = m_test_cases_ /\ filter' = filter /\ test_result' = test_result
      /\ seen' = seen /\ made' = made /\ temp_stack' = left
      /\ verdict' = [verdict EXCEPT ![c] = deserved]
      /\ runner \in Tests!Counters
  BY DEF Tests!EndTest, CaseIsNext, Tests!TestTypeOK
<1>2. /\ r1 \in Tests!Counters /\ r1.m_pass_count_ = runner.m_pass_count_
      /\ r1.m_fail_count_ = runner.m_fail_count_
      /\ fails => r1.m_test_state_ = "fail"
  BY <1>1, CheckTells, Zenon
<1>3. /\ r2 \in Tests!Counters /\ r2.m_pass_count_ = runner.m_pass_count_
      /\ r2.m_fail_count_ = runner.m_fail_count_
      /\ r2.m_test_state_ = IF r1.m_test_state_ = "pass" THEN "pass" ELSE "fail"
  <2>1. CASE r1.m_test_state_ = "nothing_asserted"
    BY <1>2, <2>1, CheckTells, Zenon
  <2>2. CASE r1.m_test_state_ # "nothing_asserted"
    <3>1. r2 = r1 /\ r1.m_test_state_ \in {"pass", "fail"}
      BY <1>2, <2>2 DEF Tests!Counters
    <3> QED BY <1>2, <3>1
  <2> QED BY <2>1, <2>2
<1>4. passes <=> deserved = "pass"
  <2>1. CASE ~fails
    BY <1>1, <1>3, <2>1 DEF StateTells
  <2>2. CASE fails
    BY <1>2, <1>3, <2>2
  <2> QED BY <2>1, <2>2
<1>5. verdict[c] = "skipped" /\ c \notin Ran /\ Tests!Selected(c)
  BY <1>1 DEF CaseIsNext, CasesDiffer, VerdictsCount, Ran, Tests!TestTypeOK
<1>6. \A t \in Case : Tests!Selected(t)' <=> Tests!Selected(t)
  BY <1>1 DEF Tests!Selected
<1>7. deserved \in {"pass", "fail"}
  OBVIOUS
<1>8. CASE halts
  <2>1. runner' = r1 /\ test_pc' = "halted" /\ it_' = it_
    BY <1>8 DEF Tests!EndTest
  <2>2. Tests!TestTypeOK'
    BY <1>1, <1>2, <1>7, <2>1 DEF Tests!TestTypeOK
  <2>3. Tests!HaltsEarly'
    BY <1>1, <1>8, <2>1 DEF Tests!HaltsEarly, Tests!TestTypeOK
  <2> QED BY <1>1, <1>6, <2>1, <2>2, <2>3
          DEF CasesDiffer, CasesInOrder, CaseIsNext, StateTells, VerdictsCount,
              StackIsCharged, ResultCounts
<1>9. CASE ~halts
  <2>1. /\ runner' = [r2 EXCEPT !.m_pass_count_ = IF passes THEN @ + 1 ELSE @,
                                !.m_fail_count_ = IF passes THEN @ ELSE @ + 1]
        /\ test_pc' = "next" /\ it_' = it_ + 1
    BY <1>9 DEF Tests!EndTest
  <2>2. /\ runner' \in Tests!Counters
        /\ runner'.m_pass_count_
             = IF deserved = "pass" THEN runner.m_pass_count_ + 1 ELSE runner.m_pass_count_
        /\ runner'.m_fail_count_
             = IF deserved = "pass" THEN runner.m_fail_count_ ELSE runner.m_fail_count_ + 1
    <3>1. /\ runner.m_pass_count_ \in Nat /\ runner.m_pass_count_ + 1 \in Nat
          /\ runner.m_fail_count_ \in Nat /\ runner.m_fail_count_ + 1 \in Nat
      BY <1>1 DEF Tests!Counters
    <3>2. PICK n \in Nat, m \in Nat :
            /\ n = IF deserved = "pass" THEN runner.m_pass_count_ + 1
                   ELSE runner.m_pass_count_
            /\ m = IF deserved = "pass" THEN runner.m_fail_count_
                   ELSE runner.m_fail_count_ + 1
      BY <3>1
    <3>3. runner' = [r2 EXCEPT !.m_pass_count_ = n, !.m_fail_count_ = m]
      BY <1>3, <1>4, <2>1, <3>2 DEF Tests!Counters
    <3> HIDE DEF r2
    <3>4. /\ runner' \in Tests!Counters
          /\ runner'.m_pass_count_ = n /\ runner'.m_fail_count_ = m
      BY <1>3, <3>3 DEF Tests!Counters
    <3> QED BY <3>2, <3>4
  <2>3. Tests!TestTypeOK'
    BY <1>1, <1>7, <2>1, <2>2 DEF Tests!TestTypeOK
  <2>4. Ran' = Ran \union {c}
    BY <1>1, <2>1 DEF Ran
  <2>5. VerdictsCount'
    <3>1. /\ IsFiniteSet(With("pass")')
          /\ runner'.m_pass_count_ = Cardinality(With("pass")')
          /\ IsFiniteSet(With("fail")')
          /\ runner'.m_fail_count_ = Cardinality(With("fail")')
      <4>1. CASE deserved = "pass"
        BY <1>1, <1>5, <2>2, <4>1, OneMoreVerdict DEF VerdictsCount
      <4>2. CASE deserved = "fail"
        BY <1>1, <1>5, <2>2, <4>2, OneMoreVerdict DEF VerdictsCount
      <4> QED BY <1>7, <4>1, <4>2
    <3>2. \A t \in Case : verdict'[t] = "skipped" <=> t \notin Ran' \/ ~Tests!Selected(t)
      BY <1>1, <1>5, <1>7, <2>4 DEF VerdictsCount, Tests!TestTypeOK
    <3> QED BY <1>6, <3>1, <3>2 DEF VerdictsCount
  <2>6. StackIsCharged'
    <3>1. left # "empty" => c \in With("fail")'
      BY <1>1 DEF With, Tests!TestTypeOK
    <3> QED BY <1>1, <3>1 DEF StackIsCharged
  <2> QED BY <1>1, <2>1, <2>3, <2>5, <2>6
          DEF CasesDiffer, CasesInOrder, CaseIsNext, StateTells, ResultCounts,
              Tests!HaltsEarly
<1> QED BY <1>8, <1>9

(* The result of a run is the number of tests that failed, or 1 if there   *)
(* was nothing to run.                                                     *)
LEMMA ReturnCountKeeps ==
  ASSUME TestsInv, NEW hxassertmsg_is_on \in BOOLEAN,
         Tests!ReturnCount(hxassertmsg_is_on)
  PROVE  TestsInv'
<1> USE DEF TestsInv
<1>1. /\ test_pc = "next" /\ test_pc' \in {"idle", "leaked"} /\ verdict' = verdict
      /\ it_' \in Nat /\ temp_stack' \in Tests!StackStates
      /\ m_test_cases_' = m_test_cases_ /\ runner \in Tests!Counters
      /\ test_pc' = "idle" => test_result' = runner'.m_fail_count_
      /\ test_pc' = "leaked" => test_result' = test_result
  BY DEF Tests!ReturnCount, Tests!TestTypeOK, Tests!StackStates
<1>2. PICK n \in Nat : n = IF \/ runner.m_pass_count_ # 0 /\ runner.m_fail_count_ = 0
                             \/ runner.m_fail_count_ >= 1
                          THEN runner.m_fail_count_ ELSE 1
  BY <1>1 DEF Tests!Counters
<1>3. runner' = [runner EXCEPT !.m_fail_count_ = n]
  BY <1>1, <1>2 DEF Tests!ReturnCount, Tests!Counters
<1>4. runner' \in Tests!Counters /\ (test_pc' = "idle" => test_result' = n)
  BY <1>1, <1>3 DEF Tests!Counters
<1>5. Tests!TestTypeOK'
  BY <1>1, <1>4 DEF Tests!TestTypeOK, Tests!ReturnCount
<1>6. ResultCounts'
  <2>1. With("pass")' = With("pass") /\ With("fail")' = With("fail")
    BY <1>1 DEF With
  <2>2. /\ runner.m_pass_count_ = Cardinality(With("pass")) /\ IsFiniteSet(With("pass"))
        /\ runner.m_fail_count_ = Cardinality(With("fail"))
    BY <1>1 DEF VerdictsCount
  <2>3. Cardinality(With("pass")) = 0 <=> With("pass") = {}
    BY <2>2, FS_EmptySet
  <2>4. runner.m_fail_count_ \in Nat /\ runner.m_pass_count_ \in Nat
    BY <1>1 DEF Tests!Counters
  <2> QED BY <1>2, <1>4, <2>1, <2>2, <2>3, <2>4 DEF ResultCounts
<1> QED BY <1>1, <1>5, <1>6
        DEF CasesDiffer, CasesInOrder, CaseIsNext, StateTells, VerdictsCount,
            StackIsCharged, Tests!HaltsEarly

(* A step of something else changes nothing of it. *)
LEMMA TestsRest ==
  ASSUME TestsInv, UNCHANGED Tests!testVars
  PROVE  TestsInv'
<1>1. Tests!TestTypeOK' /\ CasesDiffer' /\ CasesInOrder'
  BY DEF Tests!testVars, TestsInv, Tests!TestTypeOK, CasesDiffer, CasesInOrder
<1>2. CaseIsNext' /\ StateTells' /\ Tests!HaltsEarly'
  BY DEF Tests!testVars, TestsInv, CaseIsNext, StateTells, Tests!HaltsEarly, Tests!Selected
<1>3. VerdictsCount' /\ StackIsCharged' /\ ResultCounts'
  BY DEF Tests!testVars, TestsInv, VerdictsCount, StackIsCharged, ResultCounts, With, Ran,
         Tests!Selected
<1> QED BY <1>1, <1>2, <1>3 DEF TestsInv

(* For any tests and limits, the counters are those of the verdicts, each  *)
(* selected test ran once and in order, what is left on the temporary      *)
(* stack was held against a test, the result is 0 only if there were tests *)
(* and all passed, and a process that ends early has a reason.             *)
THEOREM VerdictsStayRight ==
  ASSUME Tests!TestRunnerAssumption
  PROVE  ServicesSpec => []VerdictsAreRight
<1>1. ServicesInit => TestsInv
  <2> SUFFICES ASSUME Tests!TestInit PROVE TestsInv
    BY DEF ServicesInit, ServicesAre
  <2>1. /\ m_test_cases_ = <<>> /\ test_pc = "idle" /\ test_result = -1
    BY DEF Tests!TestInit, Tests!NoResult
  <2>2. Tests!TestTypeOK
    BY DEF Tests!TestInit, Tests!TestTypeOK, Tests!Counters, Tests!NoResult, Tests!StackStates,
           Tests!TestRunnerAssumption
  <2> QED BY <2>1, <2>2
          DEF TestsInv, CasesDiffer, CasesInOrder, CaseIsNext, StateTells, VerdictsCount,
              StackIsCharged, ResultCounts, Tests!HaltsEarly
<1>2. TestsInv /\ [ServicesNext]_serviceVars => TestsInv'
  <2> SUFFICES ASSUME TestsInv, [ServicesNext]_serviceVars PROVE TestsInv'
    OBVIOUS
  <2>1. Tests!TestNext \/ UNCHANGED tests
    BY DEF ServicesNext, serviceVars
  <2>2. CASE UNCHANGED tests
    BY <2>2, TestsRest DEF tests, Tests!testVars
  <2>3. CASE Tests!Halted
    BY <2>3, TestsRest DEF Tests!Halted
  <2> QED BY <2>1, <2>2, <2>3, AddTestKeeps, RunAllTestsKeeps, NextTestKeeps, CheckKeeps,
             EndTestKeeps, ReturnCountKeeps
          DEF Tests!TestNext
<1>3. TestsInv => VerdictsAreRight
  <2> SUFFICES ASSUME TestsInv PROVE Tests!VerdictsAreRight /\ Tests!HaltsEarly
    BY DEF VerdictsAreRight
  <2>1. \A S : Tests!Cardinality(S) = Cardinality(S)
    BY DEF Tests!Cardinality, Cardinality
  <2>2. test_pc \in {"next", "test"} =>
          /\ runner.m_pass_count_ = Tests!Cardinality(With("pass"))
          /\ runner.m_fail_count_ = Tests!Cardinality(With("fail"))
          /\ With("skipped") = {t \in Case : t \notin Ran \/ ~Tests!Selected(t)}
          /\ temp_stack # "empty" => Tests!Cardinality(With("fail")) # 0
    <3>1. ASSUME test_pc \in {"next", "test"}, temp_stack # "empty"
          PROVE  Cardinality(With("fail")) # 0
      BY <3>1, FS_EmptySet DEF TestsInv, VerdictsCount, StackIsCharged
    <3> QED BY <2>1, <3>1 DEF TestsInv, VerdictsCount, With
  <2>3. test_pc \in {"next", "test"} =>
          \A i, j \in 1..Len(m_test_cases_) :
            i < j => Tests!hxtest_case_sort_(m_test_cases_[i], m_test_cases_[j])
    BY DEF TestsInv, CasesInOrder
  <2>4. test_pc = "idle" /\ test_result # -1 =>
          test_result = IF Tests!Cardinality(With("fail")) = 0 /\ With("pass") = {} THEN 1
                        ELSE Tests!Cardinality(With("fail"))
    BY <2>1 DEF TestsInv, ResultCounts
  <2>5. Tests!VerdictsAreRight
    BY <2>2, <2>3, <2>4 DEF With, Ran, Tests!VerdictsAreRight, Tests!NoResult
  <2> QED BY <2>5 DEF TestsInv
<1> QED BY <1>1, <1>2, <1>3, PTL DEF ServicesSpec
=============================================================================
