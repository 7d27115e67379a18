------------------------- MODULE PodResourcesProofs -------------------------
(***************************************************************************)
(* Proofs about RunResourcePod and GetPodResources, for any cluster: each  *)
(* step is a step of the fan-out (FanOutProofs); the rows are sorted by    *)
(* the samples they show; and a row pairs pods of one name.                *)
(***************************************************************************)
EXTENDS PodResources, ClusterProofs, FanOutPromise

\* Every sample is of a pod that has run under its name.
SamplesRan ==
  /\ \A k \in PodName : podSample[k] # NoSample => HasRun(k, podSample[k])
  /\ \A k \in DOMAIN podmetrics : HasRun(k, podmetrics[k])

\* The pod of a row is the one measured, or one created under its name since.
Paired(k) ==
  /\ at[k] \in {"idle", "start", "pod"} => row[k].pod = NoPod
  /\ at[k] # "idle" => k \in DOMAIN podmetrics
  /\ row[k].pod # NoPod =>
       /\ NameOf[row[k].pod] = k
       /\ row[k].pod # podmetrics[k].of => place[podmetrics[k].of] = Deleted
  /\ at[k] = "types" => row[k].pod # NoPod
  /\ row[k].types > 0 => row[k].pod # NoPod /\ row[k].sample = podmetrics[k]

RowsPaired == \A k \in PodName : Paired(k)

\* The names were sorted by the samples listed.
UsageOf == [k \in DOMAIN podmetrics |-> podmetrics[k].usage]

Arranged ==
  /\ \A j \in 1..Len(names) : names[j] \in DOMAIN podmetrics
  /\ Sorted => InOrder(UsageOf, names)

Inv == FanInv /\ TypeOK /\ NamesUnique /\ SamplesRan /\ RowsPaired /\ Arranged

-----------------------------------------------------------------------------
(* The replies.                                                            *)

LEMMA MetricsReply ==
  ASSUME TypeOK, SamplesRan, NEW r \in GetPodMetricsFromMetricsAPI
  PROVE  /\ r.err # "nil" => r.err \in CallErrors
         /\ r.err = "nil" =>
              /\ DOMAIN r.val \subseteq PodName
              /\ \A k \in DOMAIN r.val : r.val[k] \in Samples /\ HasRun(k, r.val[k])
  <1>1. CASE r \in Failures
    BY <1>1, ErrorsOfCalls DEF TypeOK
  <1>2. CASE r \notin Failures
    <2>1. r = [err |-> "nil", val |-> [k \in Asked |-> podSample[k]]]
      BY <1>2 DEF GetPodMetricsFromMetricsAPI, Reply
    <2>2. \A k \in Asked :
            k \in PodName /\ podSample[k] \in Samples /\ HasRun(k, podSample[k])
      BY DEF Asked, TypeOK, SamplesRan
    <2> QED
      BY <2>1, <2>2
  <1> QED
    BY <1>1, <1>2

LEMMA PodReply ==
  ASSUME TypeOK, NEW k \in PodName, NEW r \in GetPodByPodname(k)
  PROVE  /\ r.err # "nil" => r.err \in CallErrors
         /\ r.err = "nil" => r.val \in Pod /\ NameOf[r.val] = k /\ Exists(r.val)
  <1>1. CASE r \in Failures
    BY <1>1, ErrorsOfCalls DEF TypeOK
  <1>2. CASE r \notin Failures
    BY <1>2 DEF GetPodByPodname, Reply
  <1> QED
    BY <1>1, <1>2

-----------------------------------------------------------------------------
(* Every step is a step of the fan-out.                                    *)

LEMMA ListingMapped ==
  ASSUME Inv, Discover \/ ListMetrics
  PROVE  FanNext
  <1> USE DEF Inv, TypeOK
  <1>1. CASE Discover
    <2>1. /\ pc \in Listing /\ "metrics" \in Listing
          /\ UNCHANGED <<ctx, names, collectVars, workVars>>
      BY <1>1 DEF Discover, Listing
    <2>2. CASE pc' = "metrics" /\ UNCHANGED <<outcome, fault>>
      BY <2>1, <2>2 DEF FanNext, CallAnswered, FanInv, Enumerated
    <2>3. CASE Return("api") /\ NoteFault("api")
      BY <2>1, <2>3 DEF FanNext, CallRefused, CallErrors, Return
    <2> QED
      BY <1>1, <2>2, <2>3 DEF Discover
  <1>2. CASE ListMetrics
    <2>1. PICK r \in GetPodMetricsFromMetricsAPI :
            /\ NoteFault(r.err)
            /\ \/ r.err # "nil" /\ Return(r.err) /\ UNCHANGED <<names, at>>
               \/ /\ r.err = "nil" /\ StartAll
                  /\ Arrange([k \in DOMAIN r.val |-> r.val[k].usage])
      BY <1>2 DEF ListMetrics
    <2>2. pc \in Listing /\ UNCHANGED <<ctx, collectVars, row, err>>
      BY <1>2 DEF ListMetrics, Listing
    <2>3. CASE r.err # "nil"
      BY <2>1, <2>2, <2>3, MetricsReply DEF FanNext, CallRefused, Return, workVars
    <2>4. CASE r.err = "nil"
      <3>1. names' \in SetToSeqs(DOMAIN r.val) /\ DOMAIN r.val \subseteq Item
        BY <2>1, <2>4, MetricsReply, PodResourcesAssumption DEF Arrange
      <3>2. names' \in SetToAllKPermutations(Item)
        BY <3>1 DEF SetToAllKPermutations
      <3> QED
        BY <2>1, <2>2, <2>4, <3>2, NoFault DEF FanNext, Launch
    <2> QED
      BY <2>3, <2>4
  <1> QED
    BY <1>1, <1>2

\* The row of a goroutine after the columns of one type.
Extended(k) == [row[k] EXCEPT !.sample = podmetrics[k], !.types = row[k].types + 1]

LEMMA WorkerRunsMapped ==
  ASSUME Inv, NEW k \in PodName, WorkerRuns(k)
  PROVE  /\ WorkerNext(k) /\ UNCHANGED ownVars
         /\ \/ at[k] = "start" /\ row' = row /\ at'[k] \in {"pod", "send"}
            \/ at[k] = "types" /\ at'[k] = "send" /\ row' = row
            \/ /\ at[k] = "types" /\ at'[k] \in {"types", "send"}
               /\ row' = [row EXCEPT ![k] = Extended(k)]
            \/ at[k] = "send" /\ row' = row /\ at'[k] = "done"
         /\ \A m \in PodName \ {k} : at'[m] = at[m]
  <1> USE PodResourcesAssumption DEF Inv, TypeOK
  <1>0. UNCHANGED ownVars /\ at \in [PodName -> Places]
    BY DEF WorkerRuns, FanOutTypeOK, Places
  <1>1. CASE Begin(k, "pod")
    BY <1>0, <1>1 DEF Begin, Fail, WorkerNext, SetsOut, GivesUp, Reading, mainVars
  <1>2. CASE AddType(k, [row[k] EXCEPT !.sample = Captured(k)])
    <2>1. CASE ctx # "live"
      BY <1>0, <1>2, <2>1 DEF AddType, Fail, WorkerNext, GivesUp, mainVars
    <2>2. CASE ctx = "live"
      <3> DEFINE r == Extended(k)
      <3>1. row[k] \in Rows /\ row[k].types + 1 \in 0..NumTypes /\ row[k].name = k
        BY <1>2, FanOutAssumption DEF AddType, FanInv, FanOutTypeOK, Workers, WorkerOK, Rows
      <3>2. podmetrics[k] \in Samples
        BY <1>2 DEF AddType, RowsPaired, Paired
      <3>3. r \in Row /\ r.name = k /\ r.types = row[k].types + 1
        BY <3>1, <3>2 DEF Rows, Extended
      <3>4. /\ [row[k] EXCEPT !.sample = Captured(k)].types = row[k].types
            /\ [[row[k] EXCEPT !.sample = Captured(k)] EXCEPT !.types = @ + 1] = r
        BY <3>1 DEF Rows, Extended, Captured
      <3>5. /\ at[k] = "types"
            /\ row' = [row EXCEPT ![k] = r]
            /\ at' = [at EXCEPT ![k] = IF MoreTypes(r.types) THEN "types" ELSE "send"]
            /\ UNCHANGED <<mainVars, err, fault>>
        BY <1>2, <2>2, <3>3, <3>4 DEF AddType, mainVars
      <3> HIDE DEF r
      <3>6. TypeAdded(k)
        BY <2>2, <3>3, <3>5 DEF TypeAdded
      <3> QED
        BY <1>0, <3>5, <3>6 DEF WorkerNext, r
    <2> QED
      BY <2>1, <2>2
  <1>3. CASE Send(k)
    BY <1>0, <1>3 DEF Send, WorkerNext
  <1> QED
    BY <1>1, <1>2, <1>3 DEF WorkerRuns

LEMMA WorkerPodMapped ==
  ASSUME Inv, NEW k \in PodName, WorkerPod(k)
  PROVE  /\ WorkerNext(k) /\ UNCHANGED ownVars /\ at[k] = "pod"
         /\ \/ row' = row /\ at'[k] = "send"
            \/ /\ at'[k] = "types"
               /\ \E p \in Pod : /\ NameOf[p] = k /\ Exists(p)
                                 /\ row' = [row EXCEPT ![k] = [row[k] EXCEPT !.pod = p]]
         /\ \A m \in PodName \ {k} : at'[m] = at[m]
  <1> USE PodResourcesAssumption DEF Inv, TypeOK
  <1>1. /\ at[k] \in Reading /\ at[k] = "pod" /\ UNCHANGED mainVars /\ UNCHANGED ownVars
        /\ at \in [PodName -> Places]
    BY DEF WorkerPod, Reading, mainVars, FanOutTypeOK, Places
  <1>2. PICK r \in GetPodByPodname(k) :
          /\ NoteFault(r.err)
          /\ \/ r.err # "nil" /\ Fail(k, r.err) /\ UNCHANGED row
             \/ /\ r.err = "nil"
                /\ row' = [row EXCEPT ![k] = [row[k] EXCEPT !.pod = r.val]]
                /\ at' = [at EXCEPT ![k] = "types"]
                /\ UNCHANGED err
    BY DEF WorkerPod
  <1>3. CASE r.err # "nil"
    BY <1>1, <1>2, <1>3, PodReply DEF WorkerNext, ReadFails, Fail
  <1>4. CASE r.err = "nil"
    <2>1. r.val \in Pod /\ NameOf[r.val] = k /\ Exists(r.val)
      BY <1>4, PodReply
    <2> DEFINE new == [row[k] EXCEPT !.pod = r.val]
    <2>2. row[k] \in Rows /\ row[k].name = k
      BY DEF FanInv, FanOutTypeOK, Workers, WorkerOK
    <2>3. new \in Row /\ new.name = k /\ new.types = row[k].types
      BY <2>1, <2>2 DEF Rows
    <2>4. row' = [row EXCEPT ![k] = new] /\ UNCHANGED <<mainVars, err, fault>>
      BY <1>1, <1>2, <1>4, NoFault
    <2> HIDE DEF new
    <2>5. ReadReturns(k)
      BY <1>1, <1>2, <1>4, <2>3, <2>4 DEF ReadReturns
    <2> QED
      BY <1>1, <1>2, <1>4, <2>1, <2>5 DEF WorkerNext
  <1> QED
    BY <1>3, <1>4

LEMMA StepMapped ==
  ASSUME Inv, [Next]_vars
  PROVE  [FanNext]_fanVars
  <1>1. ASSUME NEW k \in PodName, WorkerRuns(k) \/ WorkerPod(k)
        PROVE  FanNext
    BY <1>1, WorkerRunsMapped, WorkerPodMapped, PodResourcesAssumption DEF FanNext
  <1>2. CASE Collecting \/ TimerFires
    BY <1>2 DEF Collecting, TimerFires, FanNext
  <1>3. CASE (\E k \in PodName : Scrape(k)) \/ ClusterChange \/ UNCHANGED vars
    BY <1>3 DEF Scrape, ClusterChange, vars
  <1> QED
    BY <1>1, <1>2, <1>3, ListingMapped DEF Next

-----------------------------------------------------------------------------
(* The invariant.                                                          *)

LEMMA InitInv == Init => Inv
  <1> SUFFICES ASSUME Init PROVE Inv
    OBVIOUS
  <1> DEFINE empty == [k \in PodName |-> EmptyRow(k)]
  <1>1. /\ empty \in [Item -> Row]
        /\ \A k \in Item : empty[k].name = k /\ empty[k].types = 0 /\ empty[k].pod = NoPod
    BY PodResourcesAssumption, FanOutAssumption DEF EmptyRow, Rows
  <1>2. FanOutInit("discover", empty) /\ "discover" \in Listing
    BY DEF Init, Listing
  <1>3. row = empty /\ names = <<>> /\ \A k \in Item : at[k] = "idle"
    BY <1>2 DEF FanOutInit
  <1> HIDE DEF empty
  <1>4. FanInv
    BY <1>1, <1>2, FanInitInv
  <1>5. DOMAIN podmetrics = {}
    BY DEF Init
  <1>6. TypeOK
    BY <1>4, <1>5 DEF Init, TypeOK, FanInv, ClusterInit, ClusterTypeOK
  <1>7. RowsPaired
    BY <1>1, <1>3, PodResourcesAssumption DEF RowsPaired, Paired
  <1>8. NamesUnique /\ SamplesRan
    BY <1>5 DEF Init, ClusterInit, SamplesRan
  <1>9. Arranged
    BY <1>3 DEF Arranged, InOrder
  <1> QED
    BY <1>4, <1>6, <1>7, <1>8, <1>9 DEF Inv

\* The steps that touch nothing but the fan-out.
LEMMA OwnUnchanged ==
  ASSUME Inv, UNCHANGED ownVars
  PROVE  /\ ClusterTypeOK' /\ NamesUnique' /\ SamplesRan'
         /\ podSample' \in [PodName -> Samples \cup {NoSample}]
         /\ query' \in Queries
         /\ DOMAIN podmetrics' \subseteq PodName
         /\ \A k \in DOMAIN podmetrics' : podmetrics'[k] \in Samples
  BY DEF Inv, TypeOK, ownVars, clusterVars, ClusterTypeOK, NamesUnique, Exists, SamplesRan,
         HasRun

LEMMA OwnTypes ==
  ASSUME Inv, [Next]_vars
  PROVE  /\ ClusterTypeOK' /\ NamesUnique' /\ SamplesRan'
         /\ podSample' \in [PodName -> Samples \cup {NoSample}]
         /\ query' \in Queries
         /\ DOMAIN podmetrics' \subseteq PodName
         /\ \A k \in DOMAIN podmetrics' : podmetrics'[k] \in Samples
  <1> USE DEF Inv, TypeOK
  <1>1. CASE ListMetrics
    <2>1. \/ podmetrics' = podmetrics
          \/ \E r \in GetPodMetricsFromMetricsAPI : r.err = "nil" /\ podmetrics' = r.val
      BY <1>1 DEF ListMetrics
    <2>2. /\ DOMAIN podmetrics' \subseteq PodName
          /\ \A k \in DOMAIN podmetrics' : podmetrics'[k] \in Samples /\ HasRun(k, podmetrics'[k])
      BY <2>1, MetricsReply DEF SamplesRan
    <2>3. UNCHANGED <<up, place, podSample, query>>
      BY <1>1 DEF ListMetrics, clusterVars
    <2> QED
      BY <2>2, <2>3 DEF ClusterTypeOK, NamesUnique, Exists, SamplesRan, HasRun
  <1>2. CASE ClusterChange
    <2>1. UNCHANGED <<podSample, query, podmetrics>>
      BY <1>2 DEF ClusterChange
    <2>2. /\ ClusterTypeOK' /\ NamesUnique'
          /\ \A p \in Pod : place[p] \notin {Absent, Unbound} => place'[p] \notin {Absent, Unbound}
      BY <1>2, PlaceStep DEF ClusterChange
    <2>3. ASSUME NEW k, NEW s \in Samples, HasRun(k, s)
          PROVE  NameOf[s.of] = k /\ place'[s.of] \notin {Absent, Unbound}
      <3>1. s.of \in Pod
        BY DEF Samples
      <3> QED
        BY <2>2, <2>3, <3>1 DEF HasRun
    <2>4. SamplesRan'
      BY <2>1, <2>3 DEF SamplesRan, HasRun
    <2> QED
      BY <2>1, <2>2, <2>4
  <1>3. ASSUME NEW k \in PodName, Scrape(k)
        PROVE  /\ podSample' \in [PodName -> Samples \cup {NoSample}]
               /\ SamplesRan'
               /\ UNCHANGED <<up, place, query, podmetrics>>
    <2>1. PICK s \in Samples \cup {NoSample} :
            /\ podSample' = [podSample EXCEPT ![k] = s]
            /\ s # NoSample => NameOf[s.of] = k /\ place[s.of] \in Node
      <3> DEFINE running == {p \in Pod : NameOf[p] = k /\ place[p] \in Node}
      <3>1. PICK s \in IF running = {} THEN {NoSample} ELSE [of : running, usage : 0..MaxUsage] :
              podSample' = [podSample EXCEPT ![k] = s]
        BY <1>3 DEF Scrape
      <3> QED
        BY <3>1 DEF Samples
    <2>2. UNCHANGED <<up, place, query, podmetrics>>
      BY <1>3 DEF Scrape, clusterVars
    <2>3. Absent \notin Node /\ Unbound \notin Node
      BY ClusterAssumption
    <2> QED
      BY <2>1, <2>2, <2>3 DEF SamplesRan, HasRun
  <1>4. CASE \E k \in PodName : Scrape(k)
    BY <1>3, <1>4 DEF ClusterTypeOK, NamesUnique, Exists
  <1>5. CASE UNCHANGED ownVars
    BY <1>5, OwnUnchanged
  <1>6. ASSUME NEW k \in PodName, WorkerRuns(k) \/ WorkerPod(k)
        PROVE  UNCHANGED ownVars
    BY <1>6 DEF WorkerRuns, WorkerPod
  <1> QED
    BY <1>1, <1>2, <1>4, <1>5, <1>6 DEF Next, Discover, Collecting, TimerFires, vars

LEMMA RowsStayPaired ==
  ASSUME Inv, [Next]_vars
  PROVE  RowsPaired'
  <1> USE PodResourcesAssumption DEF Inv
  <1>0. row \in [PodName -> Rows] /\ at \in [PodName -> Places]
    BY DEF TypeOK, FanOutTypeOK, Places
  <1>1. CASE UNCHANGED <<podmetrics, clusterVars, at, row>>
    BY <1>1 DEF RowsPaired, Paired, clusterVars
  <1>2. CASE ListMetrics
    <2>1. UNCHANGED row /\ \A k \in PodName : at[k] = "idle"
      BY <1>2 DEF ListMetrics, FanInv, NotYet, Listing
    <2>2. \A k \in PodName : row[k].pod = NoPod /\ row[k].types = 0
      BY <2>1 DEF RowsPaired, Paired, FanInv, Workers, WorkerOK
    <2>3. \A k \in PodName : at'[k] # "idle" => k \in DOMAIN podmetrics' /\ at'[k] = "start"
      <3>1. PICK r \in GetPodMetricsFromMetricsAPI :
              \/ r.err # "nil" /\ UNCHANGED at
              \/ /\ r.err = "nil" /\ podmetrics' = r.val /\ StartAll
                 /\ Arrange([k \in DOMAIN r.val |-> r.val[k].usage])
        BY <1>2 DEF ListMetrics
      <3>2. CASE r.err # "nil"
        BY <2>1, <3>1, <3>2
      <3>3. CASE r.err = "nil"
        <4>1. names' \in SetToSeqs(DOMAIN r.val) /\ DOMAIN r.val \subseteq Item
          BY <3>1, <3>3, MetricsReply DEF Arrange
        <4>2. NameSet' \subseteq DOMAIN r.val
          BY <4>1, PermutationOf DEF NameSet
        <4> QED
          BY <3>1, <3>3, <4>2 DEF StartAll
      <3> QED
        BY <3>2, <3>3
    <2> QED
      BY <2>1, <2>2, <2>3 DEF RowsPaired, Paired
  <1>3. CASE ClusterChange
    <2>1. /\ UNCHANGED <<podmetrics, at, row>>
          /\ \A p \in Pod : place[p] = Deleted => place'[p] = Deleted
      BY <1>3, PlaceStep DEF ClusterChange, TypeOK, fanVars, workVars
    <2>2. \A k \in PodName : row[k].pod # NoPod => podmetrics[k].of \in Pod
      <3> SUFFICES ASSUME NEW k \in PodName, row[k].pod # NoPod
                   PROVE  podmetrics[k].of \in Pod
        OBVIOUS
      <3>1. podmetrics[k] \in Samples
        BY DEF RowsPaired, Paired, TypeOK
      <3> QED
        BY <3>1 DEF Samples
    <2> QED
      BY <2>1, <2>2 DEF RowsPaired, Paired
  <1>4. ASSUME NEW k \in PodName, WorkerRuns(k)
        PROVE  RowsPaired'
    <2>1. UNCHANGED <<podmetrics, clusterVars>>
      BY <1>4, WorkerRunsMapped DEF ownVars
    <2>2. /\ \/ at[k] = "start" /\ row' = row /\ at'[k] \in {"pod", "send"}
             \/ at[k] = "types" /\ at'[k] = "send" /\ row' = row
             \/ /\ at[k] = "types" /\ at'[k] \in {"types", "send"}
                /\ row' = [row EXCEPT ![k] = Extended(k)]
             \/ at[k] = "send" /\ row' = row /\ at'[k] = "done"
          /\ \A m \in PodName \ {k} : at'[m] = at[m]
      BY <1>4, WorkerRunsMapped
    <2>3. \A m \in PodName \ {k} : row'[m] = row[m]
      BY <1>0, <2>2
    <2>4. \/ row'[k] = row[k]
          \/ row'[k].pod = row[k].pod /\ row'[k].sample = podmetrics[k] /\ at[k] = "types"
      <3>1. Extended(k).pod = row[k].pod /\ Extended(k).sample = podmetrics[k]
        BY <1>0 DEF Extended, Rows
      <3>2. CASE row' = row
        BY <3>2
      <3>3. CASE at[k] = "types" /\ row' = [row EXCEPT ![k] = Extended(k)]
        BY <1>0, <3>1, <3>3
      <3> QED
        BY <2>2, <3>2, <3>3
    <2>5. Paired(k)'
      BY <2>1, <2>2, <2>4 DEF RowsPaired, Paired, clusterVars
    <2>6. \A m \in PodName \ {k} : Paired(m)'
      BY <2>1, <2>2, <2>3 DEF RowsPaired, Paired, clusterVars
    <2> QED
      BY <2>5, <2>6 DEF RowsPaired
  <1>5. ASSUME NEW k \in PodName, WorkerPod(k)
        PROVE  RowsPaired'
    <2>1. UNCHANGED <<podmetrics, place>>
      BY <1>5, WorkerPodMapped DEF ownVars, clusterVars
    <2>2. /\ at[k] = "pod"
          /\ \/ row' = row /\ at'[k] = "send"
             \/ /\ at'[k] = "types"
                /\ \E p \in Pod : /\ NameOf[p] = k /\ Exists(p)
                                  /\ row' = [row EXCEPT ![k] = [row[k] EXCEPT !.pod = p]]
          /\ \A m \in PodName \ {k} : at'[m] = at[m]
      BY <1>5, WorkerPodMapped
    <2>3. \A m \in PodName \ {k} : row'[m] = row[m]
      BY <1>0, <2>2
    <2>4. k \in DOMAIN podmetrics /\ row[k].pod = NoPod /\ row[k].types = 0
      BY <2>2 DEF RowsPaired, Paired, FanInv, Workers, WorkerOK, Reading
    <2>5. Paired(k)'
      <3>1. CASE row' = row /\ at'[k] = "send"
        BY <2>1, <2>4, <3>1 DEF Paired
      <3>2. ASSUME NEW p \in Pod, NameOf[p] = k, Exists(p), at'[k] = "types",
                   row' = [row EXCEPT ![k] = [row[k] EXCEPT !.pod = p]]
            PROVE  Paired(k)'
        <4>1. row'[k].pod = p /\ row'[k].types = 0
          BY <1>0, <2>4, <3>2 DEF Rows
        <4>2. podmetrics[k] \in Samples /\ HasRun(k, podmetrics[k])
          BY <2>4 DEF SamplesRan, TypeOK
        <4>3. /\ podmetrics[k].of \in Pod /\ NameOf[podmetrics[k].of] = k
              /\ place[podmetrics[k].of] \notin {Absent, Unbound}
          BY <4>2 DEF Samples, HasRun
        <4>4. p # podmetrics[k].of => place[podmetrics[k].of] = Deleted
          BY <3>2, <4>3 DEF NamesUnique, Exists
        <4>5. p # NoPod
          OBVIOUS
        <4> QED
          BY <2>1, <2>4, <3>2, <4>1, <4>4, <4>5 DEF Paired
      <3> QED
        BY <2>2, <3>1, <3>2
    <2>6. \A m \in PodName \ {k} : Paired(m)'
      BY <2>1, <2>2, <2>3 DEF RowsPaired, Paired
    <2> QED
      BY <2>5, <2>6 DEF RowsPaired
  <1>6. CASE Discover \/ Collecting \/ TimerFires \/ (\E k \in PodName : Scrape(k))
             \/ UNCHANGED vars
    <2>1. UNCHANGED <<podmetrics, clusterVars, at, row>>
      BY <1>6 DEF Discover, Collecting, Collect, CollectDone, CollectResult, Rebuild,
         ReturnResources, Exit, TimerFires, Deadline, Scrape, vars, ownVars, fanVars, workVars
    <2> QED
      BY <1>1, <2>1
  <1> QED
    BY <1>2, <1>3, <1>4, <1>5, <1>6 DEF Next

LEMMA StaysArranged ==
  ASSUME Inv, [Next]_vars
  PROVE  Arranged'
  <1> USE PodResourcesAssumption DEF Inv
  <1>1. CASE UNCHANGED <<names, podmetrics>>
    BY <1>1 DEF Arranged, UsageOf, InOrder
  <1>2. CASE ListMetrics
    <2>1. PICK r \in GetPodMetricsFromMetricsAPI :
            \/ UNCHANGED <<podmetrics, names>>
            \/ /\ r.err = "nil" /\ podmetrics' = r.val
               /\ Arrange([k \in DOMAIN r.val |-> r.val[k].usage])
      BY <1>2 DEF ListMetrics
    <2>2. CASE /\ r.err = "nil" /\ podmetrics' = r.val
               /\ Arrange([k \in DOMAIN r.val |-> r.val[k].usage])
      <3>1. names' \in SetToSeqs(DOMAIN r.val) /\ DOMAIN r.val \subseteq Item
        BY <2>2, MetricsReply DEF Arrange
      <3>2. \A j \in 1..Len(names') : names'[j] \in DOMAIN podmetrics'
        BY <2>2, <3>1, PermutationOf
      <3> QED
        BY <2>2, <3>2 DEF Arranged, Arrange, UsageOf, InOrder
    <2> QED
      BY <1>1, <2>1, <2>2
  <1>3. ASSUME NEW k \in PodName, WorkerRuns(k) \/ WorkerPod(k)
        PROVE  UNCHANGED <<names, podmetrics>>
    BY <1>3 DEF WorkerRuns, Begin, AddType, Send, WorkerPod, ownVars
  <1>4. CASE Discover \/ Collecting \/ TimerFires \/ ClusterChange
             \/ (\E k \in PodName : Scrape(k)) \/ UNCHANGED vars
    <2>1. UNCHANGED <<names, podmetrics>>
      BY <1>4 DEF Discover, Collecting, Collect, CollectDone, CollectResult, Rebuild,
         ReturnResources, Exit, TimerFires, Deadline, ClusterChange, Scrape, vars, ownVars,
         fanVars
    <2> QED
      BY <1>1, <2>1
  <1> QED
    BY <1>1, <1>2, <1>3, <1>4 DEF Next

LEMMA NextInv == Inv /\ [Next]_vars => Inv'
  <1> SUFFICES ASSUME Inv, [Next]_vars PROVE Inv'
    OBVIOUS
  <1>1. FanInv'
    BY StepMapped, FanNextInv DEF Inv
  <1>2. TypeOK' /\ NamesUnique' /\ SamplesRan'
    BY <1>1, OwnTypes DEF TypeOK, FanInv
  <1> QED
    BY <1>1, <1>2, RowsStayPaired, StaysArranged DEF Inv

-----------------------------------------------------------------------------
(* What holds of RunResourcePod and GetPodResources.                       *)

(* Inv is an inductive invariant.                                          *)
THEOREM Invariance == Spec => []Inv
  BY InitInv, NextInv, PTL DEF Spec

(* Every variable keeps its type, for any cluster.                         *)
THEOREM TypeCorrect == Spec => []TypeOK
  <1>1. Inv => TypeOK
    BY DEF Inv
  <1> QED
    BY Invariance, <1>1, PTL

(* The channel of kube.go:295 has room for every answer, so that no        *)
(* goroutine is left blocked when the collector returns early.             *)
THEOREM AlwaysRoom == Spec => []RoomForEveryAnswer
  <1>1. Inv => RoomForEveryAnswer
    BY HasRoom DEF Inv
  <1> QED
    BY Invariance, <1>1, PTL

(* The collecting loop of kube.go:362 never waits for an answer that no    *)
(* goroutine is going to send, so that a time-out is never of its own      *)
(* making.                                                                 *)
THEOREM NeverAlone == Spec => []SomebodyAnswers
  <1>1. Inv => SomebodyAnswers
    BY NotAlone DEF Inv
  <1> QED
    BY Invariance, <1>1, PTL

(* Rows are returned all together, in the order of the list and with every *)
(* requested column (kube.go:380-391).                                     *)
THEOREM AlwaysComplete == Spec => []RowsComplete
  <1>1. Inv => RowsComplete
    BY IsComplete DEF Inv
  <1> QED
    BY Invariance, <1>1, PTL

(* A table is shown only when every goroutine succeeded (kube.go:388).     *)
THEOREM ErrorsNeverSwallowed == Spec => []NoErrorSwallowed
  <1>1. Inv => NoErrorSwallowed
    BY NothingSwallowed DEF Inv
  <1> QED
    BY Invariance, <1>1, PTL

(* The error reported is one that happened, and never "context canceled"   *)
(* (resource_pod.go:164-208).                                              *)
THEOREM ErrorAlwaysGenuine == Spec => []ErrorIsGenuine
  <1>1. Inv => ErrorIsGenuine
    BY IsGenuine DEF Inv
  <1> QED
    BY Invariance, <1>1, PTL

(* The call implements Gather: it answers once, with every row in the      *)
(* order of the list, or with a failure that happened, or after the        *)
(* deadline.                                                               *)
THEOREM PromiseKept == Spec => KeepsPromise
  <1>1. Init => Inv /\ Promise!Init
    BY InitInv, NothingAsked DEF Init, Listing
  <1>2. Inv /\ [Next]_vars => Inv' /\ [Promise!Next]_Promise!gatherVars
    BY NextInv, StepMapped, PromiseStep DEF Inv
  <1> QED
    BY <1>1, <1>2, PTL DEF Spec, KeepsPromise, Promise!Spec

\* A row returned shows the sample listed under its name.
LEMMA RowsShowSamples ==
  ASSUME Inv, NEW j \in 1..Len(resources)
  PROVE  LET r == resources[j]
         IN  /\ r.name \in PodName /\ r.name \in DOMAIN podmetrics
             /\ Paired(r.name) /\ r = row[r.name]
             /\ r.pod # NoPod /\ r.sample = podmetrics[r.name]
  <1>1. /\ resources[j].name \in PodName
        /\ at[resources[j].name] = "done" /\ err[resources[j].name] = "nil"
        /\ resources[j] = row[resources[j].name]
    BY RowsReturned, PodResourcesAssumption DEF Inv
  <1>2. Paired(resources[j].name) /\ row[resources[j].name].types = NumTypes
    BY <1>1, PodResourcesAssumption DEF Inv, RowsPaired, FanInv, Workers, WorkerOK
  <1> QED
    BY <1>1, <1>2, FanOutAssumption DEF Paired

(* A row pairs the usage and the limits of pods of one namespace and name; *)
(* of two different pods only if the measured one has been deleted         *)
(* (kube.go:193, 310).                                                     *)
THEOREM RowsAlwaysPairOnePod == Spec => []RowsPairOnePod
  <1>1. Inv => RowsPairOnePod
    BY RowsShowSamples DEF Inv, RowsPairOnePod, Paired, SamplesRan, HasRun
  <1> QED
    BY Invariance, <1>1, PTL

(* With --sort-by, the table is in descending order of the usage it shows, *)
(* even while samples are taken (kube.go:298, 326).                        *)
THEOREM AlwaysShownInUsageOrder == Spec => []ShownInUsageOrder
  <1>1. ASSUME Inv, outcome = "rows", Sorted,
               NEW j \in 1..Len(resources), NEW k \in 1..Len(resources), j < k
        PROVE  resources[j].sample.usage >= resources[k].sample.usage
    <2>1. /\ Len(resources) = Len(names)
          /\ \A m \in 1..Len(names) : resources[m].name = names[m]
      BY <1>1, IsComplete DEF Inv, RowsComplete
    <2>2. UsageOf[names[j]] >= UsageOf[names[k]]
      BY <1>1, <2>1 DEF Inv, Arranged, InOrder
    <2>3. \A m \in 1..Len(resources) : resources[m].sample.usage = UsageOf[names[m]]
      BY <1>1, <2>1, RowsShowSamples DEF UsageOf
    <2> QED
      BY <2>2, <2>3
  <1>2. Inv => ShownInUsageOrder
    BY <1>1 DEF ShownInUsageOrder
  <1> QED
    BY Invariance, <1>2, PTL
=============================================================================
