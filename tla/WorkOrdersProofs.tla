-------------------------- MODULE WorkOrdersProofs --------------------------
(***************************************************************************)
(* Proofs about WorkOrders, for any sets of jobs, requests, estimates,     *)
(* checkpoints and handlers: types and numbers while handlers overlap, and *)
(* what holds of jobs, requests and estimates while they do not, first for *)
(* Spec, then for the scenes of MCOperations.                              *)
(***************************************************************************)
EXTENDS MCOperations, WellFoundedInduction, TLAPS

(* What a handler in flight holds is fit for the write it is about to do.  *)
FlightFit(f) ==
  /\ f.pc = "mark" => f.put \in Marks
  /\ f.pc = "photo" => f.put \in Checkpoints \cup {None}
  /\ f.pc \in {"findCustomer", "addCustomer", "decline"} => f.src \in Requests
  /\ f.pc \in {"editEstimate", "sendEstimate"} => f.src \in Estimates
  /\ f.since <= clock

TypeInv == TypeOK /\ \A h \in Handlers : FlightFit(req[h])

-----------------------------------------------------------------------------
(* Types.                                                                  *)

LEMMA AnyJobType == AnyJob \in Jobs
  BY WorkOrdersAssumption DEF AnyJob

LEMMA NoJobType == NoJob \in Row
  BY DEF NoJob, Row, NoRow, JobStatus, Sources

LEMMA IdleType == Idle \in Flight
  BY AnyJobType, NoJobType, WorkOrdersAssumption DEF Idle, Flight, Pcs, JobStatus

LEMMA AllocatingType ==
  ASSUME TypeOK, NEW pc \in Pcs, NEW src \in Sources \cup {None}
  PROVE  /\ Allocating(pc, src) \in Flight
         /\ Allocating(pc, src).pc = pc /\ Allocating(pc, src).src = src
         /\ Allocating(pc, src).since = clock /\ Allocating(pc, src).tries = 0
  BY IdleType DEF Allocating, Idle, Flight, TypeOK

LEMMA HoldingType ==
  ASSUME TypeOK, NEW pc \in Pcs, NEW j \in Jobs
  PROVE  /\ Holding(pc, j) \in Flight
         /\ Holding(pc, j).pc = pc /\ Holding(pc, j).job = j /\ Holding(pc, j).snap = job[j]
         /\ Holding(pc, j).src = None /\ Holding(pc, j).since = 0 /\ Holding(pc, j).tries = 0
         /\ Holding(pc, j).put = None
  BY IdleType DEF Holding, Idle, Flight, TypeOK

(* A handler that has read a source. *)
LEMMA ReadingType ==
  ASSUME NEW pc \in Pcs, NEW src \in Sources
  PROVE  /\ Reading(pc, src) \in Flight
         /\ Reading(pc, src).pc = pc /\ Reading(pc, src).src = src
         /\ Reading(pc, src).since = 0 /\ Reading(pc, src).tries = 0
  BY IdleType DEF Reading, Idle, Flight

(* One handler goes on as f; the tables keep their types. *)
LEMMA FlightsTyped ==
  ASSUME TypeInv, NEW h \in Handlers, NEW f, f \in Flight, FlightFit(f),
         req' = [req EXCEPT ![h] = f], clock' \in Nat, clock' >= clock
  PROVE  /\ req' \in [Handlers -> Flight]
         /\ \A g \in Handlers : FlightFit(req[g])'
<1>1. req \in [Handlers -> Flight] /\ clock \in Nat
  BY DEF TypeInv, TypeOK
<1>2. \A g \in Handlers : req'[g] = IF g = h THEN f ELSE req[g]
  BY <1>1
<1>3. f.since \in Nat /\ \A g \in Handlers : req[g].since \in Nat
  BY <1>1 DEF Flight
<1> QED
  BY <1>1, <1>2, <1>3 DEF TypeInv, FlightFit

LEMMA MovesTyped ==
  ASSUME TypeInv, NEW h \in Handlers, NEW f, f \in Flight, FlightFit(f), Moves(h, f)
  PROVE  TypeInv'
<1>1. clock' \in Nat /\ clock' >= clock
  BY DEF TypeInv, TypeOK, Moves
<1>2. /\ req' \in [Handlers -> Flight]
      /\ \A g \in Handlers : FlightFit(req[g])'
  BY <1>1, FlightsTyped DEF Moves, Becomes
<1> QED
  BY <1>2 DEF TypeInv, TypeOK, Moves, intake, Present

LEMMA IdleFit == TypeOK => FlightFit(Idle)
  BY DEF FlightFit, Idle, TypeOK

(* A write of the handler's job by a row that keeps its age, and goes on   *)
(* to make the work order or ends.                                         *)
LEMMA WritesTyped ==
  ASSUME TypeInv, NEW h \in Handlers, NEW pc, NEW row, NEW f, Writes(h, pc, row, f),
         row \in Row, row.age = job[req[h].job].age,
         row.status \notin NoRow \/ row.status = job[req[h].job].status,
         f \in Flight, FlightFit(f)
  PROVE  TypeInv'
<1> DEFINE j == req[h].job
<1>1. /\ j \in Jobs /\ job \in [Jobs -> Row] /\ clock \in Nat
      /\ clock' = clock /\ clock' >= clock
  BY DEF TypeInv, TypeOK, Flight, Writes
<1>2. CASE ~Present(j)
  <2>1. Moves(h, Idle)
    BY <1>2 DEF Writes, Moves
  <2> QED
    BY <2>1, MovesTyped, IdleType, IdleFit DEF TypeInv
<1>3. CASE Present(j)
  <2>1. job' = [job EXCEPT ![j] = row] /\ req' = [req EXCEPT ![h] = f]
    BY <1>3 DEF Writes, Becomes
  <2>2. /\ req' \in [Handlers -> Flight]
        /\ \A g \in Handlers : FlightFit(req[g])'
    BY <1>1, <2>1, FlightsTyped
  <2> HIDE DEF j
  <2>3. job' \in [Jobs -> Row]
    BY <1>1, <2>1
  <2>4. \A k \in Jobs : Present(k)' => job'[k].age \in 1..clock'
    BY <1>1, <1>3, <2>1 DEF TypeInv, TypeOK, Present, j
  <2> QED
    BY <2>2, <2>3, <2>4 DEF TypeInv, TypeOK, Writes, intake
<1> QED
  BY <1>2, <1>3

LEMMA BeginTyped == ASSUME TypeInv, NEW h \in Handlers, Begin(h) PROVE TypeInv'
<1>0. TypeOK
  BY DEF TypeInv
<1>1. CASE CreateJob(h)
  <2>1. FlightFit(Allocating("readLast", None)) /\ Allocating("readLast", None) \in Flight
    BY <1>0, AllocatingType DEF FlightFit, Pcs, TypeOK
  <2> QED
    BY <1>1, <2>1, MovesTyped DEF CreateJob
<1>2. ASSUME NEW r \in Requests, ConfirmRead(h, r) PROVE TypeInv'
  <2>1. FlightFit(Allocating("findCustomer", r)) /\ Allocating("findCustomer", r) \in Flight
    BY <1>0, AllocatingType DEF FlightFit, Pcs, TypeOK, Sources
  <2> QED
    BY <1>2, <2>1, MovesTyped DEF ConfirmRead
<1>3. ASSUME NEW r \in Requests, DeclineRead(h, r) PROVE TypeInv'
  <2>1. FlightFit(Reading("decline", r)) /\ Reading("decline", r) \in Flight
    BY <1>0, ReadingType DEF FlightFit, Pcs, TypeOK, Sources
  <2> QED
    BY <1>3, <2>1, MovesTyped DEF DeclineRead
<1>4. ASSUME NEW e \in Estimates, EditEstimateRead(h, e) PROVE TypeInv'
  <2>1. FlightFit(Reading("editEstimate", e)) /\ Reading("editEstimate", e) \in Flight
    BY <1>0, ReadingType DEF FlightFit, Pcs, TypeOK, Sources
  <2> QED
    BY <1>4, <2>1, MovesTyped DEF EditEstimateRead
<1>5. ASSUME NEW e \in Estimates, SendRead(h, e) PROVE TypeInv'
  <2>1. FlightFit(Reading("sendEstimate", e)) /\ Reading("sendEstimate", e) \in Flight
    BY <1>0, ReadingType DEF FlightFit, Pcs, TypeOK, Sources
  <2> QED
    BY <1>5, <2>1, MovesTyped DEF SendRead
<1>6. ASSUME NEW e \in Estimates, ConvertRead(h, e) PROVE TypeInv'
  <2>1. FlightFit(Allocating("readLast", e)) /\ Allocating("readLast", e) \in Flight
    BY <1>0, AllocatingType DEF FlightFit, Pcs, TypeOK, Sources
  <2> QED
    BY <1>6, <2>1, MovesTyped DEF ConvertRead
<1>7. ASSUME NEW j \in Jobs, NEW pc \in {"checkpoints", "pdf", "edit"}, Moves(h, Holding(pc, j)) PROVE TypeInv'
  <2>1. FlightFit(Holding(pc, j)) /\ Holding(pc, j) \in Flight
    BY <1>0, HoldingType DEF FlightFit, Pcs, TypeOK
  <2> QED
    BY <1>7, <2>1, MovesTyped
<1>8. ASSUME NEW j \in Jobs, NEW p \in Marks, Moves(h, [Holding("mark", j) EXCEPT !.put = p]) PROVE TypeInv'
  <2> DEFINE f == [Holding("mark", j) EXCEPT !.put = p]
  <2>1. Holding("mark", j) \in Flight /\ Holding("mark", j).pc = "mark" /\ Holding("mark", j).since = 0
    BY <1>0, HoldingType DEF Pcs
  <2>2. FlightFit(f) /\ f \in Flight
    BY <1>0, <2>1 DEF FlightFit, TypeOK, Flight
  <2> QED
    BY <1>8, <2>2, MovesTyped
<1>9. ASSUME NEW j \in Jobs, NEW to \in JobStatus, StatusRead(h, j, to) PROVE TypeInv'
  <2> DEFINE f == [Holding("setStatus", j) EXCEPT !.to = to]
  <2>1. Holding("setStatus", j) \in Flight /\ Holding("setStatus", j).pc = "setStatus" /\ Holding("setStatus", j).since = 0
    BY <1>0, HoldingType DEF Pcs
  <2>2. FlightFit(f) /\ f \in Flight
    BY <1>0, <2>1 DEF FlightFit, TypeOK, Flight
  <2> QED
    BY <1>9, <2>2, MovesTyped DEF StatusRead
<1>10. ASSUME NEW j \in Jobs, NEW c \in Checkpoints \cup {None}, PhotoRead(h, j, c) PROVE TypeInv'
  <2> DEFINE f == [Holding("photo", j) EXCEPT !.put = c]
  <2>1. Holding("photo", j) \in Flight /\ Holding("photo", j).pc = "photo" /\ Holding("photo", j).since = 0
    BY <1>0, HoldingType DEF Pcs
  <2>2. FlightFit(f) /\ f \in Flight
    BY <1>0, <2>1 DEF FlightFit, TypeOK, Flight
  <2> QED
    BY <1>10, <2>2, MovesTyped DEF PhotoRead
<1>11. ASSUME NEW j \in Jobs, NEW a \in Amounts, SyncRead(h, j, a) PROVE TypeInv'
  <2> DEFINE f == [Holding("sync", j) EXCEPT !.amt = a]
  <2>1. Holding("sync", j) \in Flight /\ Holding("sync", j).pc = "sync" /\ Holding("sync", j).since = 0
    BY <1>0, HoldingType DEF Pcs
  <2>2. FlightFit(f) /\ f \in Flight
    BY <1>0, <2>1 DEF FlightFit, TypeOK, Flight
  <2> QED
    BY <1>11, <2>2, MovesTyped DEF SyncRead
<1> QED
  BY <1>1, <1>2, <1>3, <1>4, <1>5, <1>6, <1>7, <1>8, <1>9, <1>10, <1>11
     DEF Begin, CompleteRead, PdfRead, EditRead, OnMyWayRead, SignatureRead, Marks

(* A nonempty set of naturals below a bound has a greatest element.        *)
LEMMA GreatestExists ==
  ASSUME NEW n \in Nat, NEW A, A \subseteq 0..n, A # {}
  PROVE  \E a \in A : \A b \in A : b <= a
<1> DEFINE R == OpToRel(<, Nat)
           D == {n - a : a \in A}
<1>0. \A a \in A : a \in Nat /\ n - a \in Nat
  OBVIOUS
<1>1. D \subseteq Nat /\ D # {}
  BY <1>0
<1>2. IsWellFoundedOn(R, Nat)
  BY NatLessThanWellFounded
<1>3. \A x, y \in Nat : x < y => <<x, y>> \in R
  BY DEF OpToRel
<1> HIDE DEF R
<1>4. PICK x \in D : \A y \in D : ~ (<<y, x>> \in R)
  BY <1>1, <1>2, WFMin, Zenon
<1>5. \A y \in D : ~ (y < x)
  BY <1>1, <1>3, <1>4
<1>6. PICK a \in A : x = n - a
  BY <1>4
<1>7. \A b \in A : b <= a
  <2> SUFFICES ASSUME NEW b \in A PROVE b <= a
    OBVIOUS
  <2>1. ~ (n - b < n - a)
    BY <1>5, <1>6
  <2> QED
    BY <1>0, <2>1
<1> QED
  BY <1>7

(* While there are jobs one of them is the newest.                         *)
LEMMA NewestExists ==
  ASSUME TypeOK, NEW j \in Jobs, Present(j)
  PROVE  \E k \in Jobs : Newest(k)
<1> DEFINE A == {job[k].age : k \in {i \in Jobs : Present(i)}}
<1>1. clock \in Nat /\ A \subseteq 0..clock /\ A # {}
  BY DEF TypeOK
<1>2. PICK a \in A : \A b \in A : b <= a
  BY <1>1, GreatestExists
<1>3. PICK k \in Jobs : Present(k) /\ job[k].age = a
  BY <1>2
<1> QED
  BY <1>2, <1>3 DEF Newest

(* The next number is 1, or one more than that of a newest job.            *)
LEMMA NextNumberIs ==
  ASSUME TypeOK
  PROVE  \/ NextNumber = 1 /\ \A j \in Jobs : ~Present(j)
         \/ \E j \in Jobs : Newest(j) /\ NextNumber = job[j].num + 1
<1>1. CASE \E j \in Jobs : Present(j)
  <2> DEFINE j == CHOOSE j \in Jobs : Newest(j)
  <2>1. j \in Jobs /\ Newest(j)
    BY <1>1, NewestExists
  <2>2. NextNumber = job[j].num + 1
    BY <1>1 DEF NextNumber
  <2> QED
    BY <2>1, <2>2
<1> QED
  BY <1>1 DEF NextNumber

LEMMA NextNumberType == ASSUME TypeOK PROVE NextNumber \in Nat
  BY NextNumberIs DEF TypeOK, Row

LEMMA ReadLastTyped == ASSUME TypeInv, NEW h \in Handlers, ReadLast(h) PROVE TypeInv'
<1> DEFINE f == [req[h] EXCEPT !.pc = "insert", !.num = NextNumber]
<1>1. f \in Flight /\ FlightFit(f)
  <2>1. req[h] \in Flight /\ FlightFit(req[h]) /\ NextNumber \in Nat
    BY NextNumberType DEF TypeInv, TypeOK
  <2>2. f \in Flight /\ f.pc = "insert" /\ f.since = req[h].since
    BY <2>1 DEF Flight, Pcs
  <2> QED
    BY <2>1, <2>2 DEF FlightFit
<1> QED
  BY <1>1, MovesTyped DEF ReadLast

LEMMA NewJobType ==
  ASSUME TypeInv, NEW h \in Handlers, NEW needs \in {{}, Checkpoints}, NEW cost \in Nat
  PROVE  /\ NewJob(h, needs, cost) \in Row
         /\ NewJob(h, needs, cost).status = "SCHEDULED"
         /\ NewJob(h, needs, cost).age = clock + 1
         /\ NewJob(h, needs, cost).num = req[h].num
         /\ NewJob(h, needs, cost).source = req[h].src
         /\ NewJob(h, needs, cost).flow = FALSE
         /\ NewJob(h, needs, cost).profit = NewJob(h, needs, cost).revenue - NewJob(h, needs, cost).cost
<1>1. req[h].num \in Nat /\ req[h].src \in Sources \cup {None} /\ clock \in Nat
  BY DEF TypeInv, TypeOK, Flight
<1>2. /\ "SCHEDULED" \in JobStatus \cup NoRow /\ clock + 1 \in Nat
      /\ needs \in SUBSET Checkpoints /\ -cost \in Int
  BY <1>1 DEF JobStatus
<1> DEFINE row == NewJob(h, needs, cost)
<1>3. row \in Row
  BY <1>1, <1>2, NoJobType DEF NewJob, Row
<1>4. /\ row.status = "SCHEDULED" /\ row.age = clock + 1 /\ row.num = req[h].num
      /\ row.source = req[h].src /\ row.flow = FALSE
  BY DEF NewJob, NoJob
<1>5. row.profit = -cost /\ row.revenue = 0 /\ row.cost = cost
  BY DEF NewJob, NoJob
<1>6. row.profit = row.revenue - row.cost
  BY <1>5
<1> QED
  BY <1>3, <1>4, <1>6

(* What an insert does. *)
LEMMA InsertDoes ==
  ASSUME TypeInv, NEW h \in Handlers, NEW j \in Jobs, InsertJob(h, j)
  PROVE  \E row \in Row :
           /\ job' = [job EXCEPT ![j] = row] /\ job[j].status = "ABSENT"
           /\ row.status = "SCHEDULED" /\ row.age = clock + 1 /\ row.num = req[h].num
           /\ row.source = req[h].src /\ row.flow = FALSE /\ row.profit = row.revenue - row.cost
<1>1. PICK needs \in {{}, Checkpoints}, cost \in Nat : job' = [job EXCEPT ![j] = NewJob(h, needs, cost)]
  BY WorkOrdersAssumption DEF InsertJob
<1> QED
  BY <1>1, NewJobType DEF InsertJob

LEMMA InsertTyped ==
  ASSUME TypeInv, NEW h \in Handlers, NEW j \in Jobs, InsertJob(h, j)
  PROVE  TypeInv'
<1>1. PICK row \in Row :
        /\ job' = [job EXCEPT ![j] = row] /\ job[j].status = "ABSENT"
        /\ row.status = "SCHEDULED" /\ row.age = clock + 1
  BY InsertDoes
<1>2. /\ clock \in Nat /\ clock' = clock + 1 /\ req' = [req EXCEPT ![h] = Idle]
      /\ job \in [Jobs -> Row] /\ customers' = customers /\ aborts' = aborts
  BY DEF TypeInv, TypeOK, InsertJob, Becomes
<1>3. /\ req' \in [Handlers -> Flight]
      /\ \A g \in Handlers : FlightFit(req[g])'
  <2>1. Idle \in Flight /\ FlightFit(Idle)
    BY IdleType, IdleFit DEF TypeInv
  <2>2. clock' \in Nat /\ clock' >= clock
    BY <1>2
  <2> QED
    BY <1>2, <2>1, <2>2, FlightsTyped
<1>4. /\ job' \in [Jobs -> Row]
      /\ \A k \in Jobs : Present(k)' => job'[k].age \in 1..clock'
  BY <1>1, <1>2 DEF TypeInv, TypeOK, Present
<1>5. request' \in [Requests -> Request]
  BY DEF InsertJob, TypeInv, TypeOK, Request
<1>6. estimate' \in [Estimates -> Estimate]
  <2>1. estimate \in [Estimates -> Estimate]
    BY DEF TypeInv, TypeOK
  <2>2. \A e \in Estimates : [estimate[e] EXCEPT !.status = "CONVERTED", !.job = j] \in Estimate
    BY <2>1 DEF Estimate
  <2>3. estimate' = [e \in Estimates |->
          IF e = req[h].src THEN [estimate[e] EXCEPT !.status = "CONVERTED", !.job = j] ELSE estimate[e]]
    BY DEF InsertJob
  <2> HIDE DEF Estimate
  <2> QED
    BY <2>1, <2>2, <2>3
<1> QED
  BY <1>2, <1>3, <1>4, <1>5, <1>6 DEF TypeInv, TypeOK

LEMMA RetryType ==
  ASSUME TypeInv, NEW h \in Handlers, At(h, "insert")
  PROVE  /\ Retry(h) \in Flight /\ FlightFit(Retry(h))
         /\ Retry(h).pc = "readLast" /\ Retry(h).tries = req[h].tries + 1
         /\ Retry(h).since = req[h].since /\ Retry(h).src = req[h].src
<1>1. req[h] \in Flight /\ req[h].since <= clock
  BY DEF TypeInv, TypeOK, FlightFit
<1>2. Retry(h) \in Flight
  <2>1. "readLast" \in Pcs /\ 0 \in Nat /\ req[h].tries + 1 \in Nat
    BY <1>1 DEF Flight, Pcs
  <2> QED
    BY <1>1, <2>1 DEF Retry, Flight
<1>3. /\ Retry(h).pc = "readLast" /\ Retry(h).tries = req[h].tries + 1
      /\ Retry(h).since = req[h].since /\ Retry(h).src = req[h].src
  BY <1>1 DEF Retry, Flight
<1> QED
  BY <1>1, <1>2, <1>3 DEF FlightFit

LEMMA InsertFailsTyped == ASSUME TypeInv, NEW h \in Handlers, InsertFails(h) PROVE TypeInv'
<1>1. CASE Moves(h, Idle)
  BY <1>1, MovesTyped, IdleType, IdleFit DEF TypeInv
<1>2. CASE Moves(h, Retry(h))
  BY <1>2, MovesTyped, RetryType DEF InsertFails
<1> QED
  BY <1>1, <1>2 DEF InsertFails

LEMMA CustomerTyped == ASSUME TypeInv, NEW h \in Handlers, FindCustomer(h) \/ AddCustomer(h) PROVE TypeInv'
<1> DEFINE f(pc) == [req[h] EXCEPT !.pc = pc]
<1>1. \A pc \in {"readLast", "addCustomer"} : f(pc) \in Flight /\ FlightFit(f(pc))
  BY DEF TypeInv, TypeOK, Flight, FlightFit, Pcs, At, FindCustomer, AddCustomer
<1>2. CASE FindCustomer(h)
  <2>1. Moves(h, f("readLast")) \/ Moves(h, f("addCustomer"))
    BY <1>2 DEF FindCustomer
  <2> HIDE DEF f
  <2> QED
    BY <1>1, <2>1, MovesTyped
<1>3. CASE AddCustomer(h)
  <2>1. /\ req' = [req EXCEPT ![h] = f("readLast")] /\ customers' = customers + 1
        /\ UNCHANGED <<job, request, estimate, clock, aborts>>
    BY <1>3 DEF AddCustomer, Becomes
  <2>2. clock' \in Nat /\ clock' >= clock
    BY <2>1 DEF TypeInv, TypeOK
  <2> HIDE DEF f
  <2>3. /\ req' \in [Handlers -> Flight]
        /\ \A g \in Handlers : FlightFit(req[g])'
    BY <1>1, <2>1, <2>2, FlightsTyped
  <2> QED
    BY <2>1, <2>3 DEF TypeInv, TypeOK, Present
<1> QED
  BY <1>2, <1>3

(* A step that ends its handler and writes requests or estimates only.     *)
LEMMA SourcesTyped ==
  ASSUME TypeInv, request' \in [Requests -> Request], estimate' \in [Estimates -> Estimate],
         NEW h \in Handlers, req' = req \/ req' = [req EXCEPT ![h] = Idle],
         UNCHANGED <<job, customers, clock, aborts>>
  PROVE  TypeInv'
<1>1. clock' \in Nat /\ clock' >= clock
  BY DEF TypeInv, TypeOK
<1>2. Idle \in Flight /\ FlightFit(Idle)
  BY IdleType, IdleFit DEF TypeInv
<1>3. /\ req' \in [Handlers -> Flight]
      /\ \A g \in Handlers : FlightFit(req[g])'
  <2>1. CASE req' = req
    BY <2>1 DEF TypeInv, TypeOK, FlightFit
  <2> QED
    BY <1>1, <1>2, <2>1, FlightsTyped
<1> QED
  BY <1>3 DEF TypeInv, TypeOK, Present

LEMMA SourceWritesTyped ==
  ASSUME TypeInv, NEW h \in Handlers, DeclineWrite(h) \/ EditEstimateWrite(h) \/ SendWrite(h)
  PROVE  TypeInv'
<1>1. req[h] \in Flight /\ FlightFit(req[h]) /\ request \in [Requests -> Request] /\ estimate \in [Estimates -> Estimate]
  BY DEF TypeInv, TypeOK
<1>2. CASE DeclineWrite(h)
  <2>1. request' \in [Requests -> Request]
    BY <1>1, <1>2 DEF DeclineWrite, Request
  <2> QED
    BY <1>1, <1>2, <2>1, SourcesTyped DEF DeclineWrite, Becomes
<1>3. ASSUME NEW pc \in {"editEstimate", "sendEstimate"}, NEW row \in Estimate, WritesEstimate(h, pc, row)
      PROVE  TypeInv'
  <2>1. estimate' \in [Estimates -> Estimate]
    BY <1>1, <1>3 DEF WritesEstimate
  <2> QED
    BY <1>1, <1>3, <2>1, SourcesTyped DEF WritesEstimate, Becomes
<1>4. CASE EditEstimateWrite(h)
  <2>1. PICK t \in Amounts : WritesEstimate(h, "editEstimate", [estimate[req[h].src] EXCEPT !.total = t])
    BY <1>4 DEF EditEstimateWrite
  <2>2. [estimate[req[h].src] EXCEPT !.total = t] \in Estimate
    BY <1>1, <2>1 DEF WritesEstimate, At, FlightFit, Estimate
  <2> QED
    BY <1>3, <2>1, <2>2
<1>5. CASE SendWrite(h)
  <2>1. [estimate[req[h].src] EXCEPT !.status = "SENT"] \in Estimate
    BY <1>1, <1>5 DEF SendWrite, WritesEstimate, At, FlightFit, Estimate
  <2> QED
    BY <1>3, <1>5, <2>1 DEF SendWrite
<1> QED
  BY <1>2, <1>4, <1>5

LEMMA AtOnceTyped == ASSUME TypeInv, AtOnce PROVE TypeInv'
<1>1. /\ job \in [Jobs -> Row] /\ request \in [Requests -> Request]
      /\ estimate \in [Estimates -> Estimate] /\ req \in [Handlers -> Flight]
      /\ \A h \in Handlers : FlightFit(req[h])
  BY DEF TypeInv, TypeOK
<1>2. ASSUME UNCHANGED <<clock, req>> PROVE \A h \in Handlers : FlightFit(req[h])'
  BY <1>1, <1>2 DEF FlightFit
<1>3. ASSUME NEW r \in Requests, CreateRequest(r) PROVE TypeInv'
  <2>1. request' \in [Requests -> Request]
    BY <1>1, <1>3 DEF CreateRequest, Request
  <2> QED
    BY <1>2, <1>3, <2>1 DEF CreateRequest, TypeInv, TypeOK, Present
<1>4. ASSUME NEW e \in Estimates, CreateEstimate(e) \/ RemoveEstimate(e) PROVE TypeInv'
  <2>1. estimate' \in [Estimates -> Estimate]
    BY <1>1, <1>4 DEF CreateEstimate, RemoveEstimate, Estimate
  <2> QED
    BY <1>2, <1>4, <2>1 DEF CreateEstimate, RemoveEstimate, TypeInv, TypeOK, Present
<1>5. ASSUME NEW j \in Jobs, RemoveJob(j) PROVE TypeInv'
  <2>1. estimate' \in [Estimates -> Estimate]
    BY <1>1, <1>5 DEF RemoveJob, Estimate
  <2>2. [NoJob EXCEPT !.status = "DELETED"] \in Row /\ [NoJob EXCEPT !.status = "DELETED"].status = "DELETED"
    BY NoJobType DEF Row, NoRow
  <2>3. job' \in [Jobs -> Row] /\ \A k \in Jobs : Present(k)' => Present(k) /\ job'[k] = job[k]
    BY <1>1, <1>5, <2>2 DEF RemoveJob, Present, NoRow
  <2> QED
    BY <1>2, <1>5, <2>1, <2>3 DEF RemoveJob, TypeInv, TypeOK
<1> QED
  BY <1>3, <1>4, <1>5 DEF AtOnce

(* A row written over another of the same job: the identity stays, and the *)
(* job is not deleted by it.                                               *)
Over(row, old) ==
  /\ row \in Row /\ row.age = old.age /\ row.num = old.num /\ row.source = old.source
  /\ row.status \notin NoRow \/ row.status = old.status

(* What else the writes leave alone. *)
SameState(row, old) == row.status = old.status /\ row.flow = old.flow
SameMoney(row, old) == row.revenue = old.revenue /\ row.cost = old.cost /\ row.profit = old.profit

LEMMA StatusRow ==
  ASSUME NEW old \in Row, NEW f \in Flight
  PROVE  LET row == [old EXCEPT !.status = f.to,
                                !.started = @ \/ (f.to = "IN_PROGRESS" /\ ~f.snap.started),
                                !.ended = @ \/ f.to = "COMPLETED"]
         IN  Over(row, old) /\ SameMoney(row, old) /\ row.flow = old.flow /\ row.status = f.to
<1> DEFINE row == [old EXCEPT !.status = f.to,
                              !.started = @ \/ (f.to = "IN_PROGRESS" /\ ~f.snap.started),
                              !.ended = @ \/ f.to = "COMPLETED"]
<1>1. /\ row.age = old.age /\ row.num = old.num /\ row.source = old.source
      /\ SameMoney(row, old) /\ row.flow = old.flow /\ row.status = f.to
  BY DEF Row, SameMoney
<1>2. f.to \in JobStatus /\ f.to \notin NoRow
  BY DEF Flight, JobStatus, NoRow
<1>3. /\ (old.started \/ (f.to = "IN_PROGRESS" /\ ~f.snap.started)) \in BOOLEAN
      /\ (old.ended \/ f.to = "COMPLETED") \in BOOLEAN
  OBVIOUS
<1>4. row \in Row
  BY <1>2, <1>3 DEF Row
<1> QED
  BY <1>1, <1>2, <1>4 DEF Over

LEMMA CompleteRow ==
  ASSUME NEW old \in Row
  PROVE  LET row == [old EXCEPT !.status = "COMPLETED", !.ended = TRUE, !.flow = TRUE]
         IN  /\ Over(row, old) /\ SameMoney(row, old) /\ row.status = "COMPLETED"
             /\ row.needs = old.needs /\ row.photos = old.photos
<1> DEFINE row == [old EXCEPT !.status = "COMPLETED", !.ended = TRUE, !.flow = TRUE]
<1>1. /\ row.age = old.age /\ row.num = old.num /\ row.source = old.source
      /\ SameMoney(row, old) /\ row.status = "COMPLETED"
      /\ row.needs = old.needs /\ row.photos = old.photos
  BY DEF Row, SameMoney
<1>2. "COMPLETED" \in JobStatus /\ "COMPLETED" \notin NoRow
  BY DEF JobStatus, NoRow
<1>3. row \in Row
  BY <1>2 DEF Row
<1> QED
  BY <1>1, <1>2, <1>3 DEF Over

LEMMA PdfRow ==
  ASSUME NEW old \in Row, NEW p \in {"none", "draft", "report"}
  PROVE  LET row == [old EXCEPT !.pdf = p]
         IN  Over(row, old) /\ SameMoney(row, old) /\ SameState(row, old)
  BY DEF Row, Over, SameMoney, SameState

LEMMA PhotoRow ==
  ASSUME NEW old \in Row, NEW p \in Checkpoints \cup {None}
  PROVE  LET row == [old EXCEPT !.photos = @ \cup ({p} \ {None})]
         IN  Over(row, old) /\ SameMoney(row, old) /\ SameState(row, old)
<1>1. old.photos \cup ({p} \ {None}) \in SUBSET Checkpoints
  BY DEF Row
<1> QED
  BY <1>1 DEF Row, Over, SameMoney, SameState

LEMMA MarkRow ==
  ASSUME NEW old \in Row, NEW p \in Marks
  PROVE  LET row == [old EXCEPT !.marks = @ \cup {p}]
         IN  Over(row, old) /\ SameMoney(row, old) /\ SameState(row, old)
<1>1. old.marks \cup {p} \in SUBSET Marks
  BY DEF Row
<1> QED
  BY <1>1 DEF Row, Over, SameMoney, SameState

LEMMA NeedsRow ==
  ASSUME NEW old \in Row, NEW needs \in {{}, Checkpoints}
  PROVE  LET row == [old EXCEPT !.needs = needs]
         IN  Over(row, old) /\ SameMoney(row, old) /\ SameState(row, old)
<1>1. needs \in SUBSET Checkpoints
  OBVIOUS
<1> QED
  BY <1>1 DEF Row, Over, SameMoney, SameState

LEMMA CostedRow ==
  ASSUME NEW old \in Row, NEW snap \in Row, NEW c \in Nat
  PROVE  /\ Over(Costed(old, snap, c), old) /\ SameState(Costed(old, snap, c), old)
         /\ Costed(old, snap, c).revenue = old.revenue /\ Costed(old, snap, c).cost = c
         /\ Costed(old, snap, c).profit = snap.revenue - c
<1>1. snap.revenue - c \in Int
  BY DEF Row
<1> QED
  BY <1>1 DEF Costed, Row, Over, SameState

LEMMA SyncRow ==
  ASSUME NEW old \in Row, NEW snap \in Row, NEW a \in Nat
  PROVE  /\ Over(Synced(old, snap, a), old) /\ SameState(Synced(old, snap, a), old)
         /\ Synced(old, snap, a).revenue = a /\ Synced(old, snap, a).cost = old.cost
         /\ Synced(old, snap, a).profit = a - snap.cost
<1>1. a - snap.cost \in Int
  BY DEF Row
<1> QED
  BY <1>1 DEF Synced, Row, Over, SameState

(* A write and what the handler goes on as. *)
LEMMA OverTyped ==
  ASSUME TypeInv, NEW h \in Handlers, NEW pc, NEW row, NEW f, Writes(h, pc, row, f),
         Over(row, job[req[h].job]), f \in Flight, FlightFit(f)
  PROVE  TypeInv'
  BY WritesTyped DEF Over

LEMMA IdleOverTyped ==
  ASSUME TypeInv, NEW h \in Handlers, NEW pc, NEW row, Writes(h, pc, row, Idle),
         Over(row, job[req[h].job])
  PROVE  TypeInv'
  BY OverTyped, IdleType, IdleFit DEF TypeInv

(* The handler after its completion. *)
LEMMA NextPcType ==
  ASSUME TypeInv, NEW h \in Handlers, NEW pc \in {"complete", "report"}
  PROVE  /\ [req[h] EXCEPT !.pc = pc] \in Flight /\ FlightFit([req[h] EXCEPT !.pc = pc])
         /\ [req[h] EXCEPT !.pc = pc].pc = pc
         /\ [req[h] EXCEPT !.pc = pc].job = req[h].job
         /\ [req[h] EXCEPT !.pc = pc].snap = req[h].snap
<1>1. req[h] \in Flight /\ req[h].since <= clock /\ pc \in Pcs
  BY DEF TypeInv, TypeOK, FlightFit, Pcs
<1> QED
  BY <1>1 DEF Flight, FlightFit

LEMMA JobWritesTyped ==
  ASSUME TypeInv, NEW h \in Handlers,
         \/ StatusWrite(h) \/ CheckpointsRead(h) \/ CompleteWrite(h) \/ ReportWrite(h)
         \/ PdfWrite(h) \/ PhotoWrite(h) \/ MarkWrite(h) \/ EditWrite(h) \/ SyncWrite(h)
  PROVE  TypeInv'
<1> DEFINE old == job[req[h].job]
           snap == req[h].snap
<1>1. req[h] \in Flight /\ FlightFit(req[h]) /\ old \in Row /\ snap \in Row /\ req[h].amt \in Nat
  BY WorkOrdersAssumption DEF TypeInv, TypeOK, Flight
<1>2. CASE StatusWrite(h)
  BY <1>1, <1>2, StatusRow, IdleOverTyped DEF StatusWrite
<1>3. CASE CheckpointsRead(h)
  <2>1. CASE Moves(h, Idle)
    BY <2>1, MovesTyped, IdleType, IdleFit DEF TypeInv
  <2>2. CASE Moves(h, [req[h] EXCEPT !.pc = "complete"])
    BY <2>2, MovesTyped, NextPcType
  <2> QED
    BY <1>3, <2>1, <2>2 DEF CheckpointsRead
<1>4. CASE CompleteWrite(h)
  BY <1>1, <1>4, CompleteRow, NextPcType, OverTyped DEF CompleteWrite
<1>5. CASE ReportWrite(h)
  BY <1>1, <1>5, PdfRow, IdleOverTyped, MovesTyped, IdleType, IdleFit DEF ReportWrite, TypeInv
<1>6. CASE PdfWrite(h)
  BY <1>1, <1>6, PdfRow, IdleOverTyped DEF PdfWrite
<1>7. CASE PhotoWrite(h)
  <2>1. req[h].put \in Checkpoints \cup {None}
    BY <1>1, <1>7 DEF PhotoWrite, Writes, At, FlightFit
  <2> QED
    BY <1>1, <1>7, <2>1, PhotoRow, IdleOverTyped DEF PhotoWrite
<1>8. CASE MarkWrite(h)
  <2>1. req[h].put \in Marks
    BY <1>1, <1>8 DEF MarkWrite, Writes, At, FlightFit
  <2> QED
    BY <1>1, <1>8, <2>1, MarkRow, IdleOverTyped DEF MarkWrite
<1>9. CASE EditWrite(h)
  <2>1. ASSUME NEW c \in Amounts, Writes(h, "edit", Costed(old, snap, c), Idle) PROVE TypeInv'
    BY <1>1, <2>1, CostedRow, IdleOverTyped, WorkOrdersAssumption
  <2>2. ASSUME NEW needs \in {{}, Checkpoints}, Writes(h, "edit", [old EXCEPT !.needs = needs], Idle)
        PROVE  TypeInv'
    BY <1>1, <2>2, NeedsRow, IdleOverTyped
  <2> QED
    BY <1>9, <2>1, <2>2 DEF EditWrite
<1>10. CASE SyncWrite(h)
  BY <1>1, <1>10, SyncRow, IdleOverTyped DEF SyncWrite
<1> QED
  BY <1>2, <1>3, <1>4, <1>5, <1>6, <1>7, <1>8, <1>9, <1>10

LEMMA ResumeTyped == ASSUME TypeInv, NEW h \in Handlers, Resume(h) PROVE TypeInv'
  BY ReadLastTyped, InsertFailsTyped, InsertTyped, CustomerTyped, SourceWritesTyped, JobWritesTyped
     DEF Resume

LEMMA AbortTyped == ASSUME TypeInv, NEW h \in Handlers, Abort(h) PROVE TypeInv'
<1>1. /\ req' = [req EXCEPT ![h] = Idle] /\ aborts' \in 0..MaxAborts
      /\ UNCHANGED <<job, intake, clock>>
  BY WorkOrdersAssumption DEF Abort, Becomes, TypeInv, TypeOK
<1>2. clock' \in Nat /\ clock' >= clock
  BY <1>1 DEF TypeInv, TypeOK
<1>3. /\ req' \in [Handlers -> Flight]
      /\ \A g \in Handlers : FlightFit(req[g])'
  BY <1>1, <1>2, FlightsTyped, IdleType, IdleFit DEF TypeInv
<1> QED
  BY <1>1, <1>3 DEF TypeInv, TypeOK, intake, Present

LEMMA NextTyped == TypeInv /\ [Next]_vars => TypeInv'
<1> SUFFICES ASSUME TypeInv, [Next]_vars PROVE TypeInv'
  OBVIOUS
<1>1. CASE UNCHANGED vars
  BY <1>1 DEF vars, TypeInv, TypeOK, FlightFit, Present
<1> QED
  BY <1>1, BeginTyped, ResumeTyped, AbortTyped, AtOnceTyped DEF Next

LEMMA InitTyped == Init => TypeInv
<1> SUFFICES ASSUME Init PROVE TypeInv
  OBVIOUS
<1>1. \A j \in Jobs : ~Present(j)
  BY DEF Init, Present, NoRow, NoJob
<1>2. /\ job \in [Jobs -> Row] /\ req \in [Handlers -> Flight]
      /\ request \in [Requests -> Request]
  BY NoJobType, IdleType DEF Init, Request
<1>3. estimate \in [Estimates -> Estimate]
  BY WorkOrdersAssumption DEF Init, Estimate
<1>4. TypeOK
  BY <1>1, <1>2, <1>3, WorkOrdersAssumption DEF Init, TypeOK
<1> QED
  BY <1>4, IdleFit DEF TypeInv, Init

LEMMA TypeInvariant == Spec => []TypeInv
  BY InitTyped, NextTyped, PTL DEF Spec

(* Type correctness of the jobs, the requests, the estimates and the       *)
(* handlers on them, however many overlap.                                 *)
THEOREM JobsTypeCorrect == Spec => []TypeOK
<1>1. TypeInv => TypeOK
  BY DEF TypeInv
<1> QED
  BY <1>1, TypeInvariant, PTL

-----------------------------------------------------------------------------
(* Numbers.                                                                *)

AgesDistinct ==
  \A j, k \in Jobs : Present(j) /\ Present(k) /\ job[j].age = job[k].age => j = k

(* n is greater than every number in use. *)
Beyond(n) == \A j \in Jobs : Present(j) => job[j].num < n

(* An attempt that will succeed gives the greatest number.                 *)
InsertsBeyond ==
  \A h \in Handlers : At(h, "insert") /\ NumberFree(req[h].num) => Beyond(req[h].num)

(* Collisions are at most the rows inserted since the handler began, and   *)
(* an attempt about to collide has not counted one of them yet.            *)
Counted(f) ==
  /\ f.tries <= clock - f.since
  /\ f.pc = "insert" /\ ~NumberFree(f.num) => f.tries < clock - f.since

NumbersInv == NumbersGrow /\ AgesDistinct /\ \A h \in Handlers : Counted(req[h])

(* A step that inserts no row and moves no handler to an insert.           *)
Calm ==
  /\ clock' = clock
  /\ \A j \in Jobs : /\ Present(j)' => Present(j) /\ job'[j].age = job[j].age /\ job'[j].num = job[j].num
                     /\ Present(j) => Present(j)' \/ RemoveJob(j)
  /\ \A g \in Handlers : \/ req'[g] = req[g]
                         \/ req'[g].pc # "insert" /\ req'[g].tries <= clock - req'[g].since

LEMMA MovesCalm ==
  ASSUME TypeInv, NEW h \in Handlers, NEW f, Moves(h, f), f.pc # "insert", f.tries <= clock - f.since
  PROVE  Calm
  BY DEF TypeInv, TypeOK, Moves, Becomes, Calm, Present

LEMMA IdleCounted == TypeInv => Idle.pc = "idle" /\ Idle.tries <= clock - Idle.since
  BY DEF Idle, TypeInv, TypeOK

LEMMA OverCalm ==
  ASSUME TypeInv, NEW h \in Handlers, NEW pc, NEW row, NEW f, Writes(h, pc, row, f),
         Over(row, job[req[h].job]), f.pc # "insert", f.tries <= clock - f.since
  PROVE  Calm
<1> DEFINE j == req[h].job
<1>1. /\ j \in Jobs /\ job \in [Jobs -> Row] /\ req \in [Handlers -> Flight] /\ clock' = clock
  BY DEF TypeInv, TypeOK, Flight, Writes
<1>2. CASE ~Present(j)
  <2>1. Moves(h, Idle)
    BY <1>2 DEF Writes, Moves
  <2> QED
    BY <2>1, MovesCalm, IdleCounted
<1>3. CASE Present(j)
  <2>1. job' = [job EXCEPT ![j] = row] /\ req' = [req EXCEPT ![h] = f]
    BY <1>3 DEF Writes, Becomes
  <2> HIDE DEF j
  <2>2. /\ \A k \in Jobs : job'[k] = IF k = j THEN row ELSE job[k]
        /\ \A g \in Handlers : req'[g] = IF g = h THEN f ELSE req[g]
    BY <1>1, <2>1
  <2>3. row.status \notin NoRow /\ row.age = job[j].age /\ row.num = job[j].num
    BY <1>3 DEF Over, Present, j
  <2> QED
    BY <1>1, <1>3, <2>2, <2>3 DEF Calm, Present
<1> QED
  BY <1>2, <1>3

LEMMA IdleOverCalm ==
  ASSUME TypeInv, NEW h \in Handlers, NEW pc, NEW row, Writes(h, pc, row, Idle),
         Over(row, job[req[h].job])
  PROVE  Calm
  BY OverCalm, IdleCounted

(* A step on requests and estimates. *)
LEMMA SourcesCalm ==
  ASSUME TypeInv, NEW h \in Handlers, req' = req \/ req' = [req EXCEPT ![h] = Idle],
         UNCHANGED <<job, clock>>
  PROVE  Calm
  BY IdleCounted DEF Calm, Present, TypeInv, TypeOK

LEMMA BeginCalm == ASSUME TypeInv, NEW h \in Handlers, Begin(h) PROVE Calm
<1>0. TypeOK /\ clock \in Nat
  BY DEF TypeInv, TypeOK
<1>1. ASSUME NEW pc \in Pcs \ {"insert"}, NEW src \in Sources \cup {None}, Moves(h, Allocating(pc, src))
      PROVE  Calm
  <2>1. Allocating(pc, src).pc # "insert" /\ Allocating(pc, src).tries <= clock - Allocating(pc, src).since
    BY <1>0, AllocatingType
  <2> QED
    BY <1>1, <2>1, MovesCalm
<1>2. ASSUME NEW pc \in Pcs \ {"insert"}, NEW src \in Sources, Moves(h, Reading(pc, src)) PROVE Calm
  <2>1. Reading(pc, src).pc # "insert" /\ Reading(pc, src).tries <= clock - Reading(pc, src).since
    BY <1>0, ReadingType
  <2> QED
    BY <1>2, <2>1, MovesCalm
<1>3. ASSUME NEW pc \in Pcs \ {"insert"}, NEW j \in Jobs, NEW f, Moves(h, f),
             f.pc = pc, f.tries = Holding(pc, j).tries, f.since = Holding(pc, j).since
      PROVE  Calm
  <2>1. f.pc # "insert" /\ f.tries <= clock - f.since
    BY <1>0, <1>3, HoldingType
  <2> QED
    BY <1>3, <2>1, MovesCalm
<1>4. CASE CreateJob(h)
  BY <1>1, <1>4 DEF CreateJob, Pcs
<1>5. ASSUME NEW r \in Requests, ConfirmRead(h, r) \/ DeclineRead(h, r) PROVE Calm
  BY <1>1, <1>2, <1>5 DEF ConfirmRead, DeclineRead, Pcs, Sources
<1>6. ASSUME NEW e \in Estimates, EditEstimateRead(h, e) \/ SendRead(h, e) \/ ConvertRead(h, e) PROVE Calm
  BY <1>1, <1>2, <1>6 DEF EditEstimateRead, SendRead, ConvertRead, Pcs, Sources
<1>7. ASSUME NEW j \in Jobs, CompleteRead(h, j) \/ PdfRead(h, j) \/ EditRead(h, j) PROVE Calm
  <2>1. PICK pc \in {"checkpoints", "pdf", "edit"} : Moves(h, Holding(pc, j))
    BY <1>7 DEF CompleteRead, PdfRead, EditRead
  <2>2. pc \in Pcs \ {"insert"} /\ Holding(pc, j).pc = pc
    BY <1>0, HoldingType DEF Pcs
  <2> QED
    BY <1>3, <2>1, <2>2
<1>8. ASSUME NEW j \in Jobs, NEW p, Moves(h, [Holding("mark", j) EXCEPT !.put = p]) PROVE Calm
  <2>1. Holding("mark", j) \in Flight /\ Holding("mark", j).pc = "mark"
    BY <1>0, HoldingType DEF Pcs
  <2>2. "mark" \in Pcs \ {"insert"}
    BY DEF Pcs
  <2> QED
    BY <1>3, <1>8, <2>1, <2>2 DEF Flight
<1>9. ASSUME NEW j \in Jobs, NEW to \in JobStatus, StatusRead(h, j, to) PROVE Calm
  <2>1. Holding("setStatus", j) \in Flight /\ Holding("setStatus", j).pc = "setStatus"
    BY <1>0, HoldingType DEF Pcs
  <2>2. "setStatus" \in Pcs \ {"insert"}
    BY DEF Pcs
  <2> QED
    BY <1>3, <1>9, <2>1, <2>2 DEF Flight, StatusRead
<1>10. ASSUME NEW j \in Jobs, NEW c, PhotoRead(h, j, c) PROVE Calm
  <2>1. Holding("photo", j) \in Flight /\ Holding("photo", j).pc = "photo"
    BY <1>0, HoldingType DEF Pcs
  <2>2. "photo" \in Pcs \ {"insert"}
    BY DEF Pcs
  <2> QED
    BY <1>3, <1>10, <2>1, <2>2 DEF Flight, PhotoRead
<1>11. ASSUME NEW j \in Jobs, NEW a, SyncRead(h, j, a) PROVE Calm
  <2>1. Holding("sync", j) \in Flight /\ Holding("sync", j).pc = "sync"
    BY <1>0, HoldingType DEF Pcs
  <2>2. "sync" \in Pcs \ {"insert"}
    BY DEF Pcs
  <2> QED
    BY <1>3, <1>11, <2>1, <2>2 DEF Flight, SyncRead
<1> QED
  BY <1>4, <1>5, <1>6, <1>7, <1>8, <1>9, <1>10, <1>11 DEF Begin, OnMyWayRead, SignatureRead

LEMMA JobWritesCalm ==
  ASSUME TypeInv, NEW h \in Handlers, Counted(req[h]),
         \/ StatusWrite(h) \/ CheckpointsRead(h) \/ CompleteWrite(h) \/ ReportWrite(h)
         \/ PdfWrite(h) \/ PhotoWrite(h) \/ MarkWrite(h) \/ EditWrite(h) \/ SyncWrite(h)
  PROVE  Calm
<1> DEFINE old == job[req[h].job]
           snap == req[h].snap
           f(pc) == [req[h] EXCEPT !.pc = pc]
<1>1. req[h] \in Flight /\ FlightFit(req[h]) /\ old \in Row /\ snap \in Row /\ req[h].amt \in Nat
  BY WorkOrdersAssumption DEF TypeInv, TypeOK, Flight
<1>2. \A pc \in {"complete", "report"} : f(pc).pc # "insert" /\ f(pc).tries <= clock - f(pc).since
  BY <1>1 DEF Counted, Flight
<1>3. CASE StatusWrite(h)
  BY <1>1, <1>3, StatusRow, IdleOverCalm DEF StatusWrite
<1>4. CASE CheckpointsRead(h)
  <2>1. CASE Moves(h, Idle)
    BY <2>1, MovesCalm, IdleCounted
  <2>2. CASE Moves(h, f("complete"))
    BY <1>2, <2>2, MovesCalm
  <2> QED
    BY <1>4, <2>1, <2>2 DEF CheckpointsRead
<1>5. CASE CompleteWrite(h)
  <2> DEFINE row == [old EXCEPT !.status = "COMPLETED", !.ended = TRUE, !.flow = TRUE]
  <2>1. Over(row, old)
    BY <1>1, CompleteRow
  <2>2. Writes(h, "complete", row, f("report"))
    BY <1>5 DEF CompleteWrite
  <2> QED
    BY <1>2, <2>1, <2>2, OverCalm
<1>6. CASE ReportWrite(h)
  BY <1>1, <1>6, PdfRow, IdleOverCalm, MovesCalm, IdleCounted DEF ReportWrite
<1>7. CASE PdfWrite(h)
  BY <1>1, <1>7, PdfRow, IdleOverCalm DEF PdfWrite
<1>8. CASE PhotoWrite(h)
  <2>1. req[h].put \in Checkpoints \cup {None}
    BY <1>1, <1>8 DEF PhotoWrite, Writes, At, FlightFit
  <2> QED
    BY <1>1, <1>8, <2>1, PhotoRow, IdleOverCalm DEF PhotoWrite
<1>9. CASE MarkWrite(h)
  <2>1. req[h].put \in Marks
    BY <1>1, <1>9 DEF MarkWrite, Writes, At, FlightFit
  <2> QED
    BY <1>1, <1>9, <2>1, MarkRow, IdleOverCalm DEF MarkWrite
<1>10. CASE EditWrite(h)
  <2>1. ASSUME NEW c \in Amounts, Writes(h, "edit", Costed(old, snap, c), Idle) PROVE Calm
    BY <1>1, <2>1, CostedRow, IdleOverCalm, WorkOrdersAssumption
  <2>2. ASSUME NEW needs \in {{}, Checkpoints}, Writes(h, "edit", [old EXCEPT !.needs = needs], Idle)
        PROVE  Calm
    BY <1>1, <2>2, NeedsRow, IdleOverCalm
  <2> QED
    BY <1>10, <2>1, <2>2 DEF EditWrite
<1>11. CASE SyncWrite(h)
  BY <1>1, <1>11, SyncRow, IdleOverCalm DEF SyncWrite
<1> QED
  BY <1>3, <1>4, <1>5, <1>6, <1>7, <1>8, <1>9, <1>10, <1>11

LEMMA ResumeCalm ==
  ASSUME TypeInv, NEW h \in Handlers, Counted(req[h]), Resume(h)
  PROVE  Calm \/ ReadLast(h) \/ \E j \in Jobs : InsertJob(h, j)
<1>1. req[h] \in Flight /\ clock \in Nat
  BY DEF TypeInv, TypeOK
<1>2. CASE InsertFails(h)
  <2>1. CASE Moves(h, Idle)
    BY <2>1, MovesCalm, IdleCounted
  <2>2. CASE ~NumberFree(req[h].num) /\ Moves(h, Retry(h))
    <3>1. Retry(h).pc # "insert" /\ Retry(h).tries <= clock - Retry(h).since
      BY <1>1, <1>2, <2>2, RetryType DEF Counted, InsertFails, At, Flight
    <3> QED
      BY <2>2, <3>1, MovesCalm
  <2> QED
    BY <1>2, <2>1, <2>2 DEF InsertFails
<1>3. CASE FindCustomer(h) \/ AddCustomer(h)
  <2> DEFINE f(pc) == [req[h] EXCEPT !.pc = pc]
  <2>1. \A pc \in {"readLast", "addCustomer"} : f(pc).pc # "insert" /\ f(pc).tries <= clock - f(pc).since
    BY <1>1 DEF Counted, Flight
  <2>2. CASE Moves(h, f("readLast")) \/ Moves(h, f("addCustomer"))
    BY <2>1, <2>2, MovesCalm
  <2>3. CASE AddCustomer(h)
    <3>1. req' = [req EXCEPT ![h] = f("readLast")] /\ UNCHANGED <<job, clock>> /\ req \in [Handlers -> Flight]
      BY <2>3 DEF AddCustomer, Becomes, TypeInv, TypeOK
    <3> HIDE DEF f
    <3> QED
      BY <2>1, <3>1 DEF Calm, Present
  <2> QED
    BY <1>3, <2>2, <2>3 DEF FindCustomer
<1>4. CASE DeclineWrite(h) \/ EditEstimateWrite(h) \/ SendWrite(h)
  BY <1>4, SourcesCalm DEF DeclineWrite, EditEstimateWrite, SendWrite, WritesEstimate, Becomes
<1> QED
  BY <1>2, <1>3, <1>4, JobWritesCalm DEF Resume

LEMMA RestCalm ==
  ASSUME TypeInv, (\E h \in Handlers : Abort(h)) \/ AtOnce \/ UNCHANGED vars
  PROVE  Calm
<1>1. ASSUME NEW h \in Handlers, Abort(h) PROVE Calm
  BY <1>1, SourcesCalm DEF Abort, Becomes, intake
<1>2. ASSUME NEW j \in Jobs, RemoveJob(j) PROVE Calm
  <2>1. [NoJob EXCEPT !.status = "DELETED"].status = "DELETED"
    BY DEF NoJob
  <2>2. /\ \A k \in Jobs \ {j} : job'[k] = job[k]
        /\ job'[j].status = "DELETED" /\ UNCHANGED <<clock, req>>
    BY <1>2, <2>1 DEF RemoveJob, TypeInv, TypeOK
  <2> QED
    BY <1>2, <2>2 DEF Calm, Present, NoRow
<1>3. CASE UNCHANGED <<job, clock, req>>
  BY <1>3 DEF Calm, Present
<1> QED
  BY <1>1, <1>2, <1>3 DEF AtOnce, CreateRequest, CreateEstimate, RemoveEstimate, vars

LEMMA NextCalm ==
  ASSUME TypeInv, NumbersInv, [Next]_vars
  PROVE  \/ Calm
         \/ \E h \in Handlers : ReadLast(h) \/ \E j \in Jobs : InsertJob(h, j)
  BY BeginCalm, ResumeCalm, RestCalm DEF Next, NumbersInv

LEMMA NextIsBeyond ==
  ASSUME TypeInv, NumbersInv
  PROVE  NextNumber \in Nat /\ NextNumber >= 1 /\ Beyond(NextNumber) /\ NumberFree(NextNumber)
<1>1. \A j \in Jobs : job[j].num \in Nat /\ job[j].age \in Nat
  BY DEF TypeInv, TypeOK, Row
<1>2. TypeOK /\ NumbersGrow /\ AgesDistinct
  BY DEF TypeInv, NumbersInv
<1>3. NextNumber \in Nat /\ NextNumber >= 1 /\ Beyond(NextNumber)
  <2>1. CASE NextNumber = 1 /\ \A j \in Jobs : ~Present(j)
    BY <2>1 DEF Beyond
  <2>2. ASSUME NEW k \in Jobs, Newest(k), NextNumber = job[k].num + 1 PROVE <1>3!:
    <3>1. \A j \in Jobs : Present(j) => j = k \/ job[j].num < job[k].num
      BY <1>1, <1>2, <2>2 DEF Newest, AgesDistinct, NumbersGrow
    <3> QED
      BY <1>1, <2>2, <3>1 DEF Beyond
  <2> QED
    BY <1>2, <2>1, <2>2, NextNumberIs
<1>4. NumberFree(NextNumber)
  BY <1>1, <1>3 DEF Beyond, NumberFree
<1> QED
  BY <1>3, <1>4

LEMMA CalmNumbers ==
  ASSUME TypeInv, TypeInv', NumbersInv, Calm
  PROVE  NumbersInv'
<1>1. NumbersGrow' /\ AgesDistinct'
  BY DEF NumbersInv, NumbersGrow, AgesDistinct, Calm
<1>2. ASSUME NEW g \in Handlers PROVE Counted(req[g])'
  BY <1>2 DEF NumbersInv, Counted, Calm, NumberFree
<1> QED
  BY <1>1, <1>2 DEF NumbersInv

LEMMA ReadLastNumbers ==
  ASSUME TypeInv, NumbersInv, NEW h \in Handlers, ReadLast(h)
  PROVE  /\ NumbersInv' /\ UNCHANGED <<job, clock>> /\ \A g \in Handlers \ {h} : req'[g] = req[g]
         /\ req'[h].pc = "insert" /\ req'[h].num = NextNumber
<1>1. /\ UNCHANGED <<job, clock>> /\ req \in [Handlers -> Flight]
      /\ req' = [req EXCEPT ![h] = [req[h] EXCEPT !.pc = "insert", !.num = NextNumber]]
  BY DEF TypeInv, TypeOK, ReadLast, Moves, Becomes
<1>2. /\ req'[h].pc = "insert" /\ req'[h].num = NextNumber
      /\ req'[h].tries = req[h].tries /\ req'[h].since = req[h].since
      /\ \A g \in Handlers \ {h} : req'[g] = req[g]
  BY <1>1 DEF Flight
<1>3. NumbersGrow' /\ AgesDistinct'
  BY <1>1 DEF NumbersInv, NumbersGrow, AgesDistinct, Present
<1>4. \A n : NumberFree(n)' <=> NumberFree(n)
  BY <1>1 DEF NumberFree, Present
<1>5. \A g \in Handlers : Counted(req[g])'
  BY <1>1, <1>2, <1>4, NextIsBeyond DEF NumbersInv, Counted
<1> QED
  BY <1>1, <1>2, <1>3, <1>5 DEF NumbersInv

LEMMA InsertNumbers ==
  ASSUME TypeInv, NumbersInv, NEW h \in Handlers, NEW j \in Jobs, InsertJob(h, j), Beyond(req[h].num)
  PROVE  /\ NumbersInv'
         /\ job'[j].num = req[h].num /\ Present(j)'
         /\ \A k \in Jobs \ {j} : job'[k] = job[k]
         /\ ~Present(j) /\ req' = [req EXCEPT ![h] = Idle]
<1>1. PICK row \in Row :
        /\ job' = [job EXCEPT ![j] = row] /\ job[j].status = "ABSENT"
        /\ row.status = "SCHEDULED" /\ row.age = clock + 1 /\ row.num = req[h].num
  BY InsertDoes
<1>2. /\ job \in [Jobs -> Row] /\ clock \in Nat /\ clock' = clock + 1 /\ req' = [req EXCEPT ![h] = Idle]
      /\ req \in [Handlers -> Flight] /\ req[h].num \in Nat
  BY DEF TypeInv, TypeOK, InsertJob, Becomes, Flight
<1>3. /\ job'[j].age = clock + 1 /\ job'[j].num = req[h].num /\ Present(j)' /\ ~Present(j)
      /\ \A k \in Jobs \ {j} : job'[k] = job[k] /\ (Present(k)' <=> Present(k))
  BY <1>1, <1>2 DEF Present, NoRow
<1>4. \A k \in Jobs : Present(k) => job[k].age \in 1..clock /\ job[k].num < req[h].num
  BY DEF TypeInv, TypeOK, Beyond
<1>5. \A k \in Jobs : job[k].num \in Nat /\ job[k].age \in Nat
  BY <1>2 DEF Row
<1>6. AgesDistinct'
  BY <1>2, <1>3, <1>4, <1>5 DEF NumbersInv, AgesDistinct
<1>7. NumbersGrow'
  BY <1>2, <1>3, <1>4, <1>5 DEF NumbersInv, NumbersGrow
<1>8. ASSUME NEW g \in Handlers PROVE Counted(req[g])'
  <2>1. CASE g = h
    BY <1>2, <2>1, IdleCounted DEF Counted, Idle
  <2>2. CASE g # h
    <3>1. req'[g] = req[g] /\ req[g].tries \in Nat /\ req[g].since \in Nat /\ req[g].tries <= clock - req[g].since
      BY <1>2, <2>2 DEF NumbersInv, Counted, Flight
    <3> QED
      BY <1>2, <3>1 DEF Counted
  <2> QED
    BY <2>1, <2>2
<1> QED
  BY <1>2, <1>3, <1>6, <1>7, <1>8 DEF NumbersInv

(* Every step keeps the numbers sound while the attempts that will succeed *)
(* give the greatest number.                                               *)
LEMMA NumbersStep ==
  ASSUME TypeInv, TypeInv', NumbersInv, InsertsBeyond, [Next]_vars
  PROVE  NumbersInv'
<1>1. ASSUME NEW h \in Handlers, NEW j \in Jobs, InsertJob(h, j) PROVE NumbersInv'
  <2>1. Beyond(req[h].num)
    BY <1>1 DEF InsertsBeyond, InsertJob
  <2> QED
    BY <1>1, <2>1, InsertNumbers
<1> QED
  BY <1>1, NextCalm, CalmNumbers, ReadLastNumbers

(* Overlapping handlers.  While no job is deleted the numbers in use have  *)
(* no gap, below the one of a row or below the one a handler is about to   *)
(* insert: a number that is free when its turn comes is the greatest.      *)
NoGap ==
  /\ \A j \in Jobs : Present(j) => job[j].num >= 1 /\ \A n \in 1..job[j].num : ~NumberFree(n)
  /\ \A h \in Handlers :
       At(h, "insert") => req[h].num >= 1 /\ \A n \in 1..(req[h].num - 1) : ~NumberFree(n)

LEMMA NoGapBeyond ==
  ASSUME TypeInv, NoGap PROVE InsertsBeyond
<1> SUFFICES ASSUME NEW h \in Handlers, At(h, "insert"), NumberFree(req[h].num),
                    NEW j \in Jobs, Present(j)
             PROVE  job[j].num < req[h].num
  BY DEF InsertsBeyond, Beyond
<1>1. job[j].num \in Nat /\ req[h].num \in Nat /\ req[h].num >= 1
  BY DEF TypeInv, TypeOK, Row, Flight, NoGap
<1>2. ~(req[h].num \in 1..job[j].num)
  BY DEF NoGap
<1> QED
  BY <1>1, <1>2

(* A step after which every number taken still is keeps the rest of NoGap. *)
LEMMA NoGapStep ==
  ASSUME TypeInv, TypeInv', NumbersInv, NoGap, [Next]_vars, \A j \in Jobs : ~RemoveJob(j)
  PROVE  NoGap'
<1>0. /\ req' \in [Handlers -> Flight] /\ req \in [Handlers -> Flight]
      /\ \A j \in Jobs : job[j].num \in Nat /\ job[j].num \in Int
  BY DEF TypeInv, TypeOK, Row
<1>1. CASE Calm
  <2>1. \A j \in Jobs : /\ Present(j)' <=> Present(j)
                        /\ Present(j) => job'[j].num = job[j].num
    BY <1>1 DEF Calm
  <2>2. \A n : NumberFree(n)' <=> NumberFree(n)
    BY <2>1 DEF NumberFree
  <2>3. \A h \in Handlers : At(h, "insert")' => req'[h] = req[h]
    BY <1>1 DEF Calm, At
  <2> QED
    BY <2>1, <2>2, <2>3 DEF NoGap, At
<1>2. ASSUME NEW h \in Handlers, ReadLast(h) PROVE NoGap'
  <2>1. /\ UNCHANGED <<job, clock>> /\ \A g \in Handlers \ {h} : req'[g] = req[g]
        /\ req'[h].num = NextNumber
    BY <1>2, ReadLastNumbers
  <2>2. \A n : NumberFree(n)' <=> NumberFree(n)
    BY <2>1 DEF NumberFree, Present
  <2>3. NextNumber \in Nat /\ NextNumber >= 1
    BY NextIsBeyond
  <2>4. \A n \in 1..(NextNumber - 1) : ~NumberFree(n)
    BY <1>0, NextNumberIs DEF TypeInv, NoGap, Newest
  <2> QED
    BY <2>1, <2>2, <2>3, <2>4 DEF NoGap, At, Present
<1>3. ASSUME NEW h \in Handlers, NEW j \in Jobs, InsertJob(h, j) PROVE NoGap'
  <2> DEFINE m == req[h].num
  <2>1. m \in Nat /\ m >= 1 /\ \A n \in 1..(m - 1) : ~NumberFree(n)
    BY <1>0, <1>3 DEF InsertJob, NoGap, Flight
  <2>2. Beyond(m)
    BY <1>3, NoGapBeyond DEF InsertsBeyond, InsertJob
  <2>3. /\ job'[j].num = m /\ Present(j)' /\ \A k \in Jobs \ {j} : job'[k] = job[k]
        /\ ~Present(j) /\ req' = [req EXCEPT ![h] = Idle]
    BY <1>3, <2>2, InsertNumbers
  <2>4. \A k \in Jobs \ {j} : Present(k)' <=> Present(k)
    BY <2>3 DEF Present
  <2>5. \A n : NumberFree(n)' <=> NumberFree(n) /\ n # m
    BY <2>3, <2>4 DEF NumberFree
  <2>6. \A g \in Handlers : At(g, "insert")' => req'[g] = req[g]
    BY <1>0, <2>3 DEF At, Idle
  <2> HIDE DEF m
  <2>7. \A n \in 1..m : ~NumberFree(n)'
    BY <2>1, <2>5
  <2>8. \A k \in Jobs : Present(k)' => job'[k].num >= 1 /\ \A n \in 1..job'[k].num : ~NumberFree(n)'
    BY <1>0, <2>1, <2>3, <2>4, <2>5, <2>7 DEF NoGap
  <2>9. \A g \in Handlers :
          At(g, "insert")' => req'[g].num >= 1 /\ \A n \in 1..(req'[g].num - 1) : ~NumberFree(n)'
    BY <2>5, <2>6 DEF NoGap, At
  <2> QED
    BY <2>8, <2>9 DEF NoGap
<1> QED
  BY <1>1, <1>2, <1>3, NextCalm

LEMMA InitNumbers == Init => NumbersInv /\ NoGap
<1> SUFFICES ASSUME Init PROVE NumbersInv /\ NoGap
  OBVIOUS
<1>1. \A j \in Jobs : ~Present(j)
  BY DEF Init, Present, NoRow, NoJob
<1>2. \A h \in Handlers : req[h].pc = "idle" /\ req[h].tries = 0 /\ req[h].since = 0 /\ clock = 0
  BY DEF Init, Idle
<1>3. \A h \in Handlers : Counted(req[h])
  BY <1>2 DEF Counted
<1> QED
  BY <1>1, <1>2, <1>3 DEF NumbersInv, NumbersGrow, AgesDistinct, NoGap, At

(* While no job is deleted, and however creates, confirms and conversions  *)
(* overlap, die or retry, a newer job has a greater number and a handler   *)
(* has collided only where others have inserted rows since it began:       *)
(* five collisions of one need five other jobs.                            *)
THEOREM NumbersStaySound ==
  ASSUME "removeJob" \notin Ops
  PROVE  Spec => [](NumbersGrow /\ CollisionsAccounted)
<1>1. TypeInv /\ TypeInv' /\ NumbersInv /\ NoGap /\ [Next]_vars => NumbersInv' /\ NoGap'
  BY NumbersStep, NoGapBeyond, NoGapStep DEF RemoveJob
<1>2. NumbersInv => NumbersGrow /\ CollisionsAccounted
  BY DEF NumbersInv, Counted, CollisionsAccounted
<1> QED
  BY <1>1, <1>2, InitNumbers, TypeInvariant, PTL DEF Spec

-----------------------------------------------------------------------------
(* One handler at a time.  What it has read before an await then still     *)
(* stands after it, but for what the handlers of one statement have        *)
(* created or removed meanwhile.                                           *)

OthersIdle(h) == \A g \in Handlers \ {h} : At(g, "idle")

SerialNext ==
  \/ \E h \in Handlers : OthersIdle(h) /\ (Begin(h) \/ Resume(h) \/ Abort(h))
  \/ AtOnce

(* The calls before which a handler has read its job.                      *)
Holds == {"setStatus", "checkpoints", "complete", "pdf", "edit", "sync", "photo", "mark"}

(* A job that is still there is as its handler has read it, and fit for    *)
(* what the handler is about to make of it.                                *)
HeldFit(f) ==
  /\ f.pc \in Holds /\ Present(f.job) => job[f.job] = f.snap
  /\ f.pc = "setStatus" => f.to \in Allowed(f.snap.status)
  /\ f.pc \in {"checkpoints", "complete"} => f.snap.status \notin Final
  /\ f.pc = "complete" => f.snap.needs \subseteq f.snap.photos

(* So is what a job is to be made from, and the estimate to be edited.     *)
SourceFit(f) ==
  /\ f.pc \in {"findCustomer", "addCustomer", "readLast", "insert", "decline"} /\ f.src \in Requests =>
       request[f.src].status = "PENDING"
  /\ f.pc \in {"readLast", "insert"} /\ f.src \in Estimates =>
       estimate[f.src].job = None /\ estimate[f.src].status # "ABSENT"
  /\ f.pc \in {"editEstimate", "sendEstimate"} => estimate[f.src].status # "CONVERTED"

HandlersFit == \A h \in Handlers : HeldFit(req[h]) /\ SourceFit(req[h])

(* A job and what it was made from agree. *)
SourceLinked ==
  \A j \in Jobs : Present(j) =>
    /\ job[j].source \in Requests => request[job[j].source].status = "CONFIRMED"
    /\ job[j].source \in Estimates =>
         estimate[job[j].source].job = j /\ estimate[job[j].source].status # "ABSENT"

RowsInv == SourceLinked /\ OneJobPerSource /\ ProfitInStep

(* The number about to be inserted is the greatest, deletes or not.        *)
BeyondInv == \A h \in Handlers : At(h, "insert") => Beyond(req[h].num)

SerialInv == HandlersFit /\ RowsInv /\ NumbersInv /\ BeyondInv

(* What no step does, one handler at a time.                               *)
Proper == FinalStays /\ CompletionChecked

LEMMA IdleFits == HeldFit(Idle) /\ SourceFit(Idle)
  BY DEF HeldFit, SourceFit, Idle, Holds

LEMMA BeyondStep ==
  ASSUME TypeInv, NumbersInv, BeyondInv, SerialNext
  PROVE  BeyondInv'
<1>1. ASSUME Calm PROVE BeyondInv'
  BY <1>1 DEF BeyondInv, Beyond, Calm, At
<1>2. ASSUME NEW h \in Handlers, OthersIdle(h), ReadLast(h) PROVE BeyondInv'
  <2>1. /\ UNCHANGED job /\ \A g \in Handlers \ {h} : req'[g] = req[g]
        /\ req'[h].num = NextNumber
    BY <1>2, ReadLastNumbers
  <2>2. Beyond(NextNumber)
    BY NextIsBeyond
  <2> QED
    BY <1>2, <2>1, <2>2 DEF BeyondInv, Beyond, At, OthersIdle, Present
<1>3. ASSUME NEW h \in Handlers, OthersIdle(h), NEW j \in Jobs, InsertJob(h, j) PROVE BeyondInv'
  <2>1. req' = [req EXCEPT ![h] = Idle] /\ req \in [Handlers -> Flight]
    BY <1>3 DEF InsertJob, Becomes, TypeInv, TypeOK
  <2> QED
    BY <1>3, <2>1 DEF BeyondInv, At, OthersIdle, Idle
<1> QED
  BY <1>1, <1>2, <1>3, BeginCalm, ResumeCalm, RestCalm DEF SerialNext, NumbersInv

(* A step of one handler that writes no table. *)
LEMMA MovesFit ==
  ASSUME TypeInv, HandlersFit, RowsInv, NEW h \in Handlers, NEW f, Moves(h, f), HeldFit(f), SourceFit(f)
  PROVE  HandlersFit' /\ RowsInv' /\ Proper
<1>1. /\ UNCHANGED <<job, request, estimate>>
      /\ \A g \in Handlers : req'[g] = IF g = h THEN f ELSE req[g]
  BY DEF Moves, Becomes, intake, TypeInv, TypeOK
<1>2. HandlersFit'
  BY <1>1 DEF HandlersFit, HeldFit, SourceFit, Present
<1>3. RowsInv'
  BY <1>1 DEF RowsInv, SourceLinked, OneJobPerSource, ProfitInStep, Present
<1>4. Proper
  BY <1>1 DEF Proper, FinalStays, CompletionChecked
<1> QED
  BY <1>2, <1>3, <1>4

(* A write of its job by the one handler that is not idle. *)
LEMMA OverFit ==
  ASSUME TypeInv, HandlersFit, RowsInv, NEW h \in Handlers, OthersIdle(h),
         NEW pc \in Holds \cup {"report"}, NEW row, NEW f, Writes(h, pc, row, f),
         Over(row, job[req[h].job]), f.pc \in {"idle", "report"},
         Present(req[h].job) =>
           /\ row.profit = row.revenue - row.cost
           /\ job[req[h].job].status \in Final => row.status = job[req[h].job].status
           /\ row.flow /\ ~job[req[h].job].flow => row.needs \subseteq row.photos
  PROVE  HandlersFit' /\ RowsInv' /\ Proper
<1> DEFINE j == req[h].job
<1>1. /\ j \in Jobs /\ job \in [Jobs -> Row] /\ req \in [Handlers -> Flight]
      /\ UNCHANGED <<request, estimate>>
  BY DEF TypeInv, TypeOK, Flight, Writes, intake
<1>2. CASE ~Present(j)
  <2>1. Moves(h, Idle)
    BY <1>2 DEF Writes, Moves
  <2> QED
    BY <2>1, MovesFit, IdleFits
<1>3. CASE Present(j)
  <2>1. job' = [job EXCEPT ![j] = row] /\ req' = [req EXCEPT ![h] = f]
    BY <1>3 DEF Writes, Becomes
  <2>2. /\ row.source = job[j].source /\ row.status \notin NoRow
        /\ row.profit = row.revenue - row.cost
        /\ job[j].status \in Final => row.status = job[j].status
        /\ row.flow /\ ~job[j].flow => row.needs \subseteq row.photos
    BY <1>3 DEF Over, Present
  <2> HIDE DEF j
  <2>3. /\ \A k \in Jobs : job'[k] = IF k = j THEN row ELSE job[k]
        /\ \A g \in Handlers : req'[g] = IF g = h THEN f ELSE req[g]
    BY <1>1, <2>1
  <2>4. \A k \in Jobs : (Present(k)' <=> Present(k)) /\ job'[k].source = job[k].source
    BY <1>3, <2>2, <2>3 DEF Present
  <2>5. HandlersFit'
    BY <2>3 DEF HandlersFit, HeldFit, SourceFit, OthersIdle, At, Holds
  <2>6. RowsInv'
    BY <1>1, <2>2, <2>3, <2>4 DEF RowsInv, SourceLinked, OneJobPerSource, ProfitInStep
  <2>7. Proper
    BY <1>1, <2>2, <2>3 DEF Proper, FinalStays, CompletionChecked
  <2> QED
    BY <2>5, <2>6, <2>7
<1> QED
  BY <1>2, <1>3

LEMMA BeginFit ==
  ASSUME TypeInv, HandlersFit, RowsInv, NEW h \in Handlers, Begin(h)
  PROVE  HandlersFit' /\ RowsInv' /\ Proper
<1> DEFINE Goal == HandlersFit' /\ RowsInv' /\ Proper
<1>0. TypeOK
  BY DEF TypeInv
<1>1. ASSUME NEW pc \in {"findCustomer", "readLast"}, NEW src \in Sources \cup {None}, Moves(h, Allocating(pc, src)),
             src \in Requests => request[src].status = "PENDING",
             src \in Estimates => Convertible(src)
      PROVE  Goal
  <2>1. Allocating(pc, src).pc = pc /\ Allocating(pc, src).src = src
    BY <1>0, AllocatingType DEF Pcs
  <2>2. HeldFit(Allocating(pc, src)) /\ SourceFit(Allocating(pc, src))
    BY <1>1, <2>1 DEF HeldFit, SourceFit, Holds, Convertible, HasEstimate
  <2> QED
    BY <1>1, <2>2, MovesFit
<1>2. ASSUME NEW pc \in {"decline", "editEstimate", "sendEstimate"}, NEW src \in Sources, Moves(h, Reading(pc, src)),
             pc = "decline" /\ src \in Requests => request[src].status = "PENDING",
             pc # "decline" => estimate[src].status # "CONVERTED"
      PROVE  Goal
  <2>1. Reading(pc, src).pc = pc /\ Reading(pc, src).src = src
    BY ReadingType DEF Pcs
  <2>2. HeldFit(Reading(pc, src)) /\ SourceFit(Reading(pc, src))
    BY <1>2, <2>1 DEF HeldFit, SourceFit, Holds
  <2> QED
    BY <1>2, <2>2, MovesFit
<1>3. ASSUME NEW pc \in Holds \ {"complete", "setStatus"}, NEW j \in Jobs, NEW f, Moves(h, f),
             pc = "checkpoints" => job[j].status \notin Final,
             f.pc = pc, f.job = j, f.snap = job[j]
      PROVE  Goal
  <2>1. HeldFit(f) /\ SourceFit(f)
    BY <1>3 DEF HeldFit, SourceFit, Holds
  <2> QED
    BY <1>3, <2>1, MovesFit
<1>4. CASE CreateJob(h)
  BY <1>1, <1>4, WorkOrdersAssumption DEF CreateJob, Sources
<1>5. ASSUME NEW r \in Requests, ConfirmRead(h, r) \/ DeclineRead(h, r) PROVE Goal
  BY <1>1, <1>2, <1>5, WorkOrdersAssumption DEF ConfirmRead, DeclineRead, Pending, Sources
<1>6. ASSUME NEW e \in Estimates, EditEstimateRead(h, e) \/ SendRead(h, e) PROVE Goal
  BY <1>2, <1>6 DEF EditEstimateRead, SendRead, Editable, Sources
<1>7. ASSUME NEW e \in Estimates, ConvertRead(h, e) PROVE Goal
  BY <1>1, <1>7, WorkOrdersAssumption DEF ConvertRead, Sources
<1>8. ASSUME NEW j \in Jobs, CompleteRead(h, j) \/ PdfRead(h, j) \/ EditRead(h, j) PROVE Goal
  <2>1. PICK pc \in {"checkpoints", "pdf", "edit"} :
          Moves(h, Holding(pc, j)) /\ (pc = "checkpoints" => job[j].status \notin Final)
    BY <1>8 DEF CompleteRead, PdfRead, EditRead
  <2>2. Holding(pc, j).pc = pc /\ Holding(pc, j).job = j /\ Holding(pc, j).snap = job[j]
    BY <1>0, HoldingType DEF Pcs
  <2> QED
    BY <1>3, <2>1, <2>2 DEF Holds
<1>9. ASSUME NEW j \in Jobs, NEW p, Moves(h, [Holding("mark", j) EXCEPT !.put = p]) PROVE Goal
  <2>1. /\ Holding("mark", j) \in Flight /\ Holding("mark", j).pc = "mark"
        /\ Holding("mark", j).job = j /\ Holding("mark", j).snap = job[j]
    BY <1>0, HoldingType DEF Pcs
  <2>2. "mark" \in Holds \ {"complete", "setStatus"} /\ "mark" # "checkpoints"
    BY DEF Holds
  <2> QED
    BY <1>3, <1>9, <2>1, <2>2 DEF Flight
<1>10. ASSUME NEW j \in Jobs, NEW c, PhotoRead(h, j, c) PROVE Goal
  <2>1. /\ Holding("photo", j) \in Flight /\ Holding("photo", j).pc = "photo"
        /\ Holding("photo", j).job = j /\ Holding("photo", j).snap = job[j]
    BY <1>0, HoldingType DEF Pcs
  <2>2. "photo" \in Holds \ {"complete", "setStatus"} /\ "photo" # "checkpoints"
    BY DEF Holds
  <2> QED
    BY <1>3, <1>10, <2>1, <2>2 DEF Flight, PhotoRead
<1>11. ASSUME NEW j \in Jobs, NEW a, SyncRead(h, j, a) PROVE Goal
  <2>1. /\ Holding("sync", j) \in Flight /\ Holding("sync", j).pc = "sync"
        /\ Holding("sync", j).job = j /\ Holding("sync", j).snap = job[j]
    BY <1>0, HoldingType DEF Pcs
  <2>2. "sync" \in Holds \ {"complete", "setStatus"} /\ "sync" # "checkpoints"
    BY DEF Holds
  <2> QED
    BY <1>3, <1>11, <2>1, <2>2 DEF Flight, SyncRead
<1>12. ASSUME NEW j \in Jobs, NEW to \in JobStatus, StatusRead(h, j, to) PROVE Goal
  <2> DEFINE f == [Holding("setStatus", j) EXCEPT !.to = to]
  <2>1. /\ Holding("setStatus", j) \in Flight /\ Holding("setStatus", j).pc = "setStatus"
        /\ Holding("setStatus", j).job = j /\ Holding("setStatus", j).snap = job[j]
    BY <1>0, HoldingType DEF Pcs
  <2>2. f.pc = "setStatus" /\ f.job = j /\ f.snap = job[j] /\ f.to = to
    BY <2>1 DEF Flight
  <2>3. Moves(h, f) /\ to \in Allowed(job[j].status)
    BY <1>12 DEF StatusRead
  <2> HIDE DEF f
  <2>4. HeldFit(f) /\ SourceFit(f)
    BY <2>2, <2>3 DEF HeldFit, SourceFit, Holds
  <2> QED
    BY <2>3, <2>4, MovesFit
<1> QED
  BY <1>4, <1>5, <1>6, <1>7, <1>8, <1>9, <1>10, <1>11, <1>12 DEF Begin, OnMyWayRead, SignatureRead

(* A write that changes neither the status nor the money of its job.       *)
LEMMA PlainOverFit ==
  ASSUME TypeInv, HandlersFit, RowsInv, NEW h \in Handlers, OthersIdle(h),
         NEW pc \in Holds \cup {"report"}, NEW row, Writes(h, pc, row, Idle),
         Over(row, job[req[h].job]), SameMoney(row, job[req[h].job]), SameState(row, job[req[h].job])
  PROVE  HandlersFit' /\ RowsInv' /\ Proper
<1> DEFINE old == job[req[h].job]
<1>1. req[h].job \in Jobs
  BY DEF TypeInv, TypeOK, Flight
<1>2. old.profit = old.revenue - old.cost
  BY <1>1 DEF RowsInv, ProfitInStep
<1>3. /\ row.profit = row.revenue - row.cost
      /\ old.status \in Final => row.status = old.status
      /\ row.flow /\ ~old.flow => row.needs \subseteq row.photos
  BY <1>2 DEF SameMoney, SameState
<1>4. Idle.pc = "idle"
  BY DEF Idle
<1> QED
  BY <1>3, <1>4, OverFit

LEMMA JobWritesFit ==
  ASSUME TypeInv, HandlersFit, RowsInv, NEW h \in Handlers, OthersIdle(h),
         \/ StatusWrite(h) \/ CheckpointsRead(h) \/ CompleteWrite(h) \/ ReportWrite(h)
         \/ PdfWrite(h) \/ PhotoWrite(h) \/ MarkWrite(h) \/ EditWrite(h) \/ SyncWrite(h)
  PROVE  HandlersFit' /\ RowsInv' /\ Proper
<1> DEFINE Goal == HandlersFit' /\ RowsInv' /\ Proper
           old  == job[req[h].job]
           snap == req[h].snap
<1>1. /\ req[h] \in Flight /\ FlightFit(req[h]) /\ old \in Row /\ snap \in Row /\ req[h].amt \in Nat
      /\ req[h].job \in Jobs /\ HeldFit(req[h]) /\ SourceFit(req[h]) /\ Idle.pc = "idle"
  BY WorkOrdersAssumption DEF TypeInv, TypeOK, Flight, HandlersFit, Idle
<1>2. old.profit = old.revenue - old.cost
  BY <1>1 DEF RowsInv, ProfitInStep
<1>3. ASSUME NEW pc \in Holds, At(h, pc), Present(req[h].job) PROVE old = snap
  BY <1>1, <1>3 DEF HeldFit, At
<1>4. CASE StatusWrite(h)
  <2> DEFINE row == [old EXCEPT !.status = req[h].to,
                                !.started = @ \/ (req[h].to = "IN_PROGRESS" /\ ~snap.started),
                                !.ended = @ \/ req[h].to = "COMPLETED"]
  <2>1. Over(row, old) /\ SameMoney(row, old) /\ row.flow = old.flow /\ row.status = req[h].to
    BY <1>1, StatusRow
  <2>2. Writes(h, "setStatus", row, Idle) /\ "setStatus" \in Holds
    BY <1>4 DEF StatusWrite, Holds
  <2> HIDE DEF row
  <2>3. Present(req[h].job) => old.status \notin Final
    <3>1. Present(req[h].job) => req[h].to \in Allowed(old.status)
      BY <1>1, <1>3, <2>2 DEF Writes, At, HeldFit
    <3> QED
      BY <3>1 DEF Allowed, Final
  <2>4. row.profit = row.revenue - row.cost
    BY <1>2, <2>1 DEF SameMoney
  <2> QED
    BY <1>1, <2>1, <2>2, <2>3, <2>4, OverFit
<1>5. CASE CheckpointsRead(h)
  <2> DEFINE f == [req[h] EXCEPT !.pc = "complete"]
  <2>1. CASE Moves(h, Idle)
    BY <2>1, MovesFit, IdleFits
  <2>2. CASE Present(req[h].job) /\ Fulfilled(req[h].job) /\ Moves(h, f)
    <3>1. f.pc = "complete" /\ f.job = req[h].job /\ f.snap = snap
      BY NextPcType
    <3>2. old = snap /\ snap.status \notin Final
      BY <1>1, <1>3, <1>5, <2>2 DEF CheckpointsRead, Holds, HeldFit, At
    <3>3. snap.needs \subseteq snap.photos
      BY <2>2, <3>2 DEF Fulfilled
    <3> HIDE DEF f
    <3>4. HeldFit(f) /\ SourceFit(f)
      BY <3>1, <3>2, <3>3 DEF HeldFit, SourceFit
    <3> QED
      BY <2>2, <3>4, MovesFit
  <2> QED
    BY <1>5, <2>1, <2>2 DEF CheckpointsRead
<1>6. CASE CompleteWrite(h)
  <2> DEFINE row == [old EXCEPT !.status = "COMPLETED", !.ended = TRUE, !.flow = TRUE]
             f == [req[h] EXCEPT !.pc = "report"]
  <2>1. /\ Over(row, old) /\ SameMoney(row, old) /\ row.status = "COMPLETED"
        /\ row.needs = old.needs /\ row.photos = old.photos
    BY <1>1, CompleteRow
  <2>2. Writes(h, "complete", row, f) /\ "complete" \in Holds
    BY <1>6 DEF CompleteWrite, Holds
  <2>3. f.pc = "report"
    BY NextPcType
  <2> HIDE DEF row, f
  <2>4. Present(req[h].job) => old.status \notin Final /\ old.needs \subseteq old.photos
    BY <1>1, <1>3, <2>2 DEF Writes, At, HeldFit
  <2>5. row.profit = row.revenue - row.cost
    BY <1>2, <2>1 DEF SameMoney
  <2> QED
    BY <2>1, <2>2, <2>3, <2>4, <2>5, OverFit
<1>7. CASE ReportWrite(h)
  BY <1>1, <1>7, PdfRow, PlainOverFit, MovesFit, IdleFits DEF ReportWrite
<1>8. CASE PdfWrite(h)
  BY <1>1, <1>8, PdfRow, PlainOverFit DEF PdfWrite, Holds
<1>9. CASE PhotoWrite(h)
  <2>1. req[h].put \in Checkpoints \cup {None} /\ "photo" \in Holds
    BY <1>1, <1>9 DEF PhotoWrite, Writes, At, FlightFit, Holds
  <2> QED
    BY <1>1, <1>9, <2>1, PhotoRow, PlainOverFit DEF PhotoWrite
<1>10. CASE MarkWrite(h)
  <2>1. req[h].put \in Marks /\ "mark" \in Holds
    BY <1>1, <1>10 DEF MarkWrite, Writes, At, FlightFit, Holds
  <2> QED
    BY <1>1, <1>10, <2>1, MarkRow, PlainOverFit DEF MarkWrite
<1>11. CASE EditWrite(h)
  <2>1. ASSUME NEW c \in Amounts, Writes(h, "edit", Costed(old, snap, c), Idle) PROVE Goal
    <3> DEFINE row == Costed(old, snap, c)
    <3>1. c \in Nat /\ "edit" \in Holds
      BY WorkOrdersAssumption DEF Holds
    <3>2. /\ Over(row, old) /\ SameState(row, old)
          /\ row.revenue = old.revenue /\ row.cost = c /\ row.profit = snap.revenue - c
      BY <1>1, <3>1, CostedRow
    <3> HIDE DEF row
    <3>3. Present(req[h].job) => old = snap
      BY <1>3, <2>1, <3>1 DEF Writes
    <3>4. Present(req[h].job) =>
            /\ row.profit = row.revenue - row.cost
            /\ old.status \in Final => row.status = old.status
            /\ row.flow /\ ~old.flow => row.needs \subseteq row.photos
      BY <3>2, <3>3 DEF SameState
    <3> QED
      BY <1>1, <2>1, <3>1, <3>2, <3>4, OverFit DEF row
  <2>2. ASSUME NEW needs \in {{}, Checkpoints}, Writes(h, "edit", [old EXCEPT !.needs = needs], Idle) PROVE Goal
    BY <1>1, <2>2, NeedsRow, PlainOverFit DEF Holds
  <2> QED
    BY <1>11, <2>1, <2>2 DEF EditWrite
<1>12. CASE SyncWrite(h)
  <2> DEFINE row == Synced(old, snap, req[h].amt)
  <2>1. /\ Over(row, old) /\ SameState(row, old)
        /\ row.revenue = req[h].amt /\ row.cost = old.cost /\ row.profit = req[h].amt - snap.cost
    BY <1>1, SyncRow
  <2>2. Writes(h, "sync", row, Idle) /\ "sync" \in Holds
    BY <1>12 DEF SyncWrite, Holds
  <2> HIDE DEF row
  <2>3. Present(req[h].job) => old = snap
    BY <1>3, <2>2 DEF Writes
  <2>4. Present(req[h].job) =>
          /\ row.profit = row.revenue - row.cost
          /\ old.status \in Final => row.status = old.status
          /\ row.flow /\ ~old.flow => row.needs \subseteq row.photos
    BY <2>1, <2>3 DEF SameState
  <2> QED
    BY <1>1, <2>1, <2>2, <2>4, OverFit
<1> QED
  BY <1>4, <1>5, <1>6, <1>7, <1>8, <1>9, <1>10, <1>11, <1>12

(* A step that writes requests or estimates, and of the handlers at most   *)
(* ends one.                                                               *)
LEMMA SourcesFit ==
  ASSUME TypeInv, HandlersFit, RowsInv, job' = job,
         NEW h \in Handlers, req' = req \/ (OthersIdle(h) /\ req' = [req EXCEPT ![h] = Idle]),
         \A r \in Requests : /\ request[r].status \in {"CONFIRMED", "DECLINED"} => request'[r] = request[r]
                             /\ request[r].status = "PENDING" /\ req' = req => request'[r] = request[r],
         \A e \in Estimates :
           /\ estimate[e].status # "ABSENT" => estimate'[e].job = estimate[e].job /\ estimate'[e].status # "ABSENT"
           /\ estimate[e].status = "CONVERTED" =>
                estimate'[e].status \in {"CONVERTED", "REMOVED"} /\ estimate'[e].total = estimate[e].total
           /\ estimate[e].status # "CONVERTED" => estimate'[e].status # "CONVERTED"
  PROVE  HandlersFit' /\ RowsInv' /\ Proper
<1>1. /\ req \in [Handlers -> Flight] /\ \A g \in Handlers : FlightFit(req[g])
      /\ \A g \in Handlers : req'[g] = req[g] \/ req'[g] = Idle
      /\ \A g \in Handlers : At(g, "idle")' \/ (req' = req /\ req'[g] = req[g])
  BY DEF TypeInv, TypeOK, OthersIdle, At, Idle
<1>2. HandlersFit'
  <2> SUFFICES ASSUME NEW g \in Handlers PROVE HeldFit(req[g])' /\ SourceFit(req[g])'
    BY DEF HandlersFit
  <2>1. CASE At(g, "idle")'
    BY <2>1 DEF At, HeldFit, SourceFit, Holds
  <2>2. CASE req' = req /\ req'[g] = req[g]
    <3>1. HeldFit(req[g])'
      BY <2>2 DEF HandlersFit, HeldFit, Present
    <3>2. SourceFit(req[g])'
      BY <1>1, <2>2 DEF HandlersFit, SourceFit, FlightFit
    <3> QED
      BY <3>1, <3>2
  <2> QED
    BY <1>1, <2>1, <2>2
<1>3. RowsInv'
  BY DEF RowsInv, SourceLinked, OneJobPerSource, ProfitInStep, Present
<1>4. Proper
  BY DEF Proper, FinalStays, CompletionChecked
<1> QED
  BY <1>2, <1>3, <1>4

LEMMA ResumeFit ==
  ASSUME TypeInv, HandlersFit, RowsInv, NEW h \in Handlers, OthersIdle(h), Resume(h),
         \A j \in Jobs : ~InsertJob(h, j)
  PROVE  HandlersFit' /\ RowsInv' /\ Proper
<1> DEFINE Goal == HandlersFit' /\ RowsInv' /\ Proper
<1>1. /\ req[h] \in Flight /\ FlightFit(req[h]) /\ HeldFit(req[h]) /\ SourceFit(req[h])
      /\ request \in [Requests -> Request] /\ estimate \in [Estimates -> Estimate]
  BY DEF TypeInv, TypeOK, HandlersFit
<1>2. CASE ReadLast(h)
  <2> DEFINE f == [req[h] EXCEPT !.pc = "insert", !.num = NextNumber]
  <2>1. f.pc = "insert" /\ f.src = req[h].src /\ Moves(h, f)
    BY <1>1, <1>2 DEF ReadLast, Flight
  <2> HIDE DEF f
  <2>2. HeldFit(f) /\ SourceFit(f)
    BY <1>1, <1>2, <2>1 DEF HeldFit, SourceFit, Holds, ReadLast, At
  <2> QED
    BY <2>1, <2>2, MovesFit
<1>3. CASE InsertFails(h)
  <2>1. HeldFit(Retry(h)) /\ SourceFit(Retry(h))
    BY <1>1, <1>3, RetryType DEF HeldFit, SourceFit, Holds, InsertFails, At
  <2>2. Moves(h, Idle) \/ Moves(h, Retry(h))
    BY <1>3 DEF InsertFails
  <2> QED
    BY <2>1, <2>2, MovesFit, IdleFits
<1>4. CASE FindCustomer(h) \/ AddCustomer(h)
  <2> DEFINE f(pc) == [req[h] EXCEPT !.pc = pc]
  <2>1. \A pc \in {"readLast", "addCustomer"} : f(pc).pc = pc /\ f(pc).src = req[h].src
    BY <1>1 DEF Flight
  <2>2. req[h].pc \in {"findCustomer", "addCustomer"} /\ req[h].src \in Requests
    BY <1>1, <1>4 DEF FindCustomer, AddCustomer, At, FlightFit
  <2>3. PICK pc \in {"readLast", "addCustomer"} :
          /\ req' = [req EXCEPT ![h] = f(pc)] /\ UNCHANGED <<job, request, estimate>>
    BY <1>4 DEF FindCustomer, AddCustomer, Moves, Becomes, intake
  <2>4. f(pc).pc = pc /\ f(pc).src = req[h].src
    BY <2>1
  <2> HIDE DEF f
  <2>5. HeldFit(f(pc)) /\ SourceFit(f(pc))
    BY <1>1, <2>2, <2>4, WorkOrdersAssumption DEF HeldFit, SourceFit, Holds
  <2>6. \A g \in Handlers : req'[g] = IF g = h THEN f(pc) ELSE req[g]
    BY <2>3 DEF TypeInv, TypeOK
  <2>7. HandlersFit'
    BY <2>3, <2>5, <2>6 DEF HandlersFit, HeldFit, SourceFit, Present
  <2>8. RowsInv' /\ Proper
    BY <2>3 DEF RowsInv, SourceLinked, OneJobPerSource, ProfitInStep, Present, Proper, FinalStays, CompletionChecked
  <2> QED
    BY <2>7, <2>8
<1>5. CASE DeclineWrite(h)
  <2>1. /\ req[h].src \in Requests /\ request[req[h].src].status = "PENDING"
        /\ request' = [request EXCEPT ![req[h].src].status = "DECLINED"]
        /\ req' = [req EXCEPT ![h] = Idle] /\ UNCHANGED <<job, estimate>>
    BY <1>1, <1>5 DEF DeclineWrite, At, FlightFit, SourceFit, Becomes
  <2>2. \A r \in Requests : request[r].status \in {"CONFIRMED", "DECLINED"} => request'[r] = request[r]
    BY <1>1, <2>1 DEF Request
  <2>3. req' = req => \A r \in Requests : request'[r] = request[r]
    <3>1. req' # req
      BY <1>5, <2>1 DEF DeclineWrite, At, Idle, TypeInv, TypeOK
    <3> QED
      BY <3>1
  <2> QED
    BY <2>1, <2>2, <2>3, SourcesFit
<1>6. CASE EditEstimateWrite(h) \/ SendWrite(h)
  <2> DEFINE e == req[h].src
  <2>1. /\ e \in Estimates /\ estimate[e].status # "CONVERTED"
        /\ req' = [req EXCEPT ![h] = Idle] /\ UNCHANGED <<job, request>>
    BY <1>1, <1>6 DEF EditEstimateWrite, SendWrite, WritesEstimate, At, FlightFit, SourceFit, Becomes
  <2>2. \/ estimate' = estimate
        \/ \E t \in Amounts : HasEstimate(e) /\ estimate' = [estimate EXCEPT ![e] = [estimate[e] EXCEPT !.total = t]]
        \/ HasEstimate(e) /\ estimate' = [estimate EXCEPT ![e] = [estimate[e] EXCEPT !.status = "SENT"]]
    BY <1>6 DEF EditEstimateWrite, SendWrite, WritesEstimate
  <2> HIDE DEF e
  <2>3. \A d \in Estimates :
          /\ estimate[d].status # "ABSENT" => estimate'[d].job = estimate[d].job /\ estimate'[d].status # "ABSENT"
          /\ estimate[d].status = "CONVERTED" =>
               estimate'[d].status \in {"CONVERTED", "REMOVED"} /\ estimate'[d].total = estimate[d].total
          /\ estimate[d].status # "CONVERTED" => estimate'[d].status # "CONVERTED"
    BY <1>1, <2>1, <2>2 DEF Estimate
  <2> QED
    BY <2>1, <2>3, SourcesFit
<1> QED
  BY <1>2, <1>3, <1>4, <1>5, <1>6, JobWritesFit DEF Resume

LEMMA InsertFit ==
  ASSUME TypeInv, HandlersFit, RowsInv, NEW h \in Handlers, OthersIdle(h), NEW j \in Jobs, InsertJob(h, j)
  PROVE  HandlersFit' /\ RowsInv' /\ Proper
<1> DEFINE src == req[h].src
<1>1. PICK row \in Row :
        /\ job' = [job EXCEPT ![j] = row] /\ job[j].status = "ABSENT"
        /\ row.status = "SCHEDULED" /\ row.age = clock + 1 /\ row.num = req[h].num
        /\ row.source = req[h].src /\ row.flow = FALSE /\ row.profit = row.revenue - row.cost
  BY InsertDoes
<1>2. /\ job \in [Jobs -> Row] /\ req \in [Handlers -> Flight] /\ req' = [req EXCEPT ![h] = Idle]
      /\ estimate \in [Estimates -> Estimate] /\ SourceFit(req[h]) /\ At(h, "insert")
      /\ request' = [r \in Requests |-> IF r = src THEN [status |-> "CONFIRMED", job |-> j] ELSE request[r]]
      /\ estimate' = [e \in Estimates |->
           IF e = src THEN [estimate[e] EXCEPT !.status = "CONVERTED", !.job = j] ELSE estimate[e]]
  BY DEF TypeInv, TypeOK, InsertJob, Becomes, HandlersFit
<1>3. /\ src \in Requests => request[src].status = "PENDING"
      /\ src \in Estimates => estimate[src].job = None
  BY <1>2 DEF SourceFit, At
<1>4. /\ job'[j] = row /\ Present(j)' /\ ~Present(j)
      /\ \A k \in Jobs \ {j} : job'[k] = job[k] /\ (Present(k)' <=> Present(k))
  BY <1>1, <1>2 DEF Present, NoRow
<1>5. /\ \A r \in Requests : IF r = src THEN request'[r].status = "CONFIRMED" ELSE request'[r] = request[r]
      /\ \A e \in Estimates :
           IF e = src THEN /\ estimate'[e].status = "CONVERTED" /\ estimate'[e].job = j
                           /\ estimate'[e].total = estimate[e].total
           ELSE estimate'[e] = estimate[e]
  BY <1>2 DEF Estimate
<1> HIDE DEF src
<1>6. HandlersFit'
  <2>1. \A g \in Handlers : At(g, "idle")'
    BY <1>2 DEF OthersIdle, At, Idle
  <2> QED
    BY <2>1 DEF HandlersFit, HeldFit, SourceFit, At, Holds
<1>7. \A k \in Jobs : Present(k) => job[k].source # src \/ src = None
  <2>1. src \in Requests \/ src \in Estimates \/ src = None
    BY <1>2 DEF Flight, Sources, src
  <2>2. None \notin Jobs
    BY WorkOrdersAssumption
  <2> QED
    BY <1>3, <2>1, <2>2 DEF RowsInv, SourceLinked
<1>8. SourceLinked'
  <2>1. ASSUME NEW k \in Jobs \ {j}, Present(k)
        PROVE  /\ job[k].source \in Requests => request'[job[k].source].status = "CONFIRMED"
               /\ job[k].source \in Estimates =>
                    estimate'[job[k].source].job = k /\ estimate'[job[k].source].status # "ABSENT"
    BY <1>5, <1>7, <2>1, WorkOrdersAssumption DEF RowsInv, SourceLinked, Sources
  <2>2. /\ src \in Requests => request'[src].status = "CONFIRMED"
        /\ src \in Estimates => estimate'[src].job = j /\ estimate'[src].status # "ABSENT"
    BY <1>5
  <2> QED
    BY <1>1, <1>4, <2>1, <2>2 DEF SourceLinked, src
<1>9. OneJobPerSource'
  BY <1>1, <1>4, <1>7 DEF RowsInv, OneJobPerSource, src
<1>10. ProfitInStep'
  BY <1>1, <1>4 DEF RowsInv, ProfitInStep
<1>11. Proper
  <2>1. FinalStays
    BY <1>1, <1>3, <1>4, <1>5 DEF FinalStays, Final
  <2>2. CompletionChecked
    BY <1>1, <1>4 DEF CompletionChecked
  <2> QED
    BY <2>1, <2>2 DEF Proper
<1> QED
  BY <1>6, <1>8, <1>9, <1>10, <1>11 DEF RowsInv

LEMMA RemoveJobFit ==
  ASSUME TypeInv, HandlersFit, RowsInv, NEW j \in Jobs, RemoveJob(j)
  PROVE  HandlersFit' /\ RowsInv' /\ Proper
<1> DEFINE gone == [NoJob EXCEPT !.status = "DELETED"]
<1>1. /\ gone.status = "DELETED" /\ gone.flow = FALSE /\ gone.profit = 0 /\ gone.revenue = 0 /\ gone.cost = 0
  BY DEF NoJob
<1>2. /\ job' = [job EXCEPT ![j] = gone] /\ UNCHANGED <<request, req>> /\ job \in [Jobs -> Row]
      /\ estimate' = [e \in Estimates |->
           IF estimate[e].job = j THEN [estimate[e] EXCEPT !.job = None] ELSE estimate[e]]
      /\ estimate \in [Estimates -> Estimate] /\ req \in [Handlers -> Flight]
      /\ \A h \in Handlers : FlightFit(req[h])
  BY DEF RemoveJob, TypeInv, TypeOK
<1> HIDE DEF gone
<1>3. /\ job'[j] = gone /\ ~Present(j)'
      /\ \A k \in Jobs \ {j} : job'[k] = job[k] /\ (Present(k)' <=> Present(k))
  BY <1>1, <1>2 DEF Present, NoRow
<1>4. \A e \in Estimates : /\ estimate'[e].status = estimate[e].status /\ estimate'[e].total = estimate[e].total
                           /\ estimate'[e].job = IF estimate[e].job = j THEN None ELSE estimate[e].job
  BY <1>2 DEF Estimate
<1>5. HandlersFit'
  <2> SUFFICES ASSUME NEW h \in Handlers PROVE HeldFit(req[h])' /\ SourceFit(req[h])'
    BY DEF HandlersFit
  <2>1. HeldFit(req[h])'
    <3>1. Present(req[h].job)' => job'[req[h].job] = job[req[h].job] /\ Present(req[h].job)
      BY <1>2, <1>3 DEF Flight
    <3> QED
      BY <1>2, <3>1 DEF HandlersFit, HeldFit
  <2>2. SourceFit(req[h])'
    BY <1>2, <1>4 DEF HandlersFit, SourceFit, FlightFit
  <2> QED
    BY <2>1, <2>2
<1>6. SourceLinked'
  BY <1>2, <1>3, <1>4 DEF RowsInv, SourceLinked
<1>7. OneJobPerSource' /\ ProfitInStep'
  BY <1>1, <1>3 DEF RowsInv, OneJobPerSource, ProfitInStep
<1>8. Proper
  <2>1. FinalStays
    BY <1>1, <1>2, <1>3, <1>4 DEF FinalStays
  <2>2. CompletionChecked
    BY <1>1, <1>3 DEF CompletionChecked
  <2> QED
    BY <2>1, <2>2 DEF Proper
<1> QED
  BY <1>5, <1>6, <1>7, <1>8 DEF RowsInv

LEMMA AtOnceFit ==
  ASSUME TypeInv, HandlersFit, RowsInv, AtOnce
  PROVE  HandlersFit' /\ RowsInv' /\ Proper
<1>1. request \in [Requests -> Request] /\ estimate \in [Estimates -> Estimate]
  BY DEF TypeInv, TypeOK
<1>2. ASSUME NEW r \in Requests, CreateRequest(r) PROVE HandlersFit' /\ RowsInv' /\ Proper
  <2>1. \A q \in Requests : request[q].status # "ABSENT" => request'[q] = request[q]
    BY <1>1, <1>2 DEF CreateRequest
  <2> QED
    BY <1>2, <2>1 DEF CreateRequest, HandlersFit, HeldFit, SourceFit, RowsInv, SourceLinked, OneJobPerSource,
       ProfitInStep, Present, Proper, FinalStays, CompletionChecked, TypeInv, FlightFit
<1>3. ASSUME NEW e \in Estimates, CreateEstimate(e) \/ RemoveEstimate(e) PROVE HandlersFit' /\ RowsInv' /\ Proper
  <2>1. \A d \in Estimates :
          /\ estimate[d].status # "ABSENT" => estimate'[d].job = estimate[d].job /\ estimate'[d].status # "ABSENT"
          /\ estimate[d].status = "CONVERTED" =>
               estimate'[d].status \in {"CONVERTED", "REMOVED"} /\ estimate'[d].total = estimate[d].total
          /\ estimate[d].status # "CONVERTED" => estimate'[d].status # "CONVERTED"
    BY <1>1, <1>3 DEF CreateEstimate, RemoveEstimate, HasEstimate, Estimate
  <2>2. UNCHANGED <<job, request, req>>
    BY <1>3 DEF CreateEstimate, RemoveEstimate
  <2>3. HandlersFit'
    BY <2>1, <2>2 DEF HandlersFit, HeldFit, SourceFit, Present, TypeInv, FlightFit
  <2>4. RowsInv' /\ Proper
    BY <2>1, <2>2 DEF RowsInv, SourceLinked, OneJobPerSource, ProfitInStep, Present, Proper, FinalStays, CompletionChecked
  <2> QED
    BY <2>3, <2>4
<1> QED
  BY <1>2, <1>3, RemoveJobFit DEF AtOnce

LEMMA SerialStep ==
  ASSUME TypeInv, TypeInv', SerialInv, SerialNext \/ UNCHANGED vars
  PROVE  SerialInv' /\ Proper
<1>1. HandlersFit /\ RowsInv /\ NumbersInv /\ BeyondInv /\ InsertsBeyond
  BY DEF SerialInv, BeyondInv, InsertsBeyond
<1>2. [Next]_vars
  BY DEF SerialNext, Next
<1>3. NumbersInv'
  BY <1>1, <1>2, NumbersStep
<1>4. CASE SerialNext
  <2>1. BeyondInv'
    BY <1>1, <1>4, BeyondStep
  <2>2. ASSUME NEW h \in Handlers, OthersIdle(h), Begin(h) \/ Resume(h) \/ Abort(h)
        PROVE  HandlersFit' /\ RowsInv' /\ Proper
    <3>1. CASE Abort(h)
      <4>1. UNCHANGED <<job, request, estimate>> /\ req' = [req EXCEPT ![h] = Idle] /\ req[h].pc # "idle"
        BY <3>1 DEF Abort, Becomes, intake
      <4>2. req' # req
        BY <4>1 DEF Idle, TypeInv, TypeOK
      <4> QED
        BY <1>1, <2>2, <4>1, <4>2, SourcesFit
    <3>2. CASE \E j \in Jobs : InsertJob(h, j)
      BY <1>1, <2>2, <3>2, InsertFit
    <3> QED
      BY <1>1, <2>2, <3>1, <3>2, BeginFit, ResumeFit
  <2> QED
    BY <1>1, <1>3, <1>4, <2>1, <2>2, AtOnceFit DEF SerialNext, SerialInv
<1>5. CASE UNCHANGED vars
  <2>1. Calm
    BY <1>5, RestCalm
  <2>2. BeyondInv'
    BY <1>1, <2>1 DEF BeyondInv, Beyond, Calm, At
  <2>3. HandlersFit' /\ RowsInv' /\ Proper
    BY <1>1, <1>5 DEF vars, HandlersFit, HeldFit, SourceFit, RowsInv, SourceLinked, OneJobPerSource, ProfitInStep,
       Present, Proper, FinalStays, CompletionChecked
  <2> QED
    BY <1>3, <2>2, <2>3 DEF SerialInv
<1> QED
  BY <1>4, <1>5

LEMMA InitSerial == Init => SerialInv
<1> SUFFICES ASSUME Init PROVE SerialInv
  OBVIOUS
<1>1. \A j \in Jobs : ~Present(j) /\ job[j].profit = job[j].revenue - job[j].cost
  BY DEF Init, Present, NoRow, NoJob
<1>2. \A h \in Handlers : HeldFit(req[h]) /\ SourceFit(req[h]) /\ ~At(h, "insert")
  BY IdleFits DEF Init, At, Idle
<1>3. NumbersInv
  BY InitNumbers
<1> QED
  BY <1>1, <1>2, <1>3 DEF SerialInv, HandlersFit, RowsInv, SourceLinked, OneJobPerSource, ProfitInStep, BeyondInv

(* An instance with one slot for handlers. *)
OneAtATime == \A g, h \in Handlers : g = h

LEMMA OneIsSerial ==
  ASSUME OneAtATime, [Next]_vars PROVE SerialNext \/ UNCHANGED vars
  BY DEF OneAtATime, Next, SerialNext, OthersIdle

LEMMA OneSerial == ASSUME OneAtATime PROVE Spec => []SerialInv
<1>1. TypeInv /\ TypeInv' /\ SerialInv /\ [Next]_vars => SerialInv'
  BY SerialStep, OneIsSerial
<1> QED
  BY <1>1, InitSerial, TypeInvariant, PTL DEF Spec

(* One handler at a time, in any order of whole handlers, deaths and       *)
(* deletes: no request or estimate has two jobs, a job's profit is its     *)
(* revenue less its costs, and a newer job has a greater number.           *)
THEOREM OneAtATimeIsSound ==
  ASSUME OneAtATime
  PROVE  Spec => [](OneJobPerSource /\ ProfitInStep /\ NumbersGrow /\ CollisionsAccounted)
<1>1. SerialInv => OneJobPerSource /\ ProfitInStep /\ NumbersGrow /\ CollisionsAccounted
  BY DEF SerialInv, RowsInv, NumbersInv, Counted, CollisionsAccounted
<1> QED
  BY <1>1, OneSerial, PTL

(* One handler at a time, what has ended stays as it ended, and complete   *)
(* finds a photo for every checkpoint required then.                       *)
THEOREM OneAtATimeStaysFinal ==
  ASSUME OneAtATime
  PROVE  Spec => [][FinalStays /\ CompletionChecked]_vars
<1>1. TypeInv /\ TypeInv' /\ SerialInv /\ [Next]_vars => [FinalStays /\ CompletionChecked]_vars
  BY SerialStep, OneIsSerial DEF Proper
<1> QED
  BY <1>1, OneSerial, TypeInvariant, PTL DEF Spec

-----------------------------------------------------------------------------
(* The scenes of MCOperations. *)

(* Handlers overlap in "rush" only, where no job is deleted. *)
ScenesInv ==
  /\ TypeInv /\ NumbersInv
  /\ scene = "rush" => NoGap
  /\ scene # "rush" => SerialInv /\ \A h \in Handlers \ {FirstHandler} : At(h, "idle")

(* A handler that begins is not idle afterwards. *)
LEMMA BeginStarts ==
  ASSUME TypeInv, NEW h \in Handlers, Begin(h) PROVE req'[h].pc # "idle"
<1>0. TypeOK /\ req \in [Handlers -> Flight]
  BY DEF TypeInv, TypeOK
<1>1. ASSUME NEW f, Moves(h, f), f.pc # "idle" PROVE req'[h].pc # "idle"
  BY <1>0, <1>1 DEF Moves, Becomes
<1>2. \A pc \in Pcs \ {"idle"}, src \in Sources \cup {None} : Allocating(pc, src).pc # "idle"
  BY <1>0, AllocatingType
<1>3. \A pc \in Pcs \ {"idle"}, src \in Sources : Reading(pc, src).pc # "idle"
  BY ReadingType
<1>4. \A pc \in Pcs \ {"idle"}, j \in Jobs : Holding(pc, j) \in Flight /\ Holding(pc, j).pc # "idle"
  BY <1>0, HoldingType
<1>5. CASE CreateJob(h)
  BY <1>1, <1>2, <1>5 DEF CreateJob, Pcs
<1>6. ASSUME NEW r \in Requests, ConfirmRead(h, r) \/ DeclineRead(h, r) PROVE req'[h].pc # "idle"
  BY <1>1, <1>2, <1>3, <1>6 DEF ConfirmRead, DeclineRead, Pcs, Sources
<1>7. ASSUME NEW e \in Estimates, EditEstimateRead(h, e) \/ SendRead(h, e) \/ ConvertRead(h, e)
      PROVE  req'[h].pc # "idle"
  BY <1>1, <1>2, <1>3, <1>7 DEF EditEstimateRead, SendRead, ConvertRead, Pcs, Sources
<1>8. ASSUME NEW j \in Jobs, CompleteRead(h, j) \/ PdfRead(h, j) \/ EditRead(h, j) PROVE req'[h].pc # "idle"
  BY <1>1, <1>4, <1>8 DEF CompleteRead, PdfRead, EditRead, Pcs
<1>9. ASSUME NEW pc \in Pcs \ {"idle"}, NEW j \in Jobs, NEW f, Moves(h, f), f.pc = Holding(pc, j).pc
      PROVE  req'[h].pc # "idle"
  BY <1>1, <1>4, <1>9
<1>10. \A pc \in {"mark", "setStatus", "photo", "sync"}, j \in Jobs : pc \in Pcs \ {"idle"} /\ Holding(pc, j) \in Flight
  BY <1>4 DEF Pcs
<1>11. ASSUME NEW j \in Jobs, NEW p, Moves(h, [Holding("mark", j) EXCEPT !.put = p]) PROVE req'[h].pc # "idle"
  BY <1>9, <1>10, <1>11 DEF Flight
<1>12. ASSUME NEW j \in Jobs, NEW c, PhotoRead(h, j, c) PROVE req'[h].pc # "idle"
  BY <1>9, <1>10, <1>12 DEF Flight, PhotoRead
<1>13. ASSUME NEW j \in Jobs, NEW to, StatusRead(h, j, to) PROVE req'[h].pc # "idle"
  BY <1>9, <1>10, <1>13 DEF Flight, StatusRead
<1>14. ASSUME NEW j \in Jobs, NEW a, SyncRead(h, j, a) PROVE req'[h].pc # "idle"
  BY <1>9, <1>10, <1>14 DEF Flight, SyncRead
<1> QED
  BY <1>5, <1>6, <1>7, <1>8, <1>11, <1>12, <1>13, <1>14 DEF Begin, OnMyWayRead, SignatureRead

LEMMA SerialScene ==
  ASSUME ScenesInv, scene # "rush", [MCNext]_<<vars, shift, scene>>
  PROVE  /\ SerialNext \/ UNCHANGED vars
         /\ \A h \in Handlers \ {FirstHandler} : At(h, "idle")'
<1>1. CASE UNCHANGED vars
  BY <1>1 DEF vars, ScenesInv, At
<1>2. CASE OrdersNext
  <2>1. Next /\ Alone
    BY <1>2 DEF OrdersNext, Intake, Site, ScenesInv
  <2>2. ASSUME NEW h \in Handlers, Begin(h) \/ Resume(h) \/ Abort(h) PROVE OthersIdle(h)
    <3>1. CASE h = FirstHandler
      BY <3>1 DEF ScenesInv, OthersIdle
    <3>2. CASE h # FirstHandler
      <4>1. At(h, "idle") /\ req'[h].pc = "idle"
        BY <2>1, <3>2 DEF ScenesInv, Alone
      <4>2. Begin(h)
        BY <2>2, <4>1 DEF Resume, Abort, ReadLast, InsertFails, InsertJob, FindCustomer, AddCustomer,
           DeclineWrite, EditEstimateWrite, SendWrite, WritesEstimate, StatusWrite, CheckpointsRead,
           CompleteWrite, ReportWrite, PdfWrite, PhotoWrite, MarkWrite, EditWrite, SyncWrite, Writes, At
      <4> QED
        BY <4>1, <4>2, BeginStarts DEF ScenesInv
    <3> QED
      BY <3>1, <3>2
  <2> QED
    BY <2>1, <2>2 DEF Next, SerialNext, Alone, At
<1> QED
  BY <1>1, <1>2 DEF MCNext, ClockNext

LEMMA RushStep ==
  ASSUME ScenesInv, TypeInv', scene = "rush", [MCNext]_<<vars, shift, scene>>
  PROVE  NumbersInv' /\ NoGap'
<1>1. [Next]_vars
  BY DEF MCNext, OrdersNext, ClockNext
<1>2. TypeInv /\ NumbersInv /\ NoGap /\ InsertsBeyond
  BY NoGapBeyond DEF ScenesInv
<1>3. NumbersInv'
  BY <1>1, <1>2, NumbersStep
<1>4. CASE UNCHANGED vars
  <2>1. UNCHANGED <<job, req>>
    BY <1>4 DEF vars
  <2>2. NoGap'
    BY <1>2, <2>1 DEF NoGap, Present, At, NumberFree
  <2> QED
    BY <1>3, <2>2
<1>5. CASE OrdersNext
  <2>1. \A j \in Jobs : job'[j].status # "DELETED"
    BY <1>5 DEF OrdersNext, Rush, ScenesInv
  <2>2. ASSUME NEW j \in Jobs, RemoveJob(j) PROVE FALSE
    <3>1. job'[j].status = "DELETED"
      BY <1>2, <2>2 DEF RemoveJob, NoJob, TypeInv, TypeOK
    <3> QED
      BY <2>1, <3>1
  <2> QED
    BY <1>1, <1>2, <1>3, <2>2, NoGapStep
<1> QED
  BY <1>3, <1>4, <1>5 DEF MCNext, ClockNext

LEMMA ScenesStep ==
  ASSUME ScenesInv, [MCNext]_<<vars, shift, scene>>
  PROVE  ScenesInv' /\ (scene # "rush" => [Proper]_vars)
<1>1. scene' = scene /\ [Next]_vars
  BY DEF MCNext, OrdersNext, ClockNext
<1>2. TypeInv'
  BY <1>1, NextTyped DEF ScenesInv
<1>3. CASE scene = "rush"
  BY <1>1, <1>2, <1>3, RushStep DEF ScenesInv
<1>4. CASE scene # "rush"
  <2>1. /\ SerialNext \/ UNCHANGED vars
        /\ \A h \in Handlers \ {FirstHandler} : At(h, "idle")'
    BY <1>4, SerialScene
  <2>2. SerialInv' /\ Proper
    BY <1>2, <1>4, <2>1, SerialStep DEF ScenesInv
  <2> QED
    BY <1>1, <1>2, <1>4, <2>1, <2>2 DEF ScenesInv, SerialInv
<1> QED
  BY <1>3, <1>4

LEMMA ScenesInvariant == MCSpec => []ScenesInv
<1>1. ASSUME MCInit PROVE ScenesInv
  <2>1. \A h \in Handlers : At(h, "idle")
    BY <1>1 DEF MCInit, Init, At, Idle
  <2> QED
    BY <1>1, <2>1, InitTyped, InitNumbers, InitSerial DEF MCInit, ScenesInv
<1> QED
  BY <1>1, ScenesStep, PTL DEF MCSpec

(* In the scene of overlapping creates, confirms and conversions, and in   *)
(* those of handlers one after the other: a newer job has a greater number *)
(* and each collision of a handler is another's success since it began.    *)
THEOREM NumbersStaySoundHere == MCSpec => []NumbersSound
<1>1. ScenesInv => NumbersSound
  BY DEF ScenesInv, NumbersInv, Counted, CollisionsAccounted, NumbersSound
<1> QED
  BY <1>1, ScenesInvariant, PTL

(* A request or an estimate has one job at most, deletes and conversions   *)
(* again included, when handlers do not overlap.                           *)
THEOREM OneJobEach == MCSpec => []SerialOneJobPerSource
<1>1. ScenesInv => SerialOneJobPerSource
  BY DEF ScenesInv, SerialInv, RowsInv, SerialOneJobPerSource
<1> QED
  BY <1>1, ScenesInvariant, PTL

(* A job's profit is its revenue less its costs, when an update of the     *)
(* costs and a recomputation of the revenue do not overlap.                *)
THEOREM ProfitFollows == MCSpec => []SerialProfitInStep
<1>1. ScenesInv => SerialProfitInStep
  BY DEF ScenesInv, SerialInv, RowsInv, SerialProfitInStep
<1> QED
  BY <1>1, ScenesInvariant, PTL

(* Jobs, requests and converted estimates stay what they ended as, when    *)
(* handlers do not overlap.                                                *)
THEOREM EndedStays == MCSpec => SerialFinalStays
<1>1. ScenesInv /\ [MCNext]_<<vars, shift, scene>> => [scene # "rush" => FinalStays]_vars
  BY ScenesStep DEF Proper
<1> QED
  BY <1>1, ScenesInvariant, PTL DEF MCSpec, SerialFinalStays

(* complete finds a photo for every checkpoint required then, when         *)
(* handlers do not overlap.                                                *)
THEOREM CompletedWithPhotos == MCSpec => SerialCompletionChecked
<1>1. ScenesInv /\ [MCNext]_<<vars, shift, scene>> => [scene # "rush" => CompletionChecked]_vars
  BY ScenesStep DEF Proper
<1> QED
  BY <1>1, ScenesInvariant, PTL DEF MCSpec, SerialCompletionChecked

-----------------------------------------------------------------------------
(* The scene of the time entries: the theorems of TimeEntriesProofs, of    *)
(* the one handler there.                                                  *)
TP == INSTANCE TimeEntriesProofs WITH
        Handlers <- {FirstHandler}, DayHours <- 2, WeekDays <- 3, Daily <- 1, Weekly <- 1,
        Offset <- 0, Days <- 2

LEMMA ClockSized == TP!Sized
<1>1. TP!IsFiniteSet({1, 2})
  <2>1. TP!IsFiniteSet({1}) /\ {1, 2} = {1} \cup {2}
    BY TP!FS_Singleton
  <2> QED
    BY <2>1, TP!FS_AddElement
<1> QED
  BY <1>1, OperationsAssumption, WorkOrdersAssumption DEF TP!Sized, Entries

LEMMA RowsSame ==
  /\ T!Hours = TP!Hours /\ T!Row = TP!Row /\ T!NoEntry = TP!NoEntry /\ T!AnyEntry = TP!AnyEntry
  /\ T!Idle = TP!Idle /\ T!NoDay = TP!NoDay
  /\ \A a, b : T!Larger(a, b) = TP!Larger(a, b) /\ T!Smaller(a, b) = TP!Smaller(a, b)
  /\ \A e : (T!Stands(e) <=> TP!Stands(e)) /\ (T!Active(e) <=> TP!Active(e)) /\ (T!Starts(e) <=> TP!Starts(e))
  /\ \A t : T!LocalDate(t) = TP!LocalDate(t)
  /\ \A r, set : T!Over(r, set) = TP!Over(r, set)
<1>1. T!AnyEntry = TP!AnyEntry /\ T!NoEntry = TP!NoEntry /\ T!Hours = TP!Hours
  BY DEF T!AnyEntry, TP!AnyEntry, T!NoEntry, TP!NoEntry, T!Hours, TP!Hours
<1> QED
  BY <1>1 DEF T!Row, TP!Row, T!Idle, TP!Idle, T!NoDay, TP!NoDay, T!Larger, TP!Larger,
     T!Smaller, TP!Smaller, T!Stands, TP!Stands, T!Active, TP!Active, T!Starts, TP!Starts,
     T!LocalDate, TP!LocalDate, T!Over, TP!Over

LEMMA SumsSame == \A g, S : T!SumFunctionOnSet(g, S) = TP!SumFunctionOnSet(g, S)
  BY DEF T!SumFunctionOnSet, TP!SumFunctionOnSet, T!FoldFunctionOnSet, TP!FoldFunctionOnSet,
     T!MapThenFoldSet, TP!MapThenFoldSet

LEMMA WritesSame ==
  /\ \A h, c : T!Goes(h, c) <=> TP!Goes(h, c)
  /\ \A e, set, d : T!Writing(e, set, d) = TP!Writing(e, set, d)
  /\ \A a, b, c : T!Worked(a, b, c) = TP!Worked(a, b, c)
  /\ \A h, e, set, c : T!Sets(h, e, set, c) <=> TP!Sets(h, e, set, c)
  BY RowsSame DEF T!Goes, TP!Goes, T!Writing, TP!Writing, T!Worked, TP!Worked, T!Sets, TP!Sets

LEMMA DaysSame ==
  /\ \A d : T!DayEntries(d) = TP!DayEntries(d)
  /\ \A S : T!Total(S) = TP!Total(S) /\ T!RegularOf(S) = TP!RegularOf(S)
  /\ \A e, D : T!Allocation(e, D) = TP!Allocation(e, D)
<1>1. \A d : T!DayEntries(d) = TP!DayEntries(d)
  BY RowsSame DEF T!DayEntries, TP!DayEntries
<1>2. \A S : T!Total(S) = TP!Total(S) /\ T!RegularOf(S) = TP!RegularOf(S)
  BY SumsSame DEF T!Total, TP!Total, T!RegularOf, TP!RegularOf
<1>3. \A e, n : T!Regular(e, n) = TP!Regular(e, n)
  BY RowsSame DEF T!Regular, TP!Regular
<1>4. \A e, D : {g \in D : T!Earlier(g, e)} = {g \in D : TP!Earlier(g, e)}
  BY DEF T!Earlier, TP!Earlier
<1>5. \A S : T!Cardinality(S) = TP!Cardinality(S)
  BY DEF T!Cardinality, TP!Cardinality
<1>6. \A e, D : T!Allocation(e, D) = TP!Allocation(e, D)
  BY <1>2, <1>3, <1>4, <1>5 DEF T!Allocation, TP!Allocation
<1> QED
  BY <1>1, <1>2, <1>6

LEMMA ClockNextSame == [T!Next]_shift => [TP!Next]_(TP!vars)
<1> DEFINE h == FirstHandler
<1>1. T!ClockInRead(h) => TP!ClockInRead(h)
  BY RowsSame, WritesSame DEF T!ClockInRead, TP!ClockInRead
<1>2. T!Write(h) => TP!Write(h)
  BY RowsSame, WritesSame DEF T!Write, TP!Write
<1>3. T!RecalcRead(h) => TP!RecalcRead(h)
  BY RowsSame, WritesSame, DaysSame DEF T!RecalcRead, TP!RecalcRead
<1>4. T!Allocate(h) => TP!Allocate(h)
  BY RowsSame, WritesSame DEF T!Allocate, TP!Allocate
<1>5. T!Abort(h) => TP!Abort(h)
  BY RowsSame DEF T!Abort, TP!Abort
<1>6. ASSUME NEW e \in Entries, T!ClockInCreate(h, e) PROVE TP!ClockInCreate(h, e)
  BY <1>6, RowsSame DEF T!ClockInCreate, TP!ClockInCreate
<1>7. ASSUME NEW e \in Entries, T!ClockOutRead(h, e) PROVE TP!ClockOutRead(h, e)
  BY <1>7, RowsSame, WritesSame DEF T!ClockOutRead, TP!ClockOutRead
<1>8. ASSUME NEW e \in Entries, T!RemoveEntry(h, e) PROVE TP!RemoveEntry(h, e)
  BY <1>8, RowsSame DEF T!RemoveEntry, TP!RemoveEntry
<1>9. ASSUME NEW e \in Entries, T!StartBreakRead(h, e) PROVE TP!StartBreakRead(h, e)
  BY <1>9, RowsSame, WritesSame DEF T!StartBreakRead, TP!StartBreakRead
<1>10. ASSUME NEW e \in Entries, T!EndBreakRead(h, e) PROVE TP!EndBreakRead(h, e)
  BY <1>10, RowsSame, WritesSame DEF T!EndBreakRead, TP!EndBreakRead
<1>11. ASSUME NEW e \in Entries, NEW status, T!DecideRead(h, e, status) PROVE TP!DecideRead(h, e, status)
  BY <1>11, RowsSame, WritesSame DEF T!DecideRead, TP!DecideRead
<1>12. ASSUME NEW e \in Entries, NEW in, NEW out, NEW break, T!UpdateRead(h, e, in, out, break)
       PROVE  TP!UpdateRead(h, e, in, out, break)
  BY <1>12, RowsSame, WritesSame DEF T!UpdateRead, TP!UpdateRead
<1>13. T!Handle(h) => TP!Handle(h)
  BY <1>1, <1>2, <1>3, <1>4, <1>5, <1>6, <1>7, <1>8, <1>9, <1>10, <1>11, <1>12, RowsSame
     DEF T!Handle, TP!Handle
<1>14. T!Tick => TP!Tick
  BY RowsSame DEF T!Tick, TP!Tick
<1> QED
  BY <1>13, <1>14 DEF T!Next, TP!Next, shift, TP!vars

(* What holds of the clock in every scene. *)
ClockInv == TP!TypeInv /\ TP!ShiftInv(FirstHandler) /\ TP!HoursInv(FirstHandler)

LEMMA ClockInvariant == MCSpec => []ClockInv
<1>1. ASSUME MCInit PROVE ClockInv
  <2>1. TP!Init
    BY <1>1, RowsSame DEF MCInit, T!Init, TP!Init
  <2> QED
    BY <2>1, ClockSized, TP!TypeInit, TP!ShiftInit, TP!HoursInit DEF ClockInv
<1>2. ASSUME ClockInv, [MCNext]_<<vars, shift, scene>> PROVE ClockInv'
  <2>1. [T!Next]_shift
    BY <1>2 DEF MCNext, OrdersNext, ClockNext
  <2>2. [TP!Next]_(TP!vars)
    BY <2>1, ClockNextSame
  <2>3. TP!TypeInv'
    BY <1>2, <2>2, ClockSized, TP!TypeStep DEF ClockInv
  <2>4. TP!ShiftInv(FirstHandler)'
    BY <1>2, <2>2, TP!ShiftStep DEF ClockInv
  <2>5. TP!HoursInv(FirstHandler)'
    BY <1>2, <2>2, <2>3, ClockSized, TP!HoursStep DEF ClockInv
  <2> QED
    BY <2>3, <2>4, <2>5 DEF ClockInv
<1> QED
  BY <1>1, <1>2, PTL DEF MCSpec

LEMMA ClockMeans ==
  /\ TP!TypeOK => T!TypeOK
  /\ TP!Allocated => T!Allocated
  /\ TP!PaidWithinThresholds => T!PaidWithinThresholds
<1>1. TP!TypeOK => T!TypeOK
  BY RowsSame DEF TP!TypeOK, T!TypeOK
<1>2. T!Quiet <=> TP!Quiet
  BY DEF T!Quiet, TP!Quiet
<1>3. TP!Allocated => T!Allocated
  BY <1>2 DEF T!Allocated, TP!Allocated
<1>4. \A e : T!WeekOf(e) = TP!WeekOf(e)
  BY RowsSame DEF T!WeekOf, TP!WeekOf
<1>5. \A a, b : T!Overtime(a, b) = TP!Overtime(a, b)
  BY RowsSame DEF T!Overtime, TP!Overtime
<1>6. \A g : T!SumFunction(g) = TP!SumFunction(g)
  BY SumsSame DEF T!SumFunction, TP!SumFunction
<1>7. ASSUME NEW S PROVE T!Timesheet(S) = TP!Timesheet(S)
  <2> DEFINE C == {e \in S : T!Stands(e) /\ entry[e].out # None}
             X == [w \in {T!WeekOf(e) : e \in C} |-> T!Larger(0, T!Total({e \in C : T!WeekOf(e) = w}) - 1)]
             C2 == {e \in S : TP!Stands(e) /\ entry[e].out # None}
             X2 == [w \in {TP!WeekOf(e) : e \in C2} |-> TP!Larger(0, TP!Total({e \in C2 : TP!WeekOf(e) = w}) - 1)]
  <2>1. C = C2
    BY RowsSame
  <2> HIDE DEF C, C2
  <2>2. X = X2
    BY <1>4, <2>1, RowsSame, DaysSame
  <2> HIDE DEF X, X2
  <2>3. T!Timesheet(S) = [total |-> T!Total(C), overtime |-> T!Overtime(T!Total(C) - T!RegularOf(C), T!SumFunction(X))]
    BY DEF T!Timesheet, C, X
  <2>4. TP!Timesheet(S) = [total |-> TP!Total(C2), overtime |-> TP!Overtime(TP!Total(C2) - TP!RegularOf(C2), TP!SumFunction(X2))]
    BY DEF TP!Timesheet, C2, X2
  <2> QED
    BY <1>5, <1>6, <2>1, <2>2, <2>3, <2>4, DaysSame
<1>8. TP!PaidWithinThresholds => T!PaidWithinThresholds
  BY <1>2, <1>4, <1>7, RowsSame DEF T!PaidWithinThresholds, TP!PaidWithinThresholds
<1> QED
  BY <1>1, <1>3, <1>8

(* A user has one entry running and no break in an entry that has ended.   *)
THEOREM OneShiftHere == MCSpec => []SerialOneShift
<1>1. ClockInv => SerialOneShift
  BY RowsSame DEF ClockInv, TP!ShiftInv, TP!OneShift, T!OneShift, SerialOneShift
<1> QED
  BY <1>1, ClockInvariant, PTL

(* However a user's entries are edited, removed, or left by a handler that *)
(* died, rows keep the types of their columns; so do those of jobs,        *)
(* requests and estimates.                                                 *)
THEOREM RowsStayTyped == MCSpec => []RowsTyped
<1>1. ASSUME ClockInv, ScenesInv PROVE RowsTyped
  <2>1. TP!TypeOK
    BY <1>1 DEF ClockInv, TP!TypeInv, TP!TypeOK, TP!Flight, TP!Settable
  <2> QED
    BY <1>1, <2>1, ClockMeans DEF ScenesInv, TypeInv, RowsTyped
<1> QED
  BY <1>1, ClockInvariant, ScenesInvariant, PTL

(* No day and no week of a user is paid beyond its threshold at the        *)
(* regular rate, and the hours of each entry that has ended are split.     *)
THEOREM HoursPaidHere == MCSpec => []SerialHoursPaid
<1>1. ASSUME ClockInv PROVE SerialHoursPaid
  <2>1. TP!Allocated /\ TP!PaidWithinThresholds
    BY <1>1, ClockSized, TP!AllocatedNow, TP!PaidNow DEF ClockInv
  <2> QED
    BY <2>1, ClockMeans DEF SerialHoursPaid
<1> QED
  BY <1>1, ClockInvariant, PTL
=============================================================================
