---------------------------- MODULE AllocateSearch ----------------------------
(***************************************************************************)
(* GuestMemory::allocate one iteration of its loop at a time.  The loop    *)
(* holds &mut self, so no other call reaches its ledger before it returns; *)
(* the other ledgers of the process go on.  GuestMemory takes the whole    *)
(* loop as one step, and this module shows that it may.                    *)
(***************************************************************************)
EXTENDS GuestMemory

VARIABLE search  \* ledger -> the locals of its running allocate(), or None

searchVars == <<vars, search>>

Searches == [request : Requests, purpose : Purposes, candidate : Addresses]

ASSUME NoSearchAssumption == None \notin Searches

Candidate(l) == Extent(search[l].candidate, search[l].request.bytes)

Searching(l) == search[l] # None

\* A fault: the end of the aperture is left to reserve_at.
IterationCheckByReserve(l) ==
  IF End(Candidate(l)) > MaxAddress THEN "ArithmeticOverflow"
  ELSE IF Blockers(l, Candidate(l)) = {}
    THEN ReserveCheck(l, search[l].candidate, search[l].request)
  ELSE IF AlignUpOverflows(BlockingEnd(l, Candidate(l)), search[l].request.alignment)
    THEN "ArithmeticOverflow"
  ELSE "Ok"

\* What the loop does at its candidate: return, or move past the blockers.
IterationCheck(l) ==
  IF End(Candidate(l)) > MaxAddress THEN "ArithmeticOverflow"
  ELSE IF End(Candidate(l)) > End(aperture[l]) THEN "NoSpace"
  ELSE IF Blockers(l, Candidate(l)) = {}
    THEN ReserveCheck(l, search[l].candidate, search[l].request)
  ELSE IF AlignUpOverflows(BlockingEnd(l, Candidate(l)), search[l].request.alignment)
    THEN "ArithmeticOverflow"
  ELSE "Ok"

EntryCheck(l, request) ==
  IF RequestCheck(request) # "Ok" THEN RequestCheck(request)
  ELSE IF FreeSlots(l) = {} THEN "ReservationLimit"
  ELSE IF AlignUpOverflows(aperture[l].address, request.alignment)
    THEN "ArithmeticOverflow"
  ELSE "Ok"

\* The statements before the loop.
Enter(l, request, purpose) ==
  /\ Open(l)
  /\ ~ Searching(l)
  /\ \/ Rejects("allocate", EntryCheck(l, request)) /\ UNCHANGED search
     \/ /\ EntryCheck(l, request) = "Ok"
        /\ search' = [search EXCEPT ![l] =
             [request   |-> request,
              purpose   |-> purpose,
              candidate |-> AlignUp(aperture[l].address, request.alignment)]]
        /\ UNCHANGED vars

\* A return from inside the loop with an error.
Fail(l) ==
  /\ Searching(l)
  /\ Rejects("allocate", IterationCheck(l))
  /\ search' = [search EXCEPT ![l] = None]

SkipTo(l, candidate) ==
  /\ Searching(l)
  /\ IterationCheck(l) = "Ok"
  /\ Blockers(l, Candidate(l)) # {}
  /\ search' = [search EXCEPT ![l].candidate = candidate]
  /\ UNCHANGED vars

\* A fault: the candidate moves to the start of a blocker.
SkipToBlocker(l) ==
  /\ Searching(l)
  /\ \E r \in Blockers(l, Candidate(l)) :
       SkipTo(l, AlignUp(r.extent.address, search[l].request.alignment))

\* Some(next): the candidate moves behind everything that blocks it.
Skip(l) ==
  SkipTo(l, AlignUp(BlockingEnd(l, Candidate(l)), search[l].request.alignment))

\* None: reserve_at takes the candidate.
Place(l) ==
  /\ Searching(l)
  /\ IterationCheck(l) = "Ok"
  /\ Blockers(l, Candidate(l)) = {}
  /\ Returns("allocate", "Ok")
  /\ Insert(l, search[l].candidate, search[l].request, search[l].purpose)
  /\ search' = [search EXCEPT ![l] = None]

Iterate(l) == Fail(l) \/ Skip(l) \/ Place(l)

SearchInit == Init /\ search = [l \in Ledgers |-> None]

SearchNext ==
  \E l \in Ledgers :
    \/ \E request \in Requests, purpose \in Purposes : Enter(l, request, purpose)
    \/ Iterate(l)
    \/ ~ Searching(l) /\ Call(l) /\ UNCHANGED search

\* The loop does nothing but iterate, so it takes its next iteration.
SearchSpec ==
  /\ SearchInit
  /\ [][SearchNext]_searchVars
  /\ \A l \in Ledgers : WF_searchVars(Iterate(l))

-----------------------------------------------------------------------------
(* Properties *)

\* The loop, spread over as many steps as it takes, does what allocate() does
\* in GuestMemory in one.
LoopImplementsAllocate == Spec

\* An address reserve_at would grant.
Fits(l, request, address) ==
  LET extent == Extent(address, request.bytes) IN
  /\ address % request.alignment = 0
  /\ Inside(extent, aperture[l])
  /\ Blockers(l, extent) = {}

\* While it runs, every address below the candidate has been ruled out: no
\* aligned extent of the requested length fits there.
NoFitBelowCandidate ==
  \A l \in Ledgers : Searching(l) =>
    /\ search[l].candidate % search[l].request.alignment = 0
    /\ \A a \in 0 .. search[l].candidate - 1 : ~ Fits(l, search[l].request, a)

\* "Lowest aligned first fit": what the loop places lies at the lowest address
\* that fits, and it gives up on space only when nothing fits at all.
PlacesLowestFit ==
  [][\A l \in Ledgers : (Searching(l) /\ search'[l] = None) =>
       \/ /\ outcome'.result = "Ok"
          /\ Fits(l, search[l].request, search[l].candidate)
          /\ \A a \in 0 .. search[l].candidate - 1 : ~ Fits(l, search[l].request, a)
       \/ /\ outcome'.result \in {"NoSpace", "ArithmeticOverflow"}
          /\ \A a \in Addresses : ~ Fits(l, search[l].request, a)
       \/ outcome'.result = "GenerationExhausted"]_searchVars

\* Each further iteration leaves at least one more reservation behind the
\* candidate for good: the loop runs at most once per live reservation, and
\* once more.
Passed(l) == {r \in LiveRecords(l) : End(r.extent) <= search[l].candidate}

EachSkipPassesARecord ==
  [][\A l \in Ledgers : (Searching(l) /\ search'[l] # None) =>
       \/ search'[l] = search[l] /\ Passed(l)' = Passed(l)
       \/ Passed(l) \subseteq Passed(l)' /\ Passed(l) # Passed(l)']_searchVars

\* The loop always returns.
SearchReturns == \A l \in Ledgers : Searching(l) ~> ~ Searching(l)

=============================================================================
