---------------------- MODULE MunicipalitiesProofs -------------------------
(***************************************************************************)
(* Proofs about Municipalities, for every set of municipalities, slugs,    *)
(* DANE codes, cadastral codes and requests, and any number of edits, and  *)
(* about the panel that works in one of them (AdminPanel, instance Panel). *)
(***************************************************************************)
EXTENDS Municipalities, FiniteSetTheorems, SequenceTheorems, WellFoundedInduction, TLAPS

-----------------------------------------------------------------------------
(* The requests *)

\* Every request but c is as it was.
Others(c) == \A d \in Clients \ {c} : call'[d] = call[d]

Places == {"idle", "data", "taken", "insert", "update", "load", "store"}

\* A request that is not running.
LEMMA IdleIs ==
    /\ Idle \in Call
    /\ Idle.at = "idle" /\ Idle.id = Null /\ Idle.read = Null /\ Idle.new = Null
    /\ Idle.codes = {}
  BY DEF Idle, Call

\* A request becomes another one.
LEMMA CallIs ==
    ASSUME TypeOK, NEW c \in Clients, NEW e \in Call, call' = [call EXCEPT ![c] = e]
    PROVE  call' \in [Clients -> Call] /\ Others(c) /\ call'[c] = e
  BY DEF TypeOK, Others

\* A request goes on, and keeps what it found.
LEMMA GoesOn ==
    ASSUME TypeOK, NEW c \in Clients, NEW place \in Places,
           call' = [call EXCEPT ![c].at = place]
    PROVE  /\ call' \in [Clients -> Call] /\ Others(c)
           /\ call'[c].at = place /\ call'[c].id = call[c].id
           /\ call'[c].read = call[c].read /\ call'[c].new = call[c].new
           /\ call'[c].codes = call[c].codes
  <1>1. PICK f \in Call : f = call[c]
    BY DEF TypeOK
  <1>2. call' = [call EXCEPT ![c] = [f EXCEPT !.at = place]]
    BY <1>1 DEF TypeOK
  <1>3. PICK e \in Call : /\ e = [f EXCEPT !.at = place] /\ e.at = place
                          /\ e.id = f.id /\ e.read = f.read /\ e.new = f.new
                          /\ e.codes = f.codes
    <2>1. [f EXCEPT !.at = place] \in Call
      BY DEF Call, Places
    <2>2. /\ [f EXCEPT !.at = place].at = place
          /\ [f EXCEPT !.at = place].id = f.id
          /\ [f EXCEPT !.at = place].read = f.read
          /\ [f EXCEPT !.at = place].new = f.new
          /\ [f EXCEPT !.at = place].codes = f.codes
      BY DEF Call
    <2>3. QED
      BY <2>1, <2>2
  <1>4. QED
    BY <1>1, <1>2, <1>3, CallIs

\* What a creation, an edit and a load are when they arrive.
LEMMA CreationIs ==
    ASSUME TypeOK, NEW c \in Clients, NEW names \in Names, AskToCreate(c, names)
    PROVE  /\ call' \in [Clients -> Call] /\ Others(c)
           /\ call'[c].at = "taken" /\ call'[c].new = names
           /\ call'[c].id = Null /\ call'[c].read = Null
           /\ UNCHANGED <<town, loaded, owner, writer, had, crossing, edits>>
  <1>1. PICK o \in Call : o = Idle /\ o.id = Null /\ o.read = Null
    BY IdleIs
  <1>2. PICK e \in Call : /\ e = [o EXCEPT !.at = "taken", !.new = names]
                          /\ e.at = "taken" /\ e.new = names
                          /\ e.id = o.id /\ e.read = o.read
    <2>1. [o EXCEPT !.at = "taken", !.new = names] \in Call
      BY DEF Call
    <2>2. /\ [o EXCEPT !.at = "taken", !.new = names].at = "taken"
          /\ [o EXCEPT !.at = "taken", !.new = names].new = names
          /\ [o EXCEPT !.at = "taken", !.new = names].id = o.id
          /\ [o EXCEPT !.at = "taken", !.new = names].read = o.read
      BY DEF Call
    <2>3. QED
      BY <2>1, <2>2
  <1>3. call' = [call EXCEPT ![c] = e]
    BY <1>1, <1>2 DEF AskToCreate
  <1>4. UNCHANGED <<town, loaded, owner, writer, had, crossing, edits>>
    BY Zenon DEF AskToCreate
  <1>5. QED
    BY <1>1, <1>2, <1>3, <1>4, CallIs

LEMMA EditIs ==
    ASSUME MunicipalitiesAssumption, TypeOK, NEW c \in Clients, NEW s \in Slugs,
           NEW names \in Names, AskToEdit(c, s, names)
    PROVE  /\ call' \in [Clients -> Call] /\ Others(c)
           /\ call'[c].at = "data" /\ call'[c].new = names
           /\ call'[c].id \in Registered /\ call'[c].id # Null /\ call'[c].read # Null
           /\ UNCHANGED <<town, loaded, owner, writer, had, crossing>>
           /\ edits' \in 0 .. MaxEdits
  <1>1. PICK m \in Addressed(s) :
           call' = [call EXCEPT ![c] = [Idle EXCEPT !.at = "data", !.id = m,
                                                    !.read = town[m], !.new = names]]
    BY Zenon DEF AskToEdit
  <1>2. m \in Registered /\ m \in Towns
    BY DEF Addressed, Registered
  <1>3. PICK n \in Names : n = town[m]
    BY <1>2 DEF TypeOK, Registered
  <1>4. m # Null /\ n # Null
    BY <1>2, MunicipalitiesAssumption DEF MunicipalitiesAssumption, Names, Registered
  <1>5. PICK o \in Call : o = Idle
    BY IdleIs
  <1>6. PICK e \in Call : /\ e = [o EXCEPT !.at = "data", !.id = m, !.read = n, !.new = names]
                          /\ e.at = "data" /\ e.id = m /\ e.read = n /\ e.new = names
    <2>1. [o EXCEPT !.at = "data", !.id = m, !.read = n, !.new = names] \in Call
      BY <1>2 DEF Call
    <2>2. /\ [o EXCEPT !.at = "data", !.id = m, !.read = n, !.new = names].at = "data"
          /\ [o EXCEPT !.at = "data", !.id = m, !.read = n, !.new = names].id = m
          /\ [o EXCEPT !.at = "data", !.id = m, !.read = n, !.new = names].read = n
          /\ [o EXCEPT !.at = "data", !.id = m, !.read = n, !.new = names].new = names
      BY DEF Call
    <2>3. QED
      BY <2>1, <2>2
  <1>7. call' = [call EXCEPT ![c] = e]
    BY <1>1, <1>3, <1>5, <1>6, Zenon
  <1>8. UNCHANGED <<town, loaded, owner, writer, had, crossing>>
    BY Zenon DEF AskToEdit
  <1>9. edits' \in 0 .. MaxEdits
    <2>1. edits < MaxEdits /\ edits' = edits + 1
      BY Zenon DEF AskToEdit
    <2>2. QED
      BY <2>1, MunicipalitiesAssumption DEF MunicipalitiesAssumption, TypeOK
  <1>10. call' \in [Clients -> Call] /\ Others(c) /\ call'[c] = e
    BY <1>7, CallIs
  <1>11. QED
    BY <1>2, <1>4, <1>6, <1>8, <1>9, <1>10

LEMMA LoadIs ==
    ASSUME MunicipalitiesAssumption, TypeOK, HadIsTheirs, NEW c \in Clients, NEW s \in Slugs,
           NEW codes \in SUBSET Codes, AskToLoad(c, s, codes)
    PROVE  /\ call' \in [Clients -> Call] /\ Others(c)
           /\ call'[c].at = "load" /\ call'[c].codes = codes
           /\ call'[c].id \in Registered /\ call'[c].id # Null /\ call'[c].read # Null
           /\ \A k \in codes : call'[c].id \in had[Prefix[k]]
           /\ UNCHANGED <<town, loaded, owner, writer, had, crossing, edits>>
  <1>1. PICK m \in Addressed(s) :
           /\ \A k \in codes : Prefix[k] = town[m].dane
           /\ call' = [call EXCEPT ![c] = [Idle EXCEPT !.at = "load", !.id = m,
                                                       !.read = town[m], !.codes = codes]]
    BY Zenon DEF AskToLoad
  <1>2. m \in Registered /\ m \in Towns
    BY DEF Addressed, Registered
  <1>3. PICK n \in Names : n = town[m]
    BY <1>2 DEF TypeOK, Registered
  <1>4. m # Null /\ n # Null
    BY <1>2, MunicipalitiesAssumption DEF MunicipalitiesAssumption, Names, Registered
  <1>5. PICK o \in Call : o = Idle
    BY IdleIs
  <1>6. PICK e \in Call : /\ e = [o EXCEPT !.at = "load", !.id = m, !.read = n, !.codes = codes]
                          /\ e.at = "load" /\ e.id = m /\ e.read = n /\ e.codes = codes
    <2>1. [o EXCEPT !.at = "load", !.id = m, !.read = n, !.codes = codes] \in Call
      BY <1>2 DEF Call
    <2>2. /\ [o EXCEPT !.at = "load", !.id = m, !.read = n, !.codes = codes].at = "load"
          /\ [o EXCEPT !.at = "load", !.id = m, !.read = n, !.codes = codes].id = m
          /\ [o EXCEPT !.at = "load", !.id = m, !.read = n, !.codes = codes].read = n
          /\ [o EXCEPT !.at = "load", !.id = m, !.read = n, !.codes = codes].codes = codes
      BY DEF Call
    <2>3. QED
      BY <2>1, <2>2
  <1>7. call' = [call EXCEPT ![c] = e]
    BY <1>1, <1>3, <1>5, <1>6, Zenon
  <1>8. UNCHANGED <<town, loaded, owner, writer, had, crossing, edits>>
    BY Zenon DEF AskToLoad
  <1>9. \A k \in codes : m \in had[Prefix[k]]
    BY <1>1, <1>2 DEF HadIsTheirs
  <1>10. call' \in [Clients -> Call] /\ Others(c) /\ call'[c] = e
    BY <1>7, CallIs
  <1>11. QED
    BY <1>2, <1>4, <1>6, <1>8, <1>9, <1>10

-----------------------------------------------------------------------------
(* What the steps do *)

\* The clauses of CallsFound and of LoadsFound for one request.
Found(c) ==
    LET e == call[c]
    IN  /\ e.id = Null <=> e.read = Null
        /\ e.id # Null => e.id \in Registered
        /\ e.at \in {"data", "update", "load", "store"} => e.id # Null
        /\ e.at = "insert" => e.id = Null
        /\ e.at \in {"data", "taken", "insert", "update"} => e.new # Null
        /\ e.at \in {"taken", "update"} /\ e.id \in loaded => c \in crossing
        /\ e.at \in {"load", "store"} => \A k \in e.codes : e.id \in had[Prefix[k]]

LEMMA FoundIs == CallsFound /\ LoadsFound <=> \A c \in Clients : Found(c)
  BY Zenon DEF CallsFound, LoadsFound, Found

LEMMA FoundIsNext == CallsFound' /\ LoadsFound' <=> \A c \in Clients : Found(c)'
  BY Zenon DEF CallsFound, LoadsFound, Found

\* A step of a request that reads: it goes on, with what it found, or ends.
Reads(c) ==
    /\ call' \in [Clients -> Call] /\ Others(c)
    /\ UNCHANGED <<town, loaded, owner, writer, had>>
    /\ edits' \in 0 .. MaxEdits
    /\ \/ crossing' = crossing \ {c} /\ call'[c] = Idle
       \/ crossing' = crossing
    /\ Found(c)'

LEMMA ReadsPreserve ==
    ASSUME IInv, NEW c \in Clients, Reads(c)
    PROVE  IInv'
  <1>0. /\ TypeOK /\ HadIsTheirs /\ CallsFound /\ LoadsFound /\ Distinct /\ CodesOfTheirTown
        /\ OwnRowsOnly
    BY DEF IInv
  <1>1. TypeOK'
    BY <1>0 DEF TypeOK, Reads
  <1>2. HadIsTheirs' /\ Distinct' /\ CodesOfTheirTown' /\ OwnRowsOnly'
    BY <1>0 DEF Reads, HadIsTheirs, Distinct, CodesOfTheirTown, OwnRowsOnly, Registered
  <1>3. \A d \in Clients \ {c} : Found(d)'
    <2>1. \A d \in Clients \ {c} : Found(d)
      BY <1>0, FoundIs
    <2>2. Registered' = Registered
      BY DEF Reads, Registered
    <2>3. QED
      BY <2>1, <2>2 DEF Reads, Others, Found
  <1>4. CallsFound' /\ LoadsFound'
    BY <1>3, FoundIsNext DEF Reads
  <1>5. \A d \in Danes : IsFiniteSet(had'[d])
    BY DEF Reads, IInv
  <1>6. QED
    BY <1>1, <1>2, <1>4, <1>5 DEF IInv

\* A request that ends reads.
LEMMA EndsReads ==
    ASSUME IInv, NEW c \in Clients, Refuse(c)
    PROVE  Reads(c)
  <1>0. TypeOK
    BY DEF IInv
  <1>1. call' = [call EXCEPT ![c] = Idle] /\ crossing' = crossing \ {c}
    BY DEF Refuse, Done
  <1>2. call' \in [Clients -> Call] /\ Others(c) /\ call'[c] = Idle
    BY <1>0, <1>1, IdleIs, CallIs
  <1>3. Found(c)'
    BY <1>2, IdleIs DEF Found
  <1>4. edits' \in 0 .. MaxEdits
    BY <1>0 DEF Refuse, TypeOK
  <1>5. QED
    BY <1>1, <1>2, <1>3, <1>4 DEF Refuse, Reads

LEMMA AskToCreateReads ==
    ASSUME IInv, NEW c \in Clients, NEW names \in Names, AskToCreate(c, names),
           MunicipalitiesAssumption
    PROVE  Reads(c)
  <1>0. TypeOK
    BY DEF IInv
  <1>1. /\ call' \in [Clients -> Call] /\ Others(c)
        /\ call'[c].at = "taken" /\ call'[c].new = names
        /\ call'[c].id = Null /\ call'[c].read = Null
        /\ UNCHANGED <<town, loaded, owner, writer, had, crossing, edits>>
    BY <1>0, CreationIs
  <1>2. names # Null /\ Null \notin loaded
    BY <1>0, MunicipalitiesAssumption DEF MunicipalitiesAssumption, Names, TypeOK
  <1>3. Found(c)'
    BY <1>1, <1>2 DEF Found
  <1>4. edits' \in 0 .. MaxEdits
    BY <1>0, <1>1 DEF TypeOK
  <1>5. QED
    BY <1>1, <1>3, <1>4 DEF Reads

LEMMA AskToEditReads ==
    ASSUME IInv, NEW c \in Clients, NEW s \in Slugs, NEW names \in Names,
           AskToEdit(c, s, names), MunicipalitiesAssumption
    PROVE  Reads(c)
  <1>0. TypeOK
    BY DEF IInv
  <1>1. /\ call' \in [Clients -> Call] /\ Others(c)
        /\ call'[c].at = "data" /\ call'[c].new = names
        /\ call'[c].id \in Registered /\ call'[c].id # Null /\ call'[c].read # Null
        /\ UNCHANGED <<town, loaded, owner, writer, had, crossing>>
        /\ edits' \in 0 .. MaxEdits
    BY <1>0, EditIs
  <1>2. names # Null
    BY MunicipalitiesAssumption DEF MunicipalitiesAssumption, Names
  <1>3. Registered' = Registered
    BY <1>1 DEF Registered
  <1>4. Found(c)'
    BY <1>1, <1>2, <1>3 DEF Found
  <1>5. QED
    BY <1>1, <1>4 DEF Reads

LEMMA AskToLoadReads ==
    ASSUME IInv, NEW c \in Clients, NEW s \in Slugs, NEW codes \in SUBSET Codes,
           AskToLoad(c, s, codes), MunicipalitiesAssumption
    PROVE  Reads(c)
  <1>0. TypeOK /\ HadIsTheirs
    BY DEF IInv
  <1>1. /\ call' \in [Clients -> Call] /\ Others(c)
        /\ call'[c].at = "load" /\ call'[c].codes = codes
        /\ call'[c].id \in Registered /\ call'[c].id # Null /\ call'[c].read # Null
        /\ \A k \in codes : call'[c].id \in had[Prefix[k]]
        /\ UNCHANGED <<town, loaded, owner, writer, had, crossing, edits>>
    BY <1>0, LoadIs
  <1>2. Registered' = Registered
    BY <1>1 DEF Registered
  <1>3. Found(c)'
    BY <1>1, <1>2 DEF Found
  <1>4. edits' \in 0 .. MaxEdits
    BY <1>0, <1>1 DEF TypeOK
  <1>5. QED
    BY <1>1, <1>3, <1>4 DEF Reads

\* A request that goes on to a place where what it found is enough.
LEMMA OnReads ==
    ASSUME IInv, NEW c \in Clients, NEW place \in Places,
           call' = [call EXCEPT ![c].at = place],
           UNCHANGED <<town, loaded, owner, writer, had, crossing, edits>>,
           place \in {"update", "store"} => call[c].id # Null,
           place = "insert" => call[c].id = Null,
           place \in {"taken", "insert", "update"} => call[c].new # Null,
           place \in {"taken", "update"} /\ call[c].id \in loaded => c \in crossing,
           place = "store" => call[c].at = "load",
           place \notin {"data", "load"}
    PROVE  Reads(c)
  <1>0. TypeOK /\ CallsFound /\ LoadsFound
    BY DEF IInv
  <1>1. /\ call' \in [Clients -> Call] /\ Others(c)
        /\ call'[c].at = place /\ call'[c].id = call[c].id
        /\ call'[c].read = call[c].read /\ call'[c].new = call[c].new
        /\ call'[c].codes = call[c].codes
    BY <1>0, GoesOn
  <1>2. Registered' = Registered
    BY DEF Registered
  <1>3. Found(c)
    BY <1>0, FoundIs
  <1>4. Found(c)'
    BY <1>1, <1>2, <1>3 DEF Found
  <1>5. edits' \in 0 .. MaxEdits
    BY <1>0 DEF TypeOK
  <1>6. QED
    BY <1>1, <1>4, <1>5 DEF Reads

LEMMA LookForDataReads ==
    ASSUME IInv, NEW c \in Clients, LookForData(c)
    PROVE  Reads(c)
  <1>1. call[c].at = "data"
    BY Zenon DEF LookForData
  <1>2. \/ Refuse(c)
        \/ /\ call[c].id \notin loaded
           /\ call' = [call EXCEPT ![c].at = "taken"]
           /\ UNCHANGED <<town, loaded, owner, writer, had, crossing, edits>>
    BY Zenon DEF LookForData
  <1>3. CASE Refuse(c)
    BY <1>3, EndsReads
  <1>4. CASE /\ call[c].id \notin loaded
             /\ call' = [call EXCEPT ![c].at = "taken"]
             /\ UNCHANGED <<town, loaded, owner, writer, had, crossing, edits>>
    <2>1. call[c].new # Null
      BY <1>1 DEF IInv, CallsFound
    <2>2. QED
      BY <1>4, <2>1, OnReads DEF Places
  <1>5. QED
    BY <1>2, <1>3, <1>4

LEMMA LookIfTakenReads ==
    ASSUME IInv, NEW c \in Clients, LookIfTaken(c)
    PROVE  Reads(c)
  <1>1. call[c].at = "taken"
    BY Zenon DEF LookIfTaken
  <1>2. \/ Refuse(c)
        \/ /\ call' = [call EXCEPT ![c].at = IF call[c].read = Null THEN "insert"
                                                                    ELSE "update"]
           /\ UNCHANGED <<town, loaded, owner, writer, had, crossing, edits>>
    BY Zenon DEF LookIfTaken
  <1>3. CASE Refuse(c)
    BY <1>3, EndsReads
  <1>4. CASE /\ call' = [call EXCEPT ![c].at = IF call[c].read = Null THEN "insert"
                                                                      ELSE "update"]
             /\ UNCHANGED <<town, loaded, owner, writer, had, crossing, edits>>
    <2>1. /\ call[c].new # Null
          /\ call[c].id = Null <=> call[c].read = Null
          /\ call[c].id \in loaded => c \in crossing
      BY <1>1 DEF IInv, CallsFound
    <2>2. CASE call[c].read = Null
      <3>1. call' = [call EXCEPT ![c].at = "insert"]
        BY <1>4, <2>2, Zenon
      <3>2. QED
        BY <1>4, <2>1, <2>2, <3>1, OnReads DEF Places
    <2>3. CASE call[c].read # Null
      <3>1. call' = [call EXCEPT ![c].at = "update"]
        BY <1>4, <2>3, Zenon
      <3>2. QED
        BY <1>4, <2>1, <2>3, <3>1, OnReads DEF Places
    <2>4. QED
      BY <2>2, <2>3
  <1>5. QED
    BY <1>2, <1>3, <1>4

LEMMA LookForForeignReads ==
    ASSUME IInv, NEW c \in Clients, LookForForeign(c)
    PROVE  Reads(c)
  <1>1. call[c].at = "load"
    BY Zenon DEF LookForForeign
  <1>2. \/ Refuse(c)
        \/ /\ call' = [call EXCEPT ![c].at = "store"]
           /\ UNCHANGED <<town, loaded, owner, writer, had, crossing, edits>>
    BY Zenon DEF LookForForeign
  <1>3. CASE Refuse(c)
    BY <1>3, EndsReads
  <1>4. CASE /\ call' = [call EXCEPT ![c].at = "store"]
             /\ UNCHANGED <<town, loaded, owner, writer, had, crossing, edits>>
    <2>1. call[c].id # Null
      BY <1>1 DEF IInv, CallsFound
    <2>2. QED
      BY <1>1, <1>4, <2>1, OnReads DEF Places
  <1>5. QED
    BY <1>2, <1>3, <1>4

-----------------------------------------------------------------------------
(* What the writes do *)

\* A municipality more that has had a code leaves the others that have.
LEMMA HadGrows ==
    ASSUME MunicipalitiesAssumption, IInv, NEW m \in Towns, NEW d \in Danes,
           had' = [had EXCEPT ![d] = @ \cup {m}]
    PROVE  /\ had' \in [Danes -> SUBSET Towns]
           /\ m \in had'[d]
           /\ \A e \in Danes : /\ IsFiniteSet(had'[e]) /\ had[e] \subseteq had'[e]
                               /\ Cardinality(had[e]) > 1 => Cardinality(had'[e]) > 1
  <1>0. had \in [Danes -> SUBSET Towns] /\ \A e \in Danes : IsFiniteSet(had[e])
    BY DEF IInv, TypeOK
  <1>1. /\ had' \in [Danes -> SUBSET Towns] /\ m \in had'[d]
        /\ \A e \in Danes : had'[e] = IF e = d THEN had[e] \cup {m} ELSE had[e]
    BY <1>0
  <1>2. ASSUME NEW e \in Danes
        PROVE  /\ IsFiniteSet(had'[e]) /\ had[e] \subseteq had'[e]
               /\ Cardinality(had[e]) > 1 => Cardinality(had'[e]) > 1
    <2>1. IsFiniteSet(had[e] \cup {m})
      BY <1>0, FS_AddElement
    <2>2. IsFiniteSet(had'[e]) /\ had[e] \subseteq had'[e]
      BY <1>0, <1>1, <2>1
    <2>3. Cardinality(had[e]) <= Cardinality(had'[e])
      BY <2>2, FS_Subset
    <2>4. Cardinality(had[e]) \in Nat /\ Cardinality(had'[e]) \in Nat
      BY <1>0, <2>2, FS_CardinalityType
    <2>5. QED
      BY <2>2, <2>3, <2>4
  <1>3. QED
    BY <1>1, <1>2

\* The write of a creation or of an edit that conflicts with no other.
LEMMA WritePreserves ==
    ASSUME MunicipalitiesAssumption, IInv, NEW c \in Clients, NEW m \in Towns,
           NEW names \in Names, ~Conflict(m, names), Write(c, m, names)
    PROVE  IInv'
  <1>0. /\ TypeOK /\ HadIsTheirs /\ CallsFound /\ LoadsFound /\ Distinct /\ CodesOfTheirTown
        /\ OwnRowsOnly
    BY DEF IInv
  <1>1. /\ town' = [town EXCEPT ![m] = names]
        /\ had' = [had EXCEPT ![names.dane] = @ \cup {m}]
        /\ UNCHANGED <<loaded, owner, writer, edits>>
        /\ call' = [call EXCEPT ![c] = Idle] /\ crossing' = crossing \ {c}
    BY Zenon DEF Write, Done
  <1>2. call' \in [Clients -> Call] /\ Others(c) /\ call'[c] = Idle
    BY <1>0, <1>1, IdleIs, CallIs
  <1>3. names.dane \in Danes
    BY DEF Names
  <1>4. /\ had' \in [Danes -> SUBSET Towns] /\ m \in had'[names.dane]
        /\ \A e \in Danes : /\ IsFiniteSet(had'[e]) /\ had[e] \subseteq had'[e]
                            /\ Cardinality(had[e]) > 1 => Cardinality(had'[e]) > 1
    BY <1>1, <1>3, HadGrows
  <1>5. /\ town' \in [Towns -> Names \cup {Null}] /\ town'[m] = names
        /\ \A n \in Towns \ {m} : town'[n] = town[n]
    BY <1>0, <1>1 DEF TypeOK
  <1>6. names # Null
    BY MunicipalitiesAssumption DEF MunicipalitiesAssumption, Names
  <1>7. Registered' = Registered \cup {m}
    BY <1>5, <1>6 DEF Registered
  <1>8. \A k \in Codes : Prefix[k] \in Danes
    BY MunicipalitiesAssumption DEF MunicipalitiesAssumption
  <1>9. TypeOK'
    BY <1>0, <1>1, <1>2, <1>4, <1>5 DEF TypeOK
  <1>10. HadIsTheirs'
    <2>1. loaded' \subseteq Registered'
      BY <1>0, <1>1, <1>7 DEF HadIsTheirs
    <2>2. ASSUME NEW n \in Registered' PROVE n \in had'[town'[n].dane]
      <3>1. CASE n = m
        BY <1>4, <1>5, <3>1
      <3>2. CASE n # m
        <4>1. n \in Registered /\ n \in Towns /\ town'[n] = town[n]
          BY <1>5, <1>7, <3>2 DEF Registered
        <4>2. town[n] \in Names
          BY <1>0, <4>1 DEF TypeOK, Registered
        <4>3. n \in had[town[n].dane] /\ town[n].dane \in Danes
          BY <1>0, <4>1, <4>2 DEF HadIsTheirs, Names
        <4>4. QED
          BY <1>4, <4>1, <4>3
      <3>3. QED
        BY <3>1, <3>2
    <2>3. QED
      BY <2>1, <2>2 DEF HadIsTheirs
  <1>11. \A d \in Clients : Found(d)'
    <2>1. Found(c)'
      BY <1>2, IdleIs DEF Found
    <2>2. ASSUME NEW d \in Clients \ {c} PROVE Found(d)'
      <3>1. Found(d) /\ call'[d] = call[d] /\ call[d].codes \subseteq Codes
        BY <1>0, <1>2, FoundIs DEF Others, TypeOK, Call
      <3>2. ASSUME NEW k \in call[d].codes, call[d].at \in {"load", "store"}
            PROVE  call[d].id \in had'[Prefix[k]]
        BY <1>4, <1>8, <3>1, <3>2 DEF Found
      <3>3. QED
        BY <1>1, <1>7, <3>1, <3>2 DEF Found
    <2>3. QED
      BY <2>1, <2>2
  <1>12. Distinct'
    <2>1. \A n \in Registered : n # m => /\ town[n].slug # names.slug
                                         /\ town[n].dane # names.dane
      BY DEF Conflict
    <2>2. \A n \in Registered : n # m => town'[n] = town[n]
      BY <1>5 DEF Registered
    <2>3. QED
      BY <1>0, <1>5, <1>7, <2>1, <2>2 DEF Distinct
  <1>13. CodesOfTheirTown'
    BY <1>0, <1>1, <1>4, <1>8 DEF CodesOfTheirTown
  <1>14. OwnRowsOnly'
    BY <1>0, <1>1, <1>4, <1>8 DEF OwnRowsOnly
  <1>15. CallsFound' /\ LoadsFound'
    BY <1>11, FoundIsNext
  <1>16. QED
    BY <1>4, <1>9, <1>10, <1>12, <1>13, <1>14, <1>15 DEF IInv

LEMMA InsertPreserves ==
    ASSUME MunicipalitiesAssumption, IInv, NEW c \in Clients, Insert(c)
    PROVE  IInv'
  <1>0. TypeOK /\ call[c].at = "insert"
    BY DEF IInv, Insert
  <1>1. CASE Refuse(c)
    BY <1>1, EndsReads, ReadsPreserve
  <1>2. CASE /\ ~Conflict(Null, call[c].new)
             /\ \E m \in Towns \ Registered : Write(c, m, call[c].new)
    <2>1. PICK m \in Towns \ Registered : Write(c, m, call[c].new)
      BY <1>2
    <2>2. call[c].new \in Names
      BY <1>0 DEF IInv, CallsFound, TypeOK, Call
    <2>3. ~Conflict(m, call[c].new)
      BY <1>2, <2>1, MunicipalitiesAssumption
      DEF MunicipalitiesAssumption, Conflict, Registered
    <2>4. QED
      BY <2>1, <2>2, <2>3, WritePreserves
  <1>3. QED
    BY <1>1, <1>2 DEF Insert

\* What an update writes.
UpdatedOf(e) ==
    [slug |-> IF e.new.slug # e.read.slug THEN e.new.slug ELSE town[e.id].slug,
     dane |-> IF e.new.dane # e.read.dane THEN e.new.dane ELSE town[e.id].dane]

LEMMA UpdateIs ==
    ASSUME IInv, NEW c \in Clients, Update(c)
    PROVE  /\ call[c].at = "update" /\ call[c].id \in Registered
           /\ UpdatedOf(call[c]) \in Names
           /\ \/ Refuse(c)
              \/ /\ ~Conflict(call[c].id, UpdatedOf(call[c]))
                 /\ Write(c, call[c].id, UpdatedOf(call[c]))
  <1>1. call[c].at = "update"
    BY Zenon DEF Update
  <1>2. /\ call[c].id \in Registered /\ call[c].new \in Names
        /\ town[call[c].id] \in Names
    BY <1>1 DEF IInv, CallsFound, TypeOK, Call, Registered
  <1>3. UpdatedOf(call[c]) \in Names
    BY <1>2 DEF UpdatedOf, Names
  <1>4. \/ Refuse(c)
        \/ /\ ~Conflict(call[c].id, UpdatedOf(call[c]))
           /\ Write(c, call[c].id, UpdatedOf(call[c]))
    BY Zenon DEF Update, UpdatedOf
  <1>5. QED
    BY <1>1, <1>2, <1>3, <1>4

LEMMA UpdatePreserves ==
    ASSUME MunicipalitiesAssumption, IInv, NEW c \in Clients, Update(c)
    PROVE  IInv'
  <1>1. CASE Refuse(c)
    BY <1>1, EndsReads, ReadsPreserve
  <1>2. CASE /\ ~Conflict(call[c].id, UpdatedOf(call[c]))
             /\ Write(c, call[c].id, UpdatedOf(call[c]))
    <2>1. call[c].id \in Towns /\ UpdatedOf(call[c]) \in Names
      BY UpdateIs DEF Registered
    <2>2. QED
      BY <1>2, <2>1, WritePreserves
  <1>3. QED
    BY <1>1, <1>2, UpdateIs

\* Two municipalities that have had a code are more than one.
LEMMA TwoAreMany ==
    ASSUME NEW S, IsFiniteSet(S), NEW m \in S, NEW n \in S, m # n
    PROVE  Cardinality(S) > 1
  <1>1. IsFiniteSet(S \ {m}) /\ Cardinality(S \ {m}) = Cardinality(S) - 1
    BY FS_RemoveElement
  <1>2. Cardinality(S \ {m}) # 0
    BY <1>1, FS_EmptySet
  <1>3. Cardinality(S) \in Nat /\ Cardinality(S \ {m}) \in Nat
    BY <1>1, FS_CardinalityType
  <1>4. QED
    BY <1>1, <1>2, <1>3

LEMMA StorePreserves ==
    ASSUME MunicipalitiesAssumption, IInv, NEW c \in Clients, Store(c)
    PROVE  IInv'
  <1>0. /\ TypeOK /\ HadIsTheirs /\ CallsFound /\ LoadsFound /\ Distinct /\ CodesOfTheirTown
        /\ OwnRowsOnly
    BY DEF IInv
  <1> DEFINE m == call[c].id
             codes == call[c].codes
  <1>1. /\ call[c].at = "store"
        /\ owner' = [k \in Codes |-> IF k \in codes /\ owner[k] = Null THEN m ELSE owner[k]]
        /\ writer' = [k \in Codes |-> IF k \in codes THEN m ELSE writer[k]]
        /\ loaded' = loaded \cup {m}
        /\ crossing' = (IF m \in loaded THEN crossing
                        ELSE crossing \cup {d \in Clients :
                                              /\ call[d].id = m
                                              /\ call[d].at \in {"taken", "update"}})
        /\ call' = [call EXCEPT ![c] = Idle]
        /\ UNCHANGED <<town, had, edits>>
    BY Zenon DEF Store
  <1>2. call' \in [Clients -> Call] /\ Others(c) /\ call'[c] = Idle
    BY <1>0, <1>1, IdleIs, CallIs
  <1>3. /\ m \in Registered /\ m \in Towns /\ codes \subseteq Codes
        /\ \A k \in codes : m \in had[Prefix[k]]
    BY <1>0, <1>1 DEF CallsFound, LoadsFound, TypeOK, Call, Registered
  <1>4. Registered' = Registered
    BY <1>1 DEF Registered
  <1>5. \A k \in Codes : Prefix[k] \in Danes /\ IsFiniteSet(had[Prefix[k]])
    BY MunicipalitiesAssumption DEF MunicipalitiesAssumption, IInv
  <1>6. /\ crossing \subseteq crossing' /\ crossing' \subseteq Clients
        /\ m \notin loaded => \A d \in Clients : call[d].id = m /\ call[d].at \in {"taken", "update"}
                                                    => d \in crossing'
    BY <1>0, <1>1 DEF TypeOK
  <1> HIDE DEF m, codes
  <1>7. TypeOK'
    BY <1>0, <1>1, <1>2, <1>3, <1>6 DEF TypeOK
  <1>8. HadIsTheirs'
    BY <1>0, <1>1, <1>3, <1>4 DEF HadIsTheirs
  <1>9. \A d \in Clients : Found(d)'
    <2>1. Found(c)'
      BY <1>2, IdleIs DEF Found
    <2>2. ASSUME NEW d \in Clients \ {c} PROVE Found(d)'
      <3>1. Found(d) /\ call'[d] = call[d]
        BY <1>0, <1>2, FoundIs DEF Others
      <3>2. call[d].at \in {"taken", "update"} /\ call[d].id \in loaded' => d \in crossing'
        BY <1>1, <1>6, <3>1 DEF Found
      <3>3. QED
        BY <1>1, <1>4, <3>1, <3>2 DEF Found
    <2>3. QED
      BY <2>1, <2>2
  <1>10. Distinct'
    BY <1>0, <1>1, <1>4 DEF Distinct
  <1>11. CodesOfTheirTown'
    BY <1>0, <1>1, <1>3 DEF CodesOfTheirTown
  <1>12. OwnRowsOnly'
    <2>1. ASSUME NEW k \in Codes, writer'[k] # owner'[k]
          PROVE  Cardinality(had[Prefix[k]]) > 1
      <3>1. CASE k \notin codes
        BY <1>0, <1>1, <2>1, <3>1 DEF OwnRowsOnly
      <3>2. CASE k \in codes
        <4>1. owner[k] # Null /\ owner[k] # m
          BY <1>1, <2>1, <3>2
        <4>2. owner[k] \in had[Prefix[k]] /\ m \in had[Prefix[k]]
          BY <1>0, <1>3, <3>2, <4>1 DEF CodesOfTheirTown
        <4>3. QED
          BY <1>5, <4>1, <4>2, TwoAreMany
      <3>3. QED
        BY <3>1, <3>2
    <2>2. QED
      BY <1>1, <2>1 DEF OwnRowsOnly
  <1>13. CallsFound' /\ LoadsFound'
    BY <1>9, FoundIsNext
  <1>14. \A d \in Danes : IsFiniteSet(had'[d])
    BY <1>1 DEF IInv
  <1>15. QED
    BY <1>7, <1>8, <1>10, <1>11, <1>12, <1>13, <1>14 DEF IInv

-----------------------------------------------------------------------------
(* The theorems *)

LEMMA InitHolds ==
    ASSUME MunicipalitiesAssumption, Init
    PROVE  IInv
  <1>1. TypeOK
    BY IdleIs, MunicipalitiesAssumption DEF MunicipalitiesAssumption, Init, TypeOK
  <1>2. Registered = {}
    BY DEF Init, Registered
  <1>3. HadIsTheirs /\ Distinct /\ CodesOfTheirTown /\ OwnRowsOnly
    BY <1>2 DEF Init, HadIsTheirs, Distinct, CodesOfTheirTown, OwnRowsOnly
  <1>4. CallsFound /\ LoadsFound
    <2>1. \A c \in Clients : Found(c)
      BY IdleIs DEF Init, Found
    <2>2. QED
      BY <2>1, FoundIs
  <1>5. \A d \in Danes : IsFiniteSet(had[d])
    BY FS_EmptySet DEF Init
  <1>6. QED
    BY <1>1, <1>3, <1>4, <1>5 DEF IInv

LEMMA NextPreserves ==
    ASSUME MunicipalitiesAssumption, IInv, [Next]_vars
    PROVE  IInv'
  <1>1. CASE Next
    <2>1. PICK c \in Clients :
             \/ \E names \in Names : AskToCreate(c, names)
             \/ \E s \in Slugs, names \in Names : AskToEdit(c, s, names)
             \/ \E s \in Slugs, codes \in SUBSET Codes : AskToLoad(c, s, codes)
             \/ LookForData(c) \/ LookIfTaken(c) \/ Insert(c) \/ Update(c)
             \/ LookForForeign(c) \/ Store(c) \/ Drop(c)
      BY <1>1, Zenon DEF Next
    <2>2. CASE \E names \in Names : AskToCreate(c, names)
      BY <2>2, AskToCreateReads, ReadsPreserve
    <2>3. CASE \E s \in Slugs, names \in Names : AskToEdit(c, s, names)
      BY <2>3, AskToEditReads, ReadsPreserve
    <2>4. CASE \E s \in Slugs, codes \in SUBSET Codes : AskToLoad(c, s, codes)
      BY <2>4, AskToLoadReads, ReadsPreserve
    <2>5. CASE LookForData(c)
      BY <2>5, LookForDataReads, ReadsPreserve
    <2>6. CASE LookIfTaken(c)
      BY <2>6, LookIfTakenReads, ReadsPreserve
    <2>7. CASE Insert(c)
      BY <2>7, InsertPreserves
    <2>8. CASE Update(c)
      BY <2>8, UpdatePreserves
    <2>9. CASE LookForForeign(c)
      BY <2>9, LookForForeignReads, ReadsPreserve
    <2>10. CASE Store(c)
      BY <2>10, StorePreserves
    <2>11. CASE Drop(c)
      BY <2>11, EndsReads, ReadsPreserve DEF Drop
    <2>12. QED
      BY <2>1, <2>2, <2>3, <2>4, <2>5, <2>6, <2>7, <2>8, <2>9, <2>10, <2>11
  <1>2. CASE UNCHANGED vars
    <2>1. UNCHANGED <<town, loaded, owner, writer, had, crossing, edits, call>>
      BY <1>2 DEF vars
    <2>2. TypeOK' /\ HadIsTheirs' /\ Distinct' /\ CodesOfTheirTown' /\ OwnRowsOnly'
      BY <2>1 DEF IInv, TypeOK, HadIsTheirs, Distinct, CodesOfTheirTown, OwnRowsOnly, Registered
    <2>3. CallsFound' /\ LoadsFound'
      BY <2>1 DEF IInv, CallsFound, LoadsFound, Registered
    <2>4. \A d \in Danes : IsFiniteSet(had'[d])
      BY <2>1 DEF IInv
    <2>5. QED
      BY <2>2, <2>3, <2>4 DEF IInv
  <1>3. QED
    BY <1>1, <1>2

\* What the browser run checks of the backend's municipalities on its instance
\* holds for every one (municipalities.service.ts, persist-tax-roll.ts).
THEOREM InductiveInvariant ==
    ASSUME MunicipalitiesAssumption
    PROVE  Spec => []IInv
  <1>1. Init => IInv
    BY InitHolds
  <1>2. IInv /\ [Next]_vars => IInv'
    BY NextPreserves
  <1>3. QED
    BY <1>1, <1>2, PTL DEF Spec

\* Requests that both found an address or a code free never share it
\* (municipalities.service.ts:174).
THEOREM AddressesAreDistinct ==
    ASSUME MunicipalitiesAssumption
    PROVE  Spec => []Distinct
  <1>1. IInv => Distinct
    BY DEF IInv
  <1>2. QED
    BY <1>1, InductiveInvariant, PTL

\* A stored property is of a municipality that has had the DANE code its
\* cadastral code starts with (assert-municipality.ts:8).
THEOREM PropertiesOfTheirTown ==
    ASSUME MunicipalitiesAssumption
    PROVE  Spec => []CodesOfTheirTown
  <1>1. IInv => CodesOfTheirTown
    BY DEF IInv
  <1>2. QED
    BY <1>1, InductiveInvariant, PTL

\* A load edits no property of another municipality, unless the DANE code has
\* passed from one to another (persist-tax-roll.ts:93).
THEOREM LoadsWriteTheirOwn ==
    ASSUME MunicipalitiesAssumption
    PROVE  Spec => []OwnRowsOnly
  <1>1. IInv => OwnRowsOnly
    BY DEF IInv
  <1>2. QED
    BY <1>1, InductiveInvariant, PTL

\* A step that changes the names of a municipality that has data is the write of
\* an edit that looked for data before the first load (municipalities.service.ts:59).
LEMMA FrozenStep ==
    ASSUME MunicipalitiesAssumption, IInv, [Next]_vars
    PROVE  \A m \in loaded : town'[m] # town[m] =>
              \E c \in crossing : call[c].id = m /\ call[c].at = "update"
  <1> SUFFICES ASSUME NEW m \in loaded, town'[m] # town[m]
               PROVE  \E c \in crossing : call[c].id = m /\ call[c].at = "update"
    OBVIOUS
  <1>0. town \in [Towns -> Names \cup {Null}] /\ m \in Registered /\ m \in Towns
    BY DEF IInv, TypeOK, HadIsTheirs, Registered
  <1>1. PICK c \in Clients :
           \/ \E names \in Names : AskToCreate(c, names)
           \/ \E s \in Slugs, names \in Names : AskToEdit(c, s, names)
           \/ \E s \in Slugs, codes \in SUBSET Codes : AskToLoad(c, s, codes)
           \/ LookForData(c) \/ LookIfTaken(c) \/ Insert(c) \/ Update(c)
           \/ LookForForeign(c) \/ Store(c) \/ Drop(c)
    BY Zenon DEF Next, vars
  <1>2. ~Reads(c) /\ ~Store(c)
    BY DEF Reads, Store
  <1>3. CASE Insert(c)
    <2>1. ~Refuse(c)
      BY DEF Refuse
    <2>2. PICK n \in Towns \ Registered : Write(c, n, call[c].new)
      BY <1>3, <2>1, Zenon DEF Insert
    <2>3. town' = [town EXCEPT ![n] = call[c].new]
      BY <2>2, Zenon DEF Write
    <2>4. QED
      BY <1>0, <2>2, <2>3
  <1>4. CASE Update(c)
    <2>1. ~Refuse(c)
      BY DEF Refuse
    <2>2. /\ call[c].at = "update"
          /\ Write(c, call[c].id, UpdatedOf(call[c]))
      BY <1>4, <2>1, UpdateIs
    <2>3. town' = [town EXCEPT ![call[c].id] = UpdatedOf(call[c])]
      BY <2>2, Zenon DEF Write
    <2>4. call[c].id = m
      BY <1>0, <2>3
    <2>5. c \in crossing
      BY <2>2, <2>4 DEF IInv, CallsFound
    <2>6. QED
      BY <2>2, <2>4, <2>5
  <1>5. QED
    BY <1>1, <1>2, <1>3, <1>4, AskToCreateReads, AskToEditReads, AskToLoadReads,
       LookForDataReads, LookIfTakenReads, LookForForeignReads, EndsReads DEF Drop

\* The slug and the DANE code are frozen once there is data, but for the edits
\* that cross the first load (municipalities.service.ts:59).
THEOREM FrozenOnceLoaded ==
    ASSUME MunicipalitiesAssumption
    PROVE  Spec => FrozenButCrossings
  <1>1. IInv /\ [Next]_vars
        => [\A m \in loaded : town'[m] # town[m] =>
              \E c \in crossing : call[c].id = m /\ call[c].at = "update"]_vars
    BY FrozenStep
  <1>2. QED
    BY <1>1, InductiveInvariant, PTL DEF Spec, FrozenButCrossings
-----------------------------------------------------------------------------
(* The panel of the Administrator *)

CONSTANTS Segments, Order, Submitted, Elsewhere, Saved, Sections, MaxReads, MaxMoves,
          MaxFaults

VARIABLES registered, remembered, address, shownAt, mounted, list, reads, checked,
          redirected, dialog, creating, rows, asks, moves, faults, undone

Panel == INSTANCE AdminPanel WITH Slugs <- Segments, Visited <- Saved

\* An address as the panel may find it.
PathOK(path) ==
    path \in Seq(STRING) /\ Panel!ParseAdmin(path).slug \in Segments \cup {Null}

ListT == [status : {"loading", "error", "ready"}, times : [Segments -> 0 .. 2]]

\* A list that is being read has its read on its way.
LoadComes(l, rs) == l.status = "loading" => \E r \in rs : r.for = "load"

\* A municipality that is missing was looked up, or is about to be.
LookComes(l, path, seen, rs) ==
    Panel!MissingIn(l, path) \notin {Null, seen} =>
        \E r \in rs : r.for = "look" /\ r.of = Panel!MissingIn(l, path)

\* A redirect that was asked for is the address there is.
Redirects(red, to, und) == ~und /\ red # Null => to = red

\* A call of the screen goes to its municipality, or to that of the address
\* whose event is on its way.
AsksOK(as, l, path, to, und) ==
    \A k \in as :
        /\ k.from \in Segments /\ k.from = Panel!ActiveIn(l, path)
        /\ und \/ k.to = k.from \/ (to # path /\ k.to = Panel!ParseAdmin(to).slug)

RowsOK(data, l, path, und) == data # Null /\ ~und => data = Panel!ActiveIn(l, path)

\* The form that waits, and the one creation there may be.
FormOK(box, sent) ==
    /\ box = "saving" => \E k \in sent : k.form
    /\ \A j, k \in sent : j = k

NotReserved == /\ \A s \in registered \ Elsewhere : ~Panel!Reserved(s)
               /\ \A k \in creating : ~Panel!Reserved(k.slug)

PanelInv ==
    /\ Panel!TypeOK
    /\ list \in ListT /\ PathOK(address) /\ PathOK(shownAt)
    /\ mounted => /\ LoadComes(list, reads)
                  /\ LookComes(list, shownAt, checked, reads)
                  /\ redirected = Panel!RedirectIn(list, shownAt, remembered)
                  /\ Redirects(redirected, address, undone)
    /\ ~mounted => reads = {} /\ rows = Null /\ asks = {}
    /\ AsksOK(asks, list, shownAt, address, undone)
    /\ RowsOK(rows, list, shownAt, undone)
    /\ FormOK(dialog, creating)
    /\ NotReserved

\* A sequence of one.
LEMMA Segment ==
    ASSUME NEW S, NEW a \in S
    PROVE  <<a>> \in Seq(S) /\ <<a>> # <<>> /\ Len(<<a>>) = 1 /\ <<a>>[1] = a
  <1>1. Len(<<>>) = 0
    BY EmptySeq
  <1>2. QED
    BY <1>1

\* A view of the panel, as the segments of an address.
LEMMA ViewsAre ==
    /\ Panel!AdminViews \cap Panel!Aliases = {}
    /\ \A v \in Panel!AdminViews : v # <<>>
    /\ Panel!Default \in Panel!AdminViews /\ <<"configuracion">> \in Panel!AdminViews
  <1>1. Panel!Templates("liquidacion") = <<"configuracion", "plantillas", "liquidacion">>
        /\ Panel!Templates("mandamiento") = <<"configuracion", "plantillas", "mandamiento">>
    BY DEF Panel!Templates
  <1>2. Panel!AdminViews \cap Panel!Aliases = {}
    BY <1>1 DEF Panel!AdminViews, Panel!Aliases
  <1>3. \A v \in Panel!AdminViews : v # <<>>
    BY <1>1 DEF Panel!AdminViews
  <1>4. QED
    BY <1>2, <1>3 DEF Panel!AdminViews, Panel!Default

LEMMA ViewOf ==
    ASSUME NEW path
    PROVE  /\ Panel!AsView(path).view \in Panel!AdminViews
           /\ path \in Panel!AdminViews =>
                 Panel!AsView(path).view = path /\ Panel!AsView(path).alias = FALSE
  <1>1. Panel!AsView(path).view \in Panel!AdminViews
    BY ViewsAre DEF Panel!AsView
  <1>2. ASSUME path \in Panel!AdminViews
        PROVE  Panel!AsView(path).view = path
    BY <1>2 DEF Panel!AsView
  <1>3. ASSUME path \in Panel!AdminViews
        PROVE  Panel!AsView(path).alias = FALSE
    <2>1. path \notin Panel!Aliases
      BY <1>3, ViewsAre
    <2>2. (path \in Panel!Aliases) = FALSE
      BY <2>1
    <2>3. QED
      BY <2>2 DEF Panel!AsView
  <1>4. QED
    BY <1>1, <1>2, <1>3

\* The address of a view of a municipality.
LEMMA LinkIs ==
    ASSUME Panel!AdminPanelAssumption, NEW s \in Segments, NEW v \in Panel!AdminViews
    PROVE  /\ Panel!AdminHref(s, v) \in Seq(STRING)
           /\ Panel!AdminHref(s, v) # <<>> /\ Head(Panel!AdminHref(s, v)) = s
           /\ Panel!ParseAdmin(Panel!AdminHref(s, v)) = [slug |-> s, view |-> v, alias |-> FALSE]
           /\ PathOK(Panel!AdminHref(s, v)) /\ Panel!AdminHref(s, v) # Null
  <1> DEFINE first == <<s>>
             h == first \o v
  <1>1. v \in Seq(STRING) /\ v # <<>> /\ s \in STRING /\ first \in Seq(STRING)
        /\ Len(first) = 1 /\ first[1] = s
    BY ViewsAre, Segment DEF Panel!AdminPanelAssumption
  <1>2. Len(v) \in Nat \ {0}
    BY <1>1, EmptySeq, LenProperties
  <1>3. /\ h \in Seq(STRING) /\ Len(h) = 1 + Len(v)
        /\ \A i \in 1 .. 1 + Len(v) : h[i] = IF i <= 1 THEN first[i] ELSE v[i - 1]
    BY <1>1, ConcatProperties
  <1>4. h = Panel!AdminHref(s, v)
    BY DEF Panel!AdminHref
  <1> HIDE DEF h, first
  <1>5. h # <<>> /\ h[1] = s /\ Len(h) # 1 /\ Len(h) \in Nat
    <2>1. Len(h) # 1 /\ Len(h) # 0 /\ Len(h) \in Nat
      BY <1>2, <1>3
    <2>2. h # <<>>
      BY <2>1, EmptySeq
    <2>3. 1 \in 1 .. 1 + Len(v)
      BY <1>2
    <2>4. h[1] = IF 1 <= 1 THEN first[1] ELSE v[1 - 1]
      BY <1>3, <2>3
    <2>5. QED
      BY <1>1, <2>1, <2>2, <2>4
  <1>6. Head(h) = s
    BY <1>3, <1>5
  <1>7. Tail(h) = v
    <2>1. /\ Tail(h) \in Seq(STRING) /\ Len(Tail(h)) = Len(h) - 1
          /\ \A i \in 1 .. Len(Tail(h)) : Tail(h)[i] = h[i + 1]
      BY <1>3, <1>5, HeadTailProperties
    <2>2. Len(Tail(h)) = Len(v)
      BY <1>2, <1>3, <2>1
    <2>3. ASSUME NEW i \in 1 .. Len(v)
          PROVE  Tail(h)[i] = v[i]
      <3>1. i + 1 \in 1 .. 1 + Len(v) /\ ~(i + 1 <= 1) /\ i + 1 - 1 = i
        BY <1>2
      <3>2. QED
        BY <1>3, <2>1, <2>2, <3>1
    <2>4. QED
      BY <1>1, <2>1, <2>2, <2>3, SeqEqual
  <1>8. Panel!ParseAdmin(h) = [slug |-> s, view |-> v, alias |-> FALSE]
    BY <1>5, <1>6, <1>7, ViewOf DEF Panel!ParseAdmin
  <1>9. h # Null
    BY <1>3 DEF Panel!AdminPanelAssumption
  <1>10. QED
    BY <1>3, <1>4, <1>5, <1>6, <1>8, <1>9 DEF PathOK

\* The fallback is a municipality of the list.
LEMMA FallbackIs ==
    ASSUME Panel!AdminPanelAssumption, NEW l \in ListT, NEW last
    PROVE  /\ Panel!ListedIn(l) \subseteq Segments
           /\ Panel!ListedIn(l) # {} => Panel!FallbackIn(l, last) \in Panel!ListedIn(l)
           /\ Panel!ListedIn(l) = {} => Panel!FallbackIn(l, last) = Null
  <1> DEFINE there == Panel!ListedIn(l)
  <1>1. there \subseteq Segments
    BY DEF Panel!ListedIn
  <1>2. ASSUME there # {}
        PROVE  \E s \in there : \A t \in there : Order[s] <= Order[t]
    <2> DEFINE places == {Order[s] : s \in there}
    <2>1. places \subseteq Nat /\ places # {}
      <3>1. \A s \in there : Order[s] \in Nat
        BY <1>1 DEF Panel!AdminPanelAssumption
      <3>2. \E s \in there : Order[s] \in places
        BY <1>2
      <3> HIDE DEF there
      <3>3. QED
        BY <3>1, <3>2
    <2>2. PICK n \in places : \A m \in places : ~(<<m, n>> \in OpToRel(<, Nat))
      BY <2>1, NatLessThanWellFounded, WFMin
    <2>3. \A m \in places : ~(m < n)
      BY <2>1, <2>2 DEF OpToRel
    <2>4. \A m \in places : n <= m
      BY <2>1, <2>3
    <2>5. PICK s \in there : n = Order[s]
      OBVIOUS
    <2>6. QED
      BY <2>4, <2>5
  <1>3. QED
    BY <1>1, <1>2 DEF Panel!FallbackIn

\* A redirect leads to a view of a municipality, and from there to no other.
LEMMA RedirectIs ==
    ASSUME Panel!AdminPanelAssumption, NEW l \in ListT, NEW path, PathOK(path), NEW last,
           Panel!RedirectIn(l, path, last) # Null
    PROVE  /\ \E s \in Segments, v \in Panel!AdminViews :
                 Panel!RedirectIn(l, path, last) = Panel!AdminHref(s, v)
           /\ PathOK(Panel!RedirectIn(l, path, last))
           /\ \A m \in ListT : \A other :
                 Panel!RedirectIn(m, Panel!RedirectIn(l, path, last), other) = Null
  <1>1. Panel!ParseAdmin(path).view \in Panel!AdminViews
    BY ViewOf DEF Panel!ParseAdmin
  <1>2. PICK s \in Segments, v \in Panel!AdminViews :
            Panel!RedirectIn(l, path, last) = Panel!AdminHref(s, v)
    <2>1. CASE Panel!ParseAdmin(path).slug = Null
      BY <1>1, <2>1, FallbackIs DEF Panel!RedirectIn
    <2>2. CASE Panel!ParseAdmin(path).slug # Null
      BY <1>1, <2>2 DEF Panel!RedirectIn, PathOK
    <2>3. QED
      BY <2>1, <2>2
  <1> DEFINE to == Panel!AdminHref(s, v)
  <1>3. Panel!ParseAdmin(to) = [slug |-> s, view |-> v, alias |-> FALSE] /\ PathOK(to)
    BY LinkIs
  <1> HIDE DEF to
  <1>4. \A m, other : Panel!RedirectIn(m, to, other) = Null
    BY <1>3 DEF Panel!RedirectIn, Panel!AdminPanelAssumption
  <1>5. QED
    BY <1>2, <1>3, <1>4 DEF to

\* The parts of the types.
LEMMA PanelTypes ==
    ASSUME PanelInv
    PROVE  /\ registered \subseteq Segments /\ remembered \in Segments \cup {Null}
           /\ mounted \in BOOLEAN /\ reads \subseteq Panel!Read
           /\ checked \in Segments \cup {Null} /\ dialog \in {"closed", "open", "saving"}
           /\ creating \subseteq Panel!Creation
           /\ moves \in 0 .. MaxMoves /\ faults \in 0 .. MaxFaults /\ undone \in BOOLEAN
           /\ list \in ListT /\ PathOK(address) /\ PathOK(shownAt)
  BY DEF PanelInv, Panel!TypeOK

LEMMA ListsAre ==
    /\ Panel!Loading \in ListT /\ Panel!Loading.status = "loading"
    /\ Panel!ListedIn(Panel!Loading) = {}
    /\ [Panel!Loading EXCEPT !.status = "error"] \in ListT
    /\ [Panel!Loading EXCEPT !.status = "error"].status = "error"
    /\ \A seen : Panel!AsList(seen) \in ListT /\ Panel!AsList(seen).status = "ready"
  BY DEF Panel!Loading, Panel!NoneListed, Panel!AsList, ListT, Panel!ListedIn

LEMMA MissingIs ==
    ASSUME NEW l, NEW path, PathOK(path)
    PROVE  /\ Panel!MissingIn(l, path) \in Segments \cup {Null}
           /\ l.status # "ready" => Panel!MissingIn(l, path) = Null
  BY DEF Panel!MissingIn, PathOK

\* A cancelled lookup is still a read.
LEMMA CancelledAre ==
    ASSUME NEW left \in SUBSET Panel!Read
    PROVE  /\ Panel!Cancelled(left) \subseteq Panel!Read
           /\ \A r \in left : \E q \in Panel!Cancelled(left) : q.for = r.for
  <1>1. ASSUME NEW r \in left
        PROVE  /\ [r EXCEPT !.of = IF r.for = "look" THEN Null ELSE @] \in Panel!Read
               /\ [r EXCEPT !.of = IF r.for = "look" THEN Null ELSE @].for = r.for
    BY DEF Panel!Read
  <1>2. QED
    BY <1>1 DEF Panel!Cancelled

LEMMA NewReadIs ==
    ASSUME NEW why \in {"load", "focus", "look"}, NEW slug \in Segments \cup {Null}
    PROVE  /\ Panel!NewRead(why, slug) \in Panel!Read
           /\ Panel!NewRead(why, slug).for = why /\ Panel!NewRead(why, slug).of = slug
  BY DEF Panel!NewRead, Panel!Read

\* The effects of a render keep the reads the panel waits for.
LEMMA EffectsAre ==
    ASSUME Panel!AdminPanelAssumption, PanelInv, NEW newList \in ListT,
           NEW newChecked \in Segments \cup {Null}, NEW left \in SUBSET Panel!Read,
           Panel!Effects(newList, newChecked, left), LoadComes(newList, left),
           Panel!MissingIn(newList, address) = Panel!MissingIn(list, shownAt)
               /\ newChecked = checked => LookComes(newList, address, newChecked, left)
    PROVE  /\ reads' \subseteq Panel!Read
           /\ LoadComes(newList, reads')
           /\ LookComes(newList, address, newChecked, reads')
  <1> DEFINE missing == Panel!MissingIn(newList, address)
             was == Panel!MissingIn(list, shownAt)
  <1>1. missing \in Segments \cup {Null} /\ PathOK(address)
    BY MissingIs DEF PanelInv
  <1>2. reads' = IF <<missing, newChecked>> = <<was, checked>> THEN left
                 ELSE IF missing \in {Null, newChecked} THEN Panel!Cancelled(left)
                 ELSE Panel!Cancelled(left) \cup {Panel!NewRead("look", missing)}
    BY DEF Panel!Effects
  <1> HIDE DEF missing, was
  <1>3. CASE missing = was /\ newChecked = checked
    <2>1. reads' = left
      BY <1>2, <1>3
    <2>2. QED
      BY <1>3, <2>1 DEF missing, was
  <1>4. CASE ~(missing = was /\ newChecked = checked) /\ missing \in {Null, newChecked}
    <2>1. reads' = Panel!Cancelled(left)
      BY <1>2, <1>4
    <2>2. LoadComes(newList, reads')
      BY <2>1, CancelledAre DEF LoadComes
    <2>3. LookComes(newList, address, newChecked, reads')
      BY <1>4 DEF LookComes, missing
    <2>4. QED
      BY <2>1, <2>2, <2>3, CancelledAre
  <1>5. CASE ~(missing = was /\ newChecked = checked) /\ missing \notin {Null, newChecked}
    <2> DEFINE look == Panel!NewRead("look", missing)
    <2>1. reads' = Panel!Cancelled(left) \cup {look}
      BY <1>2, <1>5
    <2>2. look \in Panel!Read /\ look.for = "look" /\ look.of = missing
      BY <1>1, NewReadIs
    <2> HIDE DEF look
    <2>3. LoadComes(newList, reads')
      BY <2>1, CancelledAre DEF LoadComes
    <2>4. LookComes(newList, address, newChecked, reads')
      BY <2>1, <2>2 DEF LookComes, missing
    <2>5. QED
      BY <2>1, <2>2, <2>3, <2>4, CancelledAre
  <1>6. QED
    BY <1>3, <1>4, <1>5

LEMMA ActiveIs ==
    ASSUME Panel!AdminPanelAssumption, NEW l, NEW path
    PROVE  /\ Panel!ActiveIn(l, path) \in Segments \cup {Null}
           /\ Panel!ActiveIn(l, path) # Null =>
                 Panel!ActiveIn(l, path) = Panel!ParseAdmin(path).slug
  BY DEF Panel!ActiveIn, Panel!ListedIn

\* A render of a panel on the page: with a new list, or at a new address.
LEMMA RenderKeeps ==
    ASSUME Panel!AdminPanelAssumption, PanelInv, mounted, NEW newList \in ListT,
           NEW newChecked \in Segments \cup {Null}, NEW left \in SUBSET Panel!Read,
           Panel!Render(newList, newChecked, left), LoadComes(newList, left),
           Panel!MissingIn(newList, address) = Panel!MissingIn(list, shownAt)
               /\ newChecked = checked => LookComes(newList, address, newChecked, left),
           UNCHANGED <<registered, mounted, dialog, creating, moves, undone>>,
           faults' \in 0 .. MaxFaults
    PROVE  PanelInv'
  <1> DEFINE active == Panel!ActiveIn(newList, address)
             redirect == Panel!RedirectIn(newList, address, remembered)
  <1>1. /\ list' = newList /\ shownAt' = address /\ checked' = newChecked
        /\ remembered' = IF active # Null THEN active ELSE remembered
        /\ rows' = IF active = Panel!Active THEN rows ELSE Null
        /\ asks' = IF active = Panel!Active THEN asks ELSE {}
        /\ Panel!Effects(newList, newChecked, left)
        /\ redirected' = redirect
        /\ address' = IF redirect \notin {Null, redirected} THEN redirect ELSE address
    BY DEF Panel!Render, Panel!Effects
  <1>2. reads' \subseteq Panel!Read /\ LoadComes(list', reads')
        /\ LookComes(list', shownAt', checked', reads')
    BY <1>1, EffectsAre
  <1>3. PathOK(address) /\ PathOK(shownAt) /\ list \in ListT /\ mounted' = TRUE
        /\ redirected = Panel!RedirectIn(list, shownAt, remembered)
        /\ Redirects(redirected, address, undone)
    BY DEF PanelInv
  <1>4. PathOK(address')
    BY <1>1, <1>3, RedirectIs
  <1>5. redirected' = Panel!RedirectIn(list', shownAt', remembered')
    <2>1. CASE active = Null
      BY <1>1, <2>1
    <2>2. CASE active # Null
      <3>1. Panel!ParseAdmin(address).slug # Null
        BY <2>2, ActiveIs
      <3>2. QED
        BY <1>1, <3>1 DEF Panel!RedirectIn
    <2>3. QED
      BY <2>1, <2>2
  <1>6. Redirects(redirected', address', undone')
    <2> SUFFICES ASSUME ~undone, redirect # Null
                 PROVE  address' = redirect
      BY <1>1 DEF Redirects
    <2>1. CASE redirect # redirected
      BY <1>1, <2>1
    <2>2. CASE redirect = redirected
      <3>1. address = redirected
        BY <1>3, <2>2 DEF Redirects
      <3>2. Panel!RedirectIn(newList, redirected, remembered) = Null
        BY <1>3, <2>2, RedirectIs
      <3>3. QED
        BY <3>1, <3>2
    <2>3. QED
      BY <2>1, <2>2
  <1>7. AsksOK(asks', list', shownAt', address', undone')
    <2> SUFFICES ASSUME NEW k \in asks'
                 PROVE  k.from \in Segments /\ k.from = active
                        /\ (undone \/ k.to = k.from)
      BY <1>1 DEF AsksOK
    <2>1. k \in asks /\ active = Panel!Active
      BY <1>1
    <2>2. k.from \in Segments /\ k.from = Panel!Active
          /\ (undone \/ k.to = k.from \/ k.to = Panel!ParseAdmin(address).slug)
      BY <2>1 DEF PanelInv, AsksOK, Panel!Active
    <2>3. active = Panel!ParseAdmin(address).slug
      BY <2>1, <2>2, ActiveIs DEF Panel!AdminPanelAssumption
    <2>4. QED
      BY <2>1, <2>2, <2>3
  <1>8. RowsOK(rows', list', shownAt', undone')
    BY <1>1 DEF RowsOK, PanelInv, Panel!Active
  <1>9. FormOK(dialog', creating') /\ NotReserved'
    BY DEF PanelInv, NotReserved
  <1>10. Panel!TypeOK'
    <2>1. remembered' \in Segments \cup {Null}
      BY <1>1, ActiveIs, PanelTypes
    <2>2. \A k \in asks' : k.from \in Segments
      BY <1>7 DEF AsksOK
    <2>3. list'.status \in {"loading", "error", "ready"} /\ list'.times \in [Segments -> 0 .. 2]
      BY <1>1 DEF ListT
    <2>4. QED
      BY <1>1, <1>2, <2>1, <2>2, <2>3, PanelTypes DEF Panel!TypeOK
  <1>11. QED
    BY <1>1, <1>2, <1>3, <1>4, <1>5, <1>6, <1>7, <1>8, <1>9, <1>10 DEF PanelInv

\* The user changes the address, or the answer of a creation does.
LEMMA AddressKeeps ==
    ASSUME Panel!AdminPanelAssumption, PanelInv, NEW path, PathOK(path), address' = path,
           undone' = (undone \/ address # shownAt),
           UNCHANGED <<registered, remembered, shownAt, mounted, list, reads, checked,
                       redirected, dialog, rows, asks>>,
           moves' \in 0 .. MaxMoves, faults' \in 0 .. MaxFaults,
           creating' = creating \/ (creating' = {} /\ dialog # "saving")
    PROVE  PanelInv'
  <1>1. AsksOK(asks', list', shownAt', address', undone')
    BY DEF PanelInv, AsksOK
  <1>2. mounted => Redirects(redirected', address', undone')
    <2> SUFFICES ASSUME mounted, ~undone, address = shownAt, redirected # Null
                 PROVE  FALSE
      BY DEF Redirects
    <2>1. redirected = Panel!RedirectIn(list, shownAt, remembered) /\ shownAt = redirected
          /\ list \in ListT /\ PathOK(shownAt)
      BY DEF PanelInv, Redirects
    <2>2. QED
      BY <2>1, RedirectIs
  <1>3. RowsOK(rows', list', shownAt', undone')
    BY DEF PanelInv, RowsOK
  <1>4. FormOK(dialog', creating') /\ NotReserved'
    BY DEF PanelInv, FormOK, NotReserved
  <1>5. Panel!TypeOK'
    BY PanelTypes DEF Panel!TypeOK, PanelInv
  <1>6. QED
    BY <1>1, <1>2, <1>3, <1>4, <1>5 DEF PanelInv

LEMMA PanelMoves ==
    ASSUME Panel!AdminPanelAssumption, PanelInv,
           \/ \E path \in Saved : Panel!Type(path)
           \/ \E view \in Sections : Panel!FollowLink(view)
           \/ \E s \in Segments : Panel!Switch(s)
    PROVE  PanelInv'
  <1>1. \E path : PathOK(path) /\ Panel!Go(path)
    <2>1. CASE \E path \in Saved : Panel!Type(path)
      BY <2>1 DEF Panel!Type, PathOK, Panel!AdminPanelAssumption
    <2>2. CASE \E view \in Sections : Panel!FollowLink(view)
      <3>1. PICK view \in Sections : Panel!Active # Null
                                     /\ Panel!Go(Panel!AdminHref(Panel!Active, view))
        BY <2>2 DEF Panel!FollowLink
      <3>2. Panel!Active \in Segments /\ view \in Panel!AdminViews
        BY <3>1, ActiveIs DEF Panel!Active, Panel!AdminPanelAssumption
      <3>3. QED
        BY <3>1, <3>2, LinkIs
    <2>3. CASE \E s \in Segments : Panel!Switch(s)
      <3>1. PICK s \in Segments : Panel!Go(Panel!AdminHref(s, Panel!Route.view))
        BY <2>3 DEF Panel!Switch
      <3>2. Panel!Route.view \in Panel!AdminViews
        BY ViewOf DEF Panel!Route, Panel!ParseAdmin
      <3>3. QED
        BY <3>1, <3>2, LinkIs
    <2>4. QED
      BY <2>1, <2>2, <2>3
  <1>2. PICK path : PathOK(path) /\ Panel!Go(path)
    BY <1>1
  <1>3. /\ address' = path /\ undone' = (undone \/ address # shownAt)
        /\ UNCHANGED <<registered, remembered, shownAt, mounted, list, reads, checked,
                       redirected, dialog, creating, rows, asks, faults>>
        /\ moves' = moves + 1 /\ moves < MaxMoves
    BY <1>2 DEF Panel!Go, Panel!Rest
  <1>4. moves' \in 0 .. MaxMoves /\ faults' \in 0 .. MaxFaults
    BY <1>3, PanelTypes DEF Panel!AdminPanelAssumption
  <1>5. UNCHANGED <<registered, remembered, shownAt, mounted, list, reads, checked,
                    redirected, dialog, rows, asks>>
        /\ creating' = creating
    BY <1>3
  <1>6. PathOK(path) /\ address' = path /\ undone' = (undone \/ address # shownAt)
    BY <1>2, <1>3
  <1>7. QED
    BY <1>4, <1>5, <1>6, AddressKeeps

\* The panel comes back: it starts over.
LEMMA StartKeeps ==
    ASSUME Panel!AdminPanelAssumption, PanelInv, Panel!Start(address), mounted' = TRUE,
           UNCHANGED <<registered, remembered, moves, faults, undone>>
    PROVE  PanelInv'
  <1> DEFINE redirect == Panel!RedirectIn(Panel!Loading, address, remembered)
  <1>1. /\ shownAt' = address /\ redirected' = redirect
        /\ address' = IF redirect = Null THEN address ELSE redirect
        /\ list' = Panel!Loading /\ checked' = Null
        /\ reads' = {Panel!NewRead("load", Null)} /\ dialog' = "closed"
        /\ creating' = {[k EXCEPT !.form = FALSE] : k \in creating}
        /\ rows' = Null /\ asks' = {}
    BY DEF Panel!Start
  <1>2. reads' \subseteq Panel!Read /\ LoadComes(list', reads')
    BY <1>1, NewReadIs DEF LoadComes
  <1>3. LookComes(list', shownAt', checked', reads')
    BY <1>1, ListsAre, MissingIs, PanelTypes DEF LookComes
  <1>4. PathOK(shownAt') /\ PathOK(address')
    BY <1>1, ListsAre, RedirectIs, PanelTypes
  <1>5. redirected' = Panel!RedirectIn(list', shownAt', remembered')
        /\ Redirects(redirected', address', undone')
    BY <1>1 DEF Redirects
  <1>6. AsksOK(asks', list', shownAt', address', undone') /\ RowsOK(rows', list', shownAt', undone')
    BY <1>1 DEF AsksOK, RowsOK
  <1>7. /\ creating' \subseteq Panel!Creation /\ \A j, k \in creating' : j = k
        /\ \A k \in creating' : ~Panel!Reserved(k.slug)
    <2>1. \A k \in creating : /\ [k EXCEPT !.form = FALSE] \in Panel!Creation
                              /\ [k EXCEPT !.form = FALSE].slug = k.slug
      BY PanelTypes DEF Panel!Creation
    <2>2. QED
      BY <1>1, <2>1 DEF PanelInv, FormOK, NotReserved
  <1>8. FormOK(dialog', creating') /\ NotReserved'
    BY <1>1, <1>7 DEF FormOK, NotReserved, PanelInv
  <1>9. list' \in ListT
    BY <1>1, ListsAre
  <1>10. Panel!TypeOK'
    BY <1>1, <1>2, <1>7, <1>9, PanelTypes DEF Panel!TypeOK, ListT
  <1>11. QED
    BY <1>2, <1>3, <1>4, <1>5, <1>6, <1>8, <1>9, <1>10 DEF PanelInv

\* The public consultation takes the panel off the page.
LEMMA LeaveKeeps ==
    ASSUME Panel!AdminPanelAssumption, PanelInv, mounted' = FALSE,
           shownAt' = address, list' = Panel!Loading, checked' = Null, reads' = {},
           dialog' = "closed", rows' = Null, asks' = {},
           creating' = {[k EXCEPT !.form = FALSE] : k \in creating},
           UNCHANGED <<remembered, address, registered, moves, faults, undone>>
    PROVE  PanelInv'
  <1>1. /\ creating' \subseteq Panel!Creation /\ \A j, k \in creating' : j = k
        /\ \A k \in creating' : ~Panel!Reserved(k.slug)
    <2>1. \A k \in creating : /\ [k EXCEPT !.form = FALSE] \in Panel!Creation
                              /\ [k EXCEPT !.form = FALSE].slug = k.slug
      BY PanelTypes DEF Panel!Creation
    <2>2. QED
      BY <2>1 DEF PanelInv, FormOK, NotReserved
  <1>2. FormOK(dialog', creating') /\ NotReserved'
    BY <1>1 DEF FormOK, NotReserved, PanelInv
  <1>3. list' \in ListT
    BY ListsAre
  <1>4. AsksOK(asks', list', shownAt', address', undone') /\ RowsOK(rows', list', shownAt', undone')
    BY DEF AsksOK, RowsOK
  <1>5. Panel!TypeOK'
    BY <1>1, <1>3, PanelTypes DEF Panel!TypeOK, ListT
  <1>6. QED
    BY <1>2, <1>3, <1>4, <1>5 DEF PanelInv

LEMMA PanelHashChange ==
    ASSUME Panel!AdminPanelAssumption, PanelInv, Panel!HashChange
    PROVE  PanelInv'
  <1>1. CASE Panel!IsPublic(address)
    BY <1>1, LeaveKeeps DEF Panel!HashChange
  <1>2. CASE ~Panel!IsPublic(address) /\ mounted
    <2>1. /\ Panel!Render(list, checked, reads) /\ mounted' = mounted
          /\ UNCHANGED <<registered, dialog, creating, moves, undone, faults>>
      BY <1>2, PanelTypes DEF Panel!HashChange
    <2>2. /\ list \in ListT /\ checked \in Segments \cup {Null} /\ reads \in SUBSET Panel!Read
          /\ faults' \in 0 .. MaxFaults
      BY <2>1, PanelTypes
    <2>3. LoadComes(list, reads) /\ LookComes(list, shownAt, checked, reads)
      BY <1>2 DEF PanelInv
    <2>4. Panel!MissingIn(list, address) = Panel!MissingIn(list, shownAt)
              => LookComes(list, address, checked, reads)
      BY <2>3 DEF LookComes
    <2>5. QED
      BY <1>2, <2>1, <2>2, <2>3, <2>4, RenderKeeps
  <1>3. CASE ~Panel!IsPublic(address) /\ ~mounted
    BY <1>3, StartKeeps DEF Panel!HashChange
  <1>4. QED
    BY <1>1, <1>2, <1>3

\* A change of the reads alone, or of the municipalities there are.
LEMMA ReadsKeep ==
    ASSUME Panel!AdminPanelAssumption, PanelInv,
           UNCHANGED <<remembered, address, shownAt, mounted, list, checked, redirected,
                       dialog, creating, rows, asks, moves, faults, undone>>,
           reads' \subseteq Panel!Read, ~mounted => reads' = {},
           \A r \in reads : \E q \in reads' : q.for = r.for /\ q.of = r.of,
           registered' \subseteq Segments,
           registered' \ registered \subseteq Elsewhere
    PROVE  PanelInv'
  <1>1. mounted => LoadComes(list, reads') /\ LookComes(list, shownAt, checked, reads')
    BY DEF PanelInv, LoadComes, LookComes
  <1>2. NotReserved'
    BY DEF PanelInv, NotReserved
  <1>3. Panel!TypeOK'
    BY PanelTypes DEF Panel!TypeOK, PanelInv
  <1>4. QED
    BY <1>1, <1>2, <1>3 DEF PanelInv

LEMMA PanelReads ==
    ASSUME Panel!AdminPanelAssumption, PanelInv,
           \/ Panel!Focus
           \/ \E r \in reads : Panel!Answer(r)
           \/ \E s \in Segments : Panel!CreateElsewhere(s)
    PROVE  PanelInv'
  <1>1. CASE Panel!Focus
    <2>1. /\ UNCHANGED <<remembered, address, shownAt, mounted, list, checked, redirected,
                         dialog, creating, rows, asks, moves, faults, undone, registered>>
          /\ mounted /\ reads' = reads \cup {Panel!NewRead("focus", Null)}
      BY <1>1 DEF Panel!Focus, Panel!Quiet
    <2>2. reads' \subseteq Panel!Read /\ registered' \subseteq Segments
      BY <2>1, NewReadIs, PanelTypes
    <2>3. QED
      BY <2>1, <2>2, ReadsKeep
  <1>2. ASSUME NEW r \in reads, Panel!Answer(r)
        PROVE  PanelInv'
    <2> DEFINE answered == [r EXCEPT !.seen = registered]
    <2>1. /\ UNCHANGED <<remembered, address, shownAt, mounted, list, checked, redirected,
                         dialog, creating, rows, asks, moves, faults, undone, registered>>
          /\ reads' = (reads \ {r}) \cup {answered}
      BY <1>2 DEF Panel!Answer, Panel!Quiet
    <2>2. answered \in Panel!Read /\ answered.for = r.for /\ answered.of = r.of
      BY PanelTypes DEF Panel!Read
    <2> HIDE DEF answered
    <2>3. mounted
      BY DEF PanelInv
    <2>4. reads' \subseteq Panel!Read /\ registered' \subseteq Segments
          /\ \A q \in reads : \E p \in reads' : p.for = q.for /\ p.of = q.of
      BY <2>1, <2>2, PanelTypes
    <2>5. QED
      BY <2>1, <2>3, <2>4, ReadsKeep
  <1>3. ASSUME NEW s \in Segments, Panel!CreateElsewhere(s)
        PROVE  PanelInv'
    <2>1. /\ UNCHANGED <<remembered, address, shownAt, mounted, list, checked, redirected,
                         dialog, creating, rows, asks, moves, faults, undone, reads>>
          /\ registered' = registered \cup {s} /\ s \in Elsewhere
      BY <1>3 DEF Panel!CreateElsewhere, Panel!Quiet
    <2>2. /\ registered' \subseteq Segments /\ registered' \ registered \subseteq Elsewhere
          /\ reads' \subseteq Panel!Read /\ (~mounted => reads' = {})
      BY <2>1, PanelTypes DEF PanelInv
    <2>3. QED
      BY <2>1, <2>2, ReadsKeep
  <1>4. QED
    BY <1>1, <1>2, <1>3

\* A read lands or fails: it is off the reads in flight, and a lookup that was
\* not cancelled has checked its municipality.
LEMMA LandingKeeps ==
    ASSUME Panel!AdminPanelAssumption, PanelInv, NEW r \in reads, NEW newList \in ListT,
           Panel!Render(newList, Panel!CheckedAfter(r), reads \ {r}),
           newList.status = "loading" => newList = list /\ r.for # "load",
           UNCHANGED <<registered, mounted, dialog, creating, moves, undone>>,
           faults' \in 0 .. MaxFaults
    PROVE  PanelInv'
  <1> DEFINE seen == Panel!CheckedAfter(r)
             left == reads \ {r}
  <1>1. mounted /\ r \in Panel!Read /\ left \in SUBSET Panel!Read
    BY PanelTypes DEF PanelInv
  <1>2. seen \in Segments \cup {Null}
    BY <1>1, PanelTypes DEF Panel!CheckedAfter, Panel!Read
  <1>3. LoadComes(newList, left)
    BY <1>1 DEF LoadComes, PanelInv
  <1>4. ASSUME Panel!MissingIn(newList, address) = Panel!MissingIn(list, shownAt),
               seen = checked
        PROVE  LookComes(newList, address, seen, left)
    <2> DEFINE missing == Panel!MissingIn(list, shownAt)
    <2> SUFFICES ASSUME missing \notin {Null, seen}
                 PROVE  \E q \in left : q.for = "look" /\ q.of = missing
      BY <1>4 DEF LookComes
    <2>1. PICK q \in reads : q.for = "look" /\ q.of = missing
      BY <1>1, <1>4 DEF PanelInv, LookComes
    <2>2. q # r
      BY <2>1 DEF Panel!CheckedAfter
    <2>3. QED
      BY <2>1, <2>2
  <1>5. QED
    BY <1>1, <1>2, <1>3, <1>4, RenderKeeps

LEMMA PanelLandings ==
    ASSUME Panel!AdminPanelAssumption, PanelInv, NEW r \in reads,
           Panel!Land(r) \/ Panel!Fail(r)
    PROVE  PanelInv'
  <1>1. CASE Panel!Land(r)
    <2>1. /\ Panel!Render(Panel!AsList(r.seen), Panel!CheckedAfter(r), reads \ {r})
          /\ UNCHANGED <<registered, mounted, dialog, creating, moves, undone>>
          /\ faults' \in 0 .. MaxFaults
      BY <1>1, PanelTypes DEF Panel!Land
    <2>2. Panel!AsList(r.seen) \in ListT /\ Panel!AsList(r.seen).status # "loading"
      BY ListsAre
    <2>3. QED
      BY <2>1, <2>2, LandingKeeps
  <1>2. CASE Panel!Fail(r)
    <2>1. /\ Panel!Render(Panel!AfterFailure(r), Panel!CheckedAfter(r), reads \ {r})
          /\ UNCHANGED <<registered, mounted, dialog, creating, moves, undone>>
          /\ faults' = faults + 1 /\ faults < MaxFaults
      BY <1>2 DEF Panel!Fail
    <2>2. faults' \in 0 .. MaxFaults
      BY <2>1, PanelTypes DEF Panel!AdminPanelAssumption
    <2>3. /\ Panel!AfterFailure(r) \in ListT
          /\ Panel!AfterFailure(r).status = "loading" =>
                Panel!AfterFailure(r) = list /\ r.for # "load"
      BY ListsAre, PanelTypes DEF Panel!AfterFailure
    <2>4. QED
      BY <2>1, <2>2, <2>3, LandingKeeps
  <1>3. QED
    BY <1>1, <1>2

LEMMA PanelRetry ==
    ASSUME Panel!AdminPanelAssumption, PanelInv, Panel!Retry
    PROVE  PanelInv'
  <1> DEFINE load == Panel!NewRead("load", Null)
             left == {r \in reads : r.for # "load"} \cup {load}
  <1>1. /\ Panel!Render(Panel!Loading, checked, left) /\ mounted
        /\ UNCHANGED <<registered, mounted, dialog, creating, moves, faults, undone>>
    BY DEF Panel!Retry
  <1>2. load \in Panel!Read /\ load.for = "load"
    BY NewReadIs
  <1> HIDE DEF load
  <1>3. left \in SUBSET Panel!Read /\ checked \in Segments \cup {Null}
        /\ faults' \in 0 .. MaxFaults
    BY <1>1, <1>2, PanelTypes
  <1>4. Panel!Loading \in ListT /\ LoadComes(Panel!Loading, left)
    BY <1>2, ListsAre DEF LoadComes
  <1>5. LookComes(Panel!Loading, address, checked, left)
    BY ListsAre, MissingIs, PanelTypes DEF LookComes
  <1> HIDE DEF left
  <1>6. QED
    BY <1>1, <1>3, <1>4, <1>5, RenderKeeps

\* A step of the dialog and of its creation alone.
LEMMA DialogKeeps ==
    ASSUME Panel!AdminPanelAssumption, PanelInv,
           UNCHANGED <<remembered, address, shownAt, mounted, list, reads, checked,
                       redirected, rows, asks, moves, undone>>,
           dialog' \in {"closed", "open", "saving"}, creating' \subseteq Panel!Creation,
           registered' \subseteq Segments, faults' \in 0 .. MaxFaults,
           FormOK(dialog', creating'), NotReserved'
    PROVE  PanelInv'
  <1>1. Panel!TypeOK'
    BY PanelTypes DEF Panel!TypeOK, PanelInv
  <1>2. QED
    BY <1>1 DEF PanelInv

LEMMA PanelDialog ==
    ASSUME Panel!AdminPanelAssumption, PanelInv,
           \/ Panel!OpenDialog
           \/ Panel!CloseDialog
           \/ \E s \in Segments : Panel!Submit(s)
           \/ \E k \in creating : Panel!Create(k) \/ Panel!NotCreated(k)
    PROVE  PanelInv'
  <1>1. CASE Panel!OpenDialog \/ Panel!CloseDialog
    <2>1. /\ UNCHANGED <<remembered, address, shownAt, mounted, list, reads, checked,
                         redirected, rows, asks, moves, undone, registered, creating, faults>>
          /\ dialog' \in {"closed", "open"}
      BY <1>1 DEF Panel!OpenDialog, Panel!CloseDialog, Panel!Page
    <2>2. FormOK(dialog', creating') /\ NotReserved'
      BY <2>1 DEF PanelInv, FormOK, NotReserved
    <2>3. QED
      BY <2>1, <2>2, PanelTypes, DialogKeeps
  <1>2. ASSUME NEW s \in Segments, Panel!Submit(s)
        PROVE  PanelInv'
    <2> DEFINE k == [slug |-> s, became |-> "sent", form |-> TRUE]
    <2>1. /\ UNCHANGED <<remembered, address, shownAt, mounted, list, reads, checked,
                         redirected, rows, asks, moves, undone, registered, faults>>
          /\ dialog' = "saving" /\ creating' = {k} /\ ~Panel!Reserved(s)
      BY <1>2 DEF Panel!Submit, Panel!Page
    <2>2. k \in Panel!Creation /\ k.form /\ k.slug = s
      BY DEF Panel!Creation
    <2> HIDE DEF k
    <2>3. FormOK(dialog', creating') /\ NotReserved'
      BY <2>1, <2>2 DEF PanelInv, FormOK, NotReserved
    <2>4. QED
      BY <2>1, <2>2, <2>3, PanelTypes, DialogKeeps
  <1>3. ASSUME NEW k \in creating, Panel!Create(k)
        PROVE  PanelInv'
    <2>1. PICK became \in {"taken", "created"} : creating' = {[k EXCEPT !.became = became]}
      BY <1>3 DEF Panel!Create
    <2> DEFINE made == [k EXCEPT !.became = became]
    <2>2. /\ UNCHANGED <<remembered, address, shownAt, mounted, list, reads, checked,
                         redirected, rows, asks, moves, undone, dialog, faults>>
          /\ registered' = registered \cup {k.slug}
      BY <1>3 DEF Panel!Create, Panel!Page
    <2>3. k \in Panel!Creation /\ made \in Panel!Creation /\ made.form = k.form
          /\ made.slug = k.slug /\ k.slug \in Segments
      BY PanelTypes DEF Panel!Creation
    <2> HIDE DEF made
    <2>4. FormOK(dialog', creating') /\ NotReserved'
      BY <2>1, <2>2, <2>3 DEF PanelInv, FormOK, NotReserved, made
    <2>5. creating' = {made}
      BY <2>1 DEF made
    <2>6. QED
      BY <2>2, <2>3, <2>4, <2>5, PanelTypes, DialogKeeps
  <1>4. ASSUME NEW k \in creating, Panel!NotCreated(k)
        PROVE  PanelInv'
    <2>1. /\ UNCHANGED <<remembered, address, shownAt, mounted, list, reads, checked,
                         redirected, rows, asks, moves, undone, registered>>
          /\ creating' = {} /\ dialog' = IF k.form THEN "open" ELSE dialog
      BY <1>4 DEF Panel!NotCreated, Panel!Page
    <2>2. faults' \in 0 .. MaxFaults
      BY <1>4, PanelTypes DEF Panel!NotCreated, Panel!AdminPanelAssumption
    <2>3. dialog' # "saving"
      BY <2>1 DEF PanelInv, FormOK
    <2>4. FormOK(dialog', creating') /\ NotReserved'
      BY <2>1, <2>3 DEF PanelInv, FormOK, NotReserved
    <2>5. QED
      BY <2>1, <2>2, <2>4, PanelTypes, DialogKeeps
  <1>5. QED
    BY <1>1, <1>2, <1>3, <1>4

\* The form's municipality is there: the panel goes to it.
LEMMA PanelCreated ==
    ASSUME Panel!AdminPanelAssumption, PanelInv, NEW k \in creating, Panel!Created(k)
    PROVE  PanelInv'
  <1> DEFINE to == Panel!AdminHref(k.slug, Panel!Default)
  <1>1. k.slug \in Segments /\ k \in Panel!Creation
    BY PanelTypes DEF Panel!Creation
  <1>2. /\ PathOK(to)
        /\ Panel!ParseAdmin(to) = [slug |-> k.slug, view |-> Panel!Default, alias |-> FALSE]
    BY <1>1, LinkIs, ViewsAre
  <1> HIDE DEF to
  <1>3. /\ creating' = {} /\ address' = to /\ undone' = (undone \/ address # shownAt)
        /\ UNCHANGED <<registered, mounted, checked, moves, faults>>
    BY DEF Panel!Created, to
  <1>4. CASE ~k.form
    <2>1. UNCHANGED <<dialog, list, shownAt, redirected, remembered, reads, rows, asks>>
      BY <1>4 DEF Panel!Created
    <2>2. dialog # "saving"
      BY <1>4 DEF PanelInv, FormOK
    <2>3. moves' \in 0 .. MaxMoves /\ faults' \in 0 .. MaxFaults
      BY <1>3, PanelTypes
    <2>4. QED
      BY <1>2, <1>3, <2>1, <2>2, <2>3, AddressKeeps
  <1>5. CASE k.form
    <2> DEFINE newList == Panel!Added(k.slug)
               active == Panel!ActiveIn(newList, to)
    <2>1. /\ dialog' = "closed" /\ list' = newList /\ shownAt' = to /\ redirected' = Null
          /\ remembered' = IF k.slug \in Panel!ListedIn(newList) THEN k.slug ELSE remembered
          /\ reads' = Panel!Cancelled(reads)
          /\ rows' = IF k.slug = Panel!Active THEN rows ELSE Null
          /\ asks' = IF k.slug = Panel!Active THEN asks ELSE {}
      BY <1>3, <1>5 DEF Panel!Created, to
    <2>2. /\ newList \in ListT /\ newList.status = list.status
          /\ Panel!ListedIn(list) \subseteq Panel!ListedIn(newList)
          /\ list.status = "ready" => k.slug \in Panel!ListedIn(newList)
      <3>1. CASE list.status # "ready"
        BY <3>1, PanelTypes DEF Panel!Added
      <3>2. CASE list.status = "ready"
        <4> DEFINE n == IF list.times[k.slug] < 2 THEN list.times[k.slug] + 1 ELSE list.times[k.slug]
                   times == [list.times EXCEPT ![k.slug] = n]
        <4>1. list \in ListT /\ list.times \in [Segments -> 0 .. 2]
              /\ list.times[k.slug] \in 0 .. 2
          BY <1>1, PanelTypes DEF ListT
        <4>2. n \in 0 .. 2 /\ n > 0 /\ n >= list.times[k.slug]
          BY <4>1
        <4>3. newList = [list EXCEPT !.times = times]
          BY <3>2, <4>1 DEF Panel!Added
        <4> HIDE DEF n, newList
        <4>4. times \in [Segments -> 0 .. 2] /\ times[k.slug] = n
              /\ \A s \in Segments : s # k.slug => times[s] = list.times[s]
          BY <1>1, <4>1, <4>2
        <4> HIDE DEF times
        <4>5. newList \in ListT /\ newList.status = list.status /\ newList.times = times
          BY <4>1, <4>3, <4>4 DEF ListT
        <4>6. \A s \in Segments : list.times[s] > 0 => times[s] > 0
          BY <4>2, <4>4
        <4>7. QED
          BY <1>1, <4>2, <4>4, <4>5, <4>6 DEF Panel!ListedIn
      <3>3. QED
        BY <3>1, <3>2
    <2> HIDE DEF newList
    <2>3. active = IF k.slug \in Panel!ListedIn(newList) THEN k.slug ELSE Null
      BY <1>2 DEF Panel!ActiveIn
    <2>4. k.slug = Panel!Active => active = k.slug
      BY <1>1, <2>2, <2>3 DEF Panel!Active, Panel!ActiveIn, Panel!AdminPanelAssumption
    <2>5. reads' \subseteq Panel!Read /\ (~mounted => reads' = {})
      BY <2>1, CancelledAre, PanelTypes DEF PanelInv, Panel!Cancelled
    <2>6. mounted => LoadComes(list', reads')
      BY <2>1, <2>2, CancelledAre, PanelTypes DEF PanelInv, LoadComes
    <2>7. LookComes(list', shownAt', checked', reads')
      <3>1. Panel!MissingIn(newList, to) = Null
        BY <1>1, <2>2, <2>3 DEF Panel!MissingIn, Panel!AdminPanelAssumption
      <3>2. QED
        BY <2>1, <3>1 DEF LookComes
    <2>8. redirected' = Panel!RedirectIn(list', shownAt', remembered')
          /\ Redirects(redirected', address', undone')
      BY <1>1, <1>2, <2>1 DEF Redirects, Panel!RedirectIn, Panel!AdminPanelAssumption
    <2>9. AsksOK(asks', list', shownAt', address', undone')
      <3> SUFFICES ASSUME NEW j \in asks'
                   PROVE  /\ j.from \in Segments /\ j.from = active
                          /\ (undone' \/ j.to = j.from)
        BY <2>1 DEF AsksOK
      <3>1. j \in asks /\ k.slug = Panel!Active
        BY <2>1
      <3>2. QED
        BY <1>3, <2>4, <3>1 DEF PanelInv, AsksOK, Panel!Active
    <2>10. RowsOK(rows', list', shownAt', undone')
      BY <1>3, <2>1, <2>4 DEF PanelInv, RowsOK, Panel!Active
    <2>11. FormOK(dialog', creating') /\ NotReserved'
      BY <1>3, <2>1 DEF FormOK, NotReserved, PanelInv
    <2>12. Panel!TypeOK'
      <3>1. \A j \in asks' : j.from \in Segments
        BY <2>9 DEF AsksOK
      <3>2. list'.status \in {"loading", "error", "ready"} /\ list'.times \in [Segments -> 0 .. 2]
        BY <2>1, <2>2 DEF ListT
      <3>3. undone' \in BOOLEAN
        BY <1>3
      <3>4. QED
        BY <1>1, <1>3, <2>1, <2>5, <3>1, <3>2, <3>3, PanelTypes DEF Panel!TypeOK
    <2>13. ~mounted => rows' = Null /\ asks' = {}
      BY <2>1 DEF PanelInv
    <2>14. QED
      BY <1>2, <1>3, <2>1, <2>2, <2>5, <2>6, <2>7, <2>8, <2>9, <2>10, <2>11, <2>12, <2>13
         DEF PanelInv
  <1>6. QED
    BY <1>4, <1>5

LEMMA PanelRows ==
    ASSUME Panel!AdminPanelAssumption, PanelInv,
           Panel!AskRows \/ \E k \in asks : Panel!RowsLand(k)
    PROVE  PanelInv'
  <1>1. CASE Panel!AskRows
    <2> DEFINE k == [from |-> Panel!Active, to |-> Panel!ParseAdmin(address).slug]
    <2>1. /\ mounted /\ Panel!Content = "screen" /\ asks' = {k}
          /\ UNCHANGED <<registered, remembered, address, shownAt, mounted, list, reads,
                         checked, redirected, dialog, creating, rows, moves, faults, undone>>
      BY <1>1 DEF Panel!AskRows
    <2>2. Panel!Active # Null
      BY <2>1 DEF Panel!Content
    <2>3. Panel!Active \in Segments /\ Panel!Active = Panel!ParseAdmin(shownAt).slug
          /\ Panel!Active = Panel!ActiveIn(list, shownAt)
      BY <2>2, ActiveIs DEF Panel!Active
    <2>4. k.from = Panel!Active /\ k.to = Panel!ParseAdmin(address).slug
      OBVIOUS
    <2> HIDE DEF k
    <2>5. AsksOK(asks', list', shownAt', address', undone')
      BY <2>1, <2>3, <2>4 DEF AsksOK
    <2>6. FormOK(dialog', creating') /\ NotReserved'
      BY <2>1 DEF PanelInv, NotReserved
    <2>7. Panel!TypeOK'
      BY <2>1, <2>3, <2>4, PanelTypes DEF Panel!TypeOK, PanelInv
    <2>8. QED
      BY <2>1, <2>5, <2>6, <2>7 DEF PanelInv
  <1>2. ASSUME NEW k \in asks, Panel!RowsLand(k)
        PROVE  PanelInv'
    <2>1. /\ k.to = k.from \/ address = shownAt
          /\ asks' = {} /\ rows' = IF k.to \in registered THEN k.to ELSE Null
          /\ UNCHANGED <<registered, remembered, address, shownAt, mounted, list, reads,
                         checked, redirected, dialog, creating, moves, faults, undone>>
      BY <1>2 DEF Panel!RowsLand
    <2>2. mounted
      BY DEF PanelInv
    <2>3. k.from = Panel!ActiveIn(list, shownAt) /\ (undone \/ k.to = k.from)
      BY <2>1 DEF PanelInv, AsksOK
    <2>4. RowsOK(rows', list', shownAt', undone')
      BY <2>1, <2>3 DEF RowsOK
    <2>5. AsksOK(asks', list', shownAt', address', undone')
      BY <2>1 DEF AsksOK
    <2>6. FormOK(dialog', creating') /\ NotReserved'
      BY <2>1 DEF PanelInv, NotReserved
    <2>7. Panel!TypeOK'
      BY <2>1, PanelTypes DEF Panel!TypeOK, PanelInv
    <2>8. QED
      BY <2>1, <2>2, <2>4, <2>5, <2>6, <2>7 DEF PanelInv
  <1>3. QED
    BY <1>1, <1>2

LEMMA PanelStarts ==
    ASSUME Panel!AdminPanelAssumption, Panel!Init
    PROVE  PanelInv
  <1>1. PICK path \in Saved :
            /\ shownAt = path /\ redirected = Panel!RedirectIn(Panel!Loading, path, remembered)
            /\ address = IF redirected = Null THEN path ELSE redirected
    BY DEF Panel!Init
  <1>2. PathOK(path)
    BY DEF Panel!AdminPanelAssumption, PathOK
  <1>3. /\ registered \subseteq Elsewhere /\ remembered \in Elsewhere \cup {Null}
        /\ mounted = TRUE /\ list = Panel!Loading /\ reads = {Panel!NewRead("load", Null)}
        /\ checked = Null /\ dialog = "closed" /\ creating = {} /\ rows = Null /\ asks = {}
        /\ moves = 0 /\ faults = 0 /\ undone = FALSE
    BY DEF Panel!Init
  <1>4. PathOK(address) /\ PathOK(shownAt)
    BY <1>1, <1>2, ListsAre, RedirectIs
  <1>5. reads \subseteq Panel!Read /\ LoadComes(list, reads)
    BY <1>3, NewReadIs DEF LoadComes
  <1>6. LookComes(list, shownAt, checked, reads)
    BY <1>3, <1>4, ListsAre, MissingIs DEF LookComes
  <1>7. list \in ListT
    BY <1>3, ListsAre
  <1>8. Panel!TypeOK
    <2>1. registered \subseteq Segments /\ remembered \in Segments \cup {Null}
      BY <1>3 DEF Panel!AdminPanelAssumption
    <2>2. moves \in 0 .. MaxMoves /\ faults \in 0 .. MaxFaults
      BY <1>3 DEF Panel!AdminPanelAssumption
    <2>3. list.status \in {"loading", "error", "ready"} /\ list.times \in [Segments -> 0 .. 2]
      BY <1>7 DEF ListT
    <2>4. QED
      BY <1>3, <1>5, <2>1, <2>2, <2>3 DEF Panel!TypeOK
  <1>9. QED
    BY <1>1, <1>3, <1>4, <1>5, <1>6, <1>7, <1>8
       DEF PanelInv, Redirects, AsksOK, RowsOK, FormOK, NotReserved

LEMMA PanelSteps ==
    ASSUME Panel!AdminPanelAssumption, PanelInv, [Panel!Next]_(Panel!vars)
    PROVE  PanelInv'
  <1>1. CASE UNCHANGED Panel!vars
    BY <1>1 DEF Panel!vars, PanelInv, Panel!TypeOK, NotReserved
  <1>2. CASE Panel!Next
    BY <1>2, PanelMoves, PanelHashChange, PanelReads, PanelLandings, PanelRetry,
       PanelDialog, PanelCreated, PanelRows
       DEF Panel!Next
  <1>3. QED
    BY <1>1, <1>2

LEMMA PanelHolds ==
    ASSUME Panel!AdminPanelAssumption, PanelInv
    PROVE  /\ Panel!BlankIsOnItsWay /\ Panel!SavingIsOnItsWay
           /\ Panel!RowsOfTheirTown /\ Panel!LinksOpen
  <1>1. ASSUME mounted, Panel!Content = "blank", ~undone, address = shownAt
        PROVE  \/ list.status = "loading" /\ \E r \in reads : r.for = "load"
               \/ \E r \in reads : r.for = "look" /\ r.of = Panel!MissingIn(list, shownAt)
    <2> DEFINE missing == Panel!MissingIn(list, shownAt)
    <2>1. /\ list.status # "error" /\ Panel!Active = Null
          /\ list.status = "ready" => Panel!ListedIn(list) # {}
          /\ missing # Null => checked # missing
      BY <1>1 DEF Panel!Content
    <2>2. list \in ListT /\ PathOK(shownAt) /\ list.status \in {"loading", "error", "ready"}
      BY PanelTypes DEF ListT
    <2>3. CASE list.status = "loading"
      BY <1>1, <2>3 DEF PanelInv, LoadComes
    <2>4. CASE list.status = "ready" /\ missing # Null
      BY <1>1, <2>1, <2>4 DEF PanelInv, LookComes
    <2>5. CASE list.status = "ready" /\ missing = Null
      <3>1. Panel!ParseAdmin(shownAt).slug = Null
        BY <2>1, <2>5 DEF Panel!MissingIn, Panel!Active
      <3> DEFINE fallback == Panel!FallbackIn(list, remembered)
      <3>2. fallback \in Segments /\ fallback # Null
        BY <2>1, <2>2, <2>5, FallbackIs DEF Panel!AdminPanelAssumption
      <3>3. Panel!ParseAdmin(shownAt).view \in Panel!AdminViews
        BY ViewOf DEF Panel!ParseAdmin
      <3>4. Panel!RedirectIn(list, shownAt, remembered) # Null
        BY <2>5, <3>1, <3>2, <3>3, LinkIs DEF Panel!RedirectIn
      <3>5. redirected # Null /\ address = redirected
            /\ redirected = Panel!RedirectIn(list, shownAt, remembered)
        BY <1>1, <3>4 DEF PanelInv, Redirects
      <3>6. Panel!RedirectIn(list, redirected, remembered) = Null
        BY <2>2, <3>4, <3>5, RedirectIs
      <3>7. QED
        BY <1>1, <3>4, <3>5, <3>6
    <2>6. QED
      BY <2>1, <2>2, <2>3, <2>4, <2>5
  <1>2. Panel!BlankIsOnItsWay
    BY <1>1 DEF Panel!BlankIsOnItsWay
  <1>3. Panel!SavingIsOnItsWay
    BY DEF PanelInv, FormOK, Panel!SavingIsOnItsWay
  <1>4. Panel!RowsOfTheirTown
    BY DEF PanelInv, RowsOK, Panel!RowsOfTheirTown, Panel!Active
  <1>5. ASSUME NEW s \in registered \ Elsewhere, NEW view \in Panel!AdminViews
        PROVE  /\ ~Panel!IsPublic(Panel!AdminHref(s, view))
               /\ Panel!ParseAdmin(Panel!AdminHref(s, view))
                     = [slug |-> s, view |-> view, alias |-> FALSE]
    <2>1. s \in Segments /\ ~Panel!Reserved(s)
      BY PanelTypes DEF PanelInv, NotReserved
    <2>2. QED
      BY <2>1, LinkIs DEF Panel!IsPublic, Panel!Reserved
  <1>6. Panel!LinksOpen
    BY <1>5 DEF Panel!LinksOpen
  <1>7. QED
    BY <1>2, <1>3, <1>4, <1>6

\* The panel of the Administrator (AdminPanel), for every set of municipalities,
\* of addresses and of reads in flight, and every number of changes and failures:
\* a panel with nothing on it, or a form that waits, has something on its way,
\* the rows on screen are of the municipality of the address, and every link of
\* a municipality made with the form opens the view it says.
THEOREM PanelIsTrue ==
    ASSUME Panel!AdminPanelAssumption
    PROVE  Panel!Spec => [](/\ Panel!TypeOK
                            /\ Panel!BlankIsOnItsWay /\ Panel!SavingIsOnItsWay
                            /\ Panel!RowsOfTheirTown /\ Panel!LinksOpen)
  <1>1. PanelInv => /\ Panel!TypeOK
                    /\ Panel!BlankIsOnItsWay /\ Panel!SavingIsOnItsWay
                    /\ Panel!RowsOfTheirTown /\ Panel!LinksOpen
    BY PanelHolds DEF PanelInv
  <1>2. QED
    BY <1>1, PanelStarts, PanelSteps, PTL DEF Panel!Spec
=============================================================================
