--------------------------- MODULE Municipalities ---------------------------
(***************************************************************************)
(* The municipalities and what their addresses open.  Each has a slug, the *)
(* one of its URLs, and a DANE code, the prefix of its cadastral codes;    *)
(* both are unique, and both are frozen once it has data.  A request finds *)
(* its municipality once, when it arrives, and works with what it read     *)
(* then: the edits and the loads of the tax roll that cross do not see one *)
(* another until the write, where only the unique indexes decide.          *)
(***************************************************************************)
EXTENDS Naturals, FiniteSets

CONSTANTS
    Towns,       \* ids of municipalities
    Slugs,       \* the slugs somebody may ask for
    Danes,       \* the DANE codes somebody may ask for
    WellFormed,  \* those of both that pass isValidSlug and isValidDaneCode
    Codes,       \* cadastral codes
    Prefix,      \* Prefix[c]: the DANE code the cadastral code starts with
    Clients,     \* requests that may be in flight at the same time
    MaxEdits,    \* bound: edits of a slug or of a DANE code
    Null

MunicipalitiesAssumption ==
    /\ WellFormed \subseteq Slugs \cup Danes
    /\ Prefix \in [Codes -> Danes]
    /\ MaxEdits \in Nat
    /\ Null \notin Towns \cup Slugs \cup Danes
    /\ Null \notin [slug : Slugs, dane : Danes]

VARIABLES
    town,      \* town[m]: its slug and DANE code, or Null
    loaded,    \* the municipalities with a recorded load: they have data
    owner,     \* owner[c]: the municipality of the property with this code
    writer,    \* writer[c]: the municipality whose load wrote it last
    had,       \* had[d]: the municipalities that have ever had this DANE code
    crossing,  \* edits that found no data in a municipality that has it now
    edits,     \* how many edits there were
    call       \* what each request is doing

vars == <<town, loaded, owner, writer, had, crossing, edits, call>>

-----------------------------------------------------------------------------
(* Types and helpers *)

Names == [slug : Slugs, dane : Danes]

\* read is the municipality as the request found it, new what it asks for.
Idle == [at |-> "idle", id |-> Null, read |-> Null, new |-> Null, codes |-> {}]

Call == [at : {"idle", "data", "taken", "insert", "update", "load", "store"},
         id : Towns \cup {Null}, read : Names \cup {Null}, new : Names \cup {Null},
         codes : SUBSET Codes]

TypeOK ==
    /\ town \in [Towns -> Names \cup {Null}]
    /\ loaded \subseteq Towns
    /\ owner \in [Codes -> Towns \cup {Null}]
    /\ writer \in [Codes -> Towns \cup {Null}]
    /\ had \in [Danes -> SUBSET Towns]
    /\ crossing \subseteq Clients
    /\ edits \in 0 .. MaxEdits
    /\ call \in [Clients -> Call]

Registered == {m \in Towns : town[m] # Null}

SlugTaken(s) == \E m \in Registered : town[m].slug = s
DaneTaken(d) == \E m \in Registered : town[m].dane = d

\* The unique indexes: somebody else has one of the two.
Conflict(id, names) ==
    \E m \in Registered \ {id} : town[m].slug = names.slug \/ town[m].dane = names.dane

\* The guard of every route: an address no municipality has is a 404.
Addressed(s) == {m \in Registered : town[m].slug = s}

\* The request is over, answered or dropped.
Done(c) == /\ call' = [call EXCEPT ![c] = Idle]
           /\ crossing' = crossing \ {c}

\* What the write leaves in the table.
Write(c, m, names) ==
    /\ town' = [town EXCEPT ![m] = names]
    /\ had' = [had EXCEPT ![names.dane] = @ \cup {m}]
    /\ Done(c)
    /\ UNCHANGED <<loaded, owner, writer, edits>>

Refuse(c) == Done(c) /\ UNCHANGED <<town, loaded, owner, writer, had, edits>>

Init ==
    /\ town = [m \in Towns |-> Null]
    /\ loaded = {}
    /\ owner = [c \in Codes |-> Null]
    /\ writer = [c \in Codes |-> Null]
    /\ had = [d \in Danes |-> {}]
    /\ crossing = {}
    /\ edits = 0
    /\ call = [c \in Clients |-> Idle]

-----------------------------------------------------------------------------
(* POST municipalities *)

\* Values that are not well formed are a 400.
AskToCreate(c, names) ==
    /\ call[c] = Idle
    /\ {names.slug, names.dane} \subseteq WellFormed
    /\ call' = [call EXCEPT ![c] = [Idle EXCEPT !.at = "taken", !.new = names]]
    /\ UNCHANGED <<town, loaded, owner, writer, had, crossing, edits>>

\* A new id each time.
Insert(c) ==
    /\ call[c].at = "insert"
    /\ IF Conflict(Null, call[c].new)
       THEN Refuse(c)
       ELSE \E m \in Towns \ Registered : Write(c, m, call[c].new)

-----------------------------------------------------------------------------
(* PATCH municipalities/:slug *)

\* Only the values that differ from those read are changes; a request without
\* any writes only the name.
AskToEdit(c, s, names) ==
    /\ call[c] = Idle
    /\ edits < MaxEdits
    /\ edits' = edits + 1
    /\ \E m \in Addressed(s) :
          /\ names # town[m]
          /\ call' = [call EXCEPT ![c] = [Idle EXCEPT !.at = "data", !.id = m,
                                                      !.read = town[m], !.new = names]]
    /\ UNCHANGED <<town, loaded, owner, writer, had, crossing>>

\* A mutant: the write of a slug does not look for data.
LookForDaneData(c) ==
    /\ call[c].at = "data"
    /\ LET fresh == {call[c].new.slug, call[c].new.dane}
                    \ {call[c].read.slug, call[c].read.dane}
       IN IF call[c].id \in loaded /\ call[c].new.dane # call[c].read.dane
          THEN Refuse(c)
          ELSE /\ call' = [call EXCEPT ![c].at = "taken"]
               /\ UNCHANGED <<town, loaded, owner, writer, had, crossing, edits>>

\* hasData, and then the format of what changes.
LookForData(c) ==
    /\ call[c].at = "data"
    /\ LET fresh == {call[c].new.slug, call[c].new.dane}
                    \ {call[c].read.slug, call[c].read.dane}
       IN IF call[c].id \in loaded \/ ~(fresh \subseteq WellFormed)
          THEN Refuse(c)
          ELSE /\ call' = [call EXCEPT ![c].at = "taken"]
               /\ UNCHANGED <<town, loaded, owner, writer, had, crossing, edits>>

\* assertAvailable, of a creation and of an edit: whoever has the value, the
\* municipality itself included when another edit gave it to it meanwhile.
LookIfTaken(c) ==
    /\ call[c].at = "taken"
    /\ LET read == call[c].read
           new == call[c].new
       IN IF \/ (read = Null \/ new.dane # read.dane) /\ DaneTaken(new.dane)
             \/ (read = Null \/ new.slug # read.slug) /\ SlugTaken(new.slug)
          THEN Refuse(c)
          ELSE /\ call' = [call EXCEPT ![c].at = IF read = Null THEN "insert" ELSE "update"]
               /\ UNCHANGED <<town, loaded, owner, writer, had, crossing, edits>>

\* Only what differs from what was read is written, over what is there now.
Update(c) ==
    /\ call[c].at = "update"
    /\ LET m == call[c].id
           read == call[c].read
           new == call[c].new
           names == [slug |-> IF new.slug # read.slug THEN new.slug ELSE town[m].slug,
                     dane |-> IF new.dane # read.dane THEN new.dane ELSE town[m].dane]
       IN IF Conflict(m, names) THEN Refuse(c) ELSE Write(c, m, names)

-----------------------------------------------------------------------------
(* POST municipalities/:slug/tax-roll *)

\* The whole file is refused if a code does not start with the DANE code the
\* guard read.
AskToLoad(c, s, codes) ==
    /\ call[c] = Idle
    /\ \E m \in Addressed(s) :
          /\ \A k \in codes : Prefix[k] = town[m].dane
          /\ call' = [call EXCEPT ![c] = [Idle EXCEPT !.at = "load", !.id = m,
                                                      !.read = town[m], !.codes = codes]]
    /\ UNCHANGED <<town, loaded, owner, writer, had, crossing, edits>>

\* The transaction of the load, one at a time for a municipality: a code that
\* is already of another municipality refuses it.
LookForForeign(c) ==
    /\ call[c].at = "load"
    /\ \A d \in Clients : ~(call[d].at = "store" /\ call[d].id = call[c].id)
    /\ IF \E k \in call[c].codes : owner[k] \notin {Null, call[c].id}
       THEN Refuse(c)
       ELSE /\ call' = [call EXCEPT ![c].at = "store"]
            /\ UNCHANGED <<town, loaded, owner, writer, had, crossing, edits>>

\* The upserts by code and the commit.  A code another transaction committed
\* meanwhile is updated, whoever owns it.  The edits of this municipality that
\* are past their look for data cross this load.
Store(c) ==
    /\ call[c].at = "store"
    /\ LET m == call[c].id
           codes == call[c].codes
       IN /\ owner' = [k \in Codes |-> IF k \in codes /\ owner[k] = Null THEN m ELSE owner[k]]
          /\ writer' = [k \in Codes |-> IF k \in codes THEN m ELSE writer[k]]
          /\ loaded' = loaded \cup {m}
          /\ crossing' = (IF m \in loaded THEN crossing
                          ELSE crossing \cup {d \in Clients :
                                                /\ call[d].id = m
                                                /\ call[d].at \in {"taken", "update"}})
          /\ call' = [call EXCEPT ![c] = Idle]
    /\ UNCHANGED <<town, had, edits>>

\* A request that fails, or whose transaction is rolled back, writes nothing.
Drop(c) == call[c] # Idle /\ Refuse(c)

Next ==
    \E c \in Clients :
       \/ \E names \in Names : AskToCreate(c, names)
       \/ \E s \in Slugs, names \in Names : AskToEdit(c, s, names)
       \/ \E s \in Slugs, codes \in SUBSET Codes : AskToLoad(c, s, codes)
       \/ LookForData(c) \/ LookIfTaken(c) \/ Insert(c) \/ Update(c)
       \/ LookForForeign(c) \/ Store(c) \/ Drop(c)

Spec == Init /\ [][Next]_vars

-----------------------------------------------------------------------------
(* Properties *)

\* No two municipalities share an address or a code: requests that both found
\* a value free are told apart by the indexes (municipalities.service.ts:174).
Distinct ==
    \A m, n \in Registered :
        m # n => town[m].slug # town[n].slug /\ town[m].dane # town[n].dane

\* A stored property is of a municipality whose DANE code, now or when the
\* load arrived, its cadastral code starts with (assert-municipality.ts:8).
CodesOfTheirTown ==
    \A k \in Codes : owner[k] # Null => owner[k] \in had[Prefix[k]]

\* No load edits a property of another municipality (persist-tax-roll.ts:93),
\* unless the DANE code its codes start with has passed from one to another.
OwnRowsOnly ==
    \A k \in Codes : writer[k] # owner[k] => Cardinality(had[Prefix[k]]) > 1

\* The slug and the DANE code do not change once there is data
\* (municipalities.service.ts:59), except by an edit that had already looked
\* for data when the first load was committed.
FrozenButCrossings ==
    [][\A m \in loaded : town'[m] # town[m] =>
          \E c \in crossing : call[c].id = m /\ call[c].at = "update"]_vars

-----------------------------------------------------------------------------
(* The inductive invariant behind them *)

\* A municipality that has data is registered, and one that is registered has
\* had the DANE code it has.
HadIsTheirs ==
    /\ loaded \subseteq Registered
    /\ \A m \in Registered : m \in had[town[m].dane]

\* What a call in flight found: an edit and a load are of a municipality that
\* was there, a creation of none, and an edit that is past its look for data
\* crosses any load committed since.
CallsFound ==
    \A c \in Clients :
        LET e == call[c]
        IN  /\ e.id = Null <=> e.read = Null
            /\ e.id # Null => e.id \in Registered
            /\ e.at \in {"data", "update", "load", "store"} => e.id # Null
            /\ e.at = "insert" => e.id = Null
            /\ e.at \in {"data", "taken", "insert", "update"} => e.new # Null
            /\ e.at \in {"taken", "update"} /\ e.id \in loaded => c \in crossing

\* And the codes of a load start with a DANE code that its municipality has had.
LoadsFound ==
    \A c \in Clients : call[c].at \in {"load", "store"} =>
        \A k \in call[c].codes : call[c].id \in had[Prefix[k]]

IInv ==
    /\ TypeOK
    /\ HadIsTheirs
    /\ CallsFound
    /\ LoadsFound
    /\ \A d \in Danes : IsFiniteSet(had[d])
    /\ Distinct
    /\ CodesOfTheirTown
    /\ OwnRowsOnly
=============================================================================
