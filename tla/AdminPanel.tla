----------------------------- MODULE AdminPanel -----------------------------
(***************************************************************************)
(* The panel of the Administrator in one tab: its address names the        *)
(* municipality it works in, and everything on it follows the address.     *)
(* The list of municipalities comes from the backend in reads that may     *)
(* land out of order; a municipality that is not in the list is looked up  *)
(* once more; one just created is added to the list by hand.  An address   *)
(* that changes is not yet the one on screen: the browser says so in an    *)
(* event of its own, and a call made in between goes to the new address.   *)
(***************************************************************************)
EXTENDS Naturals, FiniteSets, Sequences

CONSTANTS
    Slugs,       \* slugs, strings as the segments of an address are
    Order,       \* Order[s]: where the name puts it in the list
    Submitted,   \* the slugs somebody types in the form
    Elsewhere,   \* those created from another tab, or by a call to the API
    Visited,     \* addresses somebody types or has saved, as their segments
    Sections,    \* the views somebody goes to from the menu
    MaxReads,    \* bound: reads of the list in flight
    MaxMoves,    \* bound: times the user changes the address
    MaxFaults,   \* bound: calls that fail
    Null

VARIABLES
    registered,  \* backend: the slugs of the municipalities there are
    remembered,  \* localStorage: the last municipality of this browser
    address,     \* window.location.hash, as its segments
    shownAt,     \* the address of the last render
    mounted,     \* is the panel on the page, or the public consultation
    list,        \* useMunicipalities: its state and how often each is listed
    reads,       \* reads of the list in flight
    checked,     \* checkedSlug
    redirected,  \* the redirect the last effect asked for
    dialog,      \* the dialog that adds a municipality
    creating,    \* the creations in flight: their slug and what became of it
    rows,        \* the municipality the data on screen is of, or Null
    asks,        \* calls of the screen in flight
    moves, faults,
    undone       \* was an address left before its event

vars == <<registered, remembered, address, shownAt, mounted, list, reads, checked,
          redirected, dialog, creating, rows, asks, moves, faults, undone>>

-----------------------------------------------------------------------------
(* Addresses *)

Templates(segment) == <<"configuracion", "plantillas", segment>>

AdminViews == {<<"cargas">>, <<"liquidaciones">>, <<"mandamientos">>, <<"configuracion">>,
               Templates("liquidacion"), Templates("mandamiento")}

\* The addresses a view had before, and the view they move to.
Aliases == {<<"plantillas">>, <<"consulta-publica">>, <<"configuracion", "plantillas">>,
            <<"configuracion", "consulta">>}

Default == <<"cargas">>

\* asView: whether a path names a view, which one, and whether it is an alias.
AsView(path) ==
    [known |-> path \in AdminViews \cup Aliases,
     view |-> IF path \in AdminViews THEN path
              ELSE IF path \in Aliases THEN <<"configuracion">>
              ELSE Default,
     alias |-> path \in Aliases]

\* #/<slug>/<view>
AdminHref(slug, view) == <<slug>> \o view

\* parseAdminRoute: an address of before the slugs, #/<view>, names none.
ParseAdmin(path) ==
    IF path = <<>> \/ (Len(path) = 1 /\ AsView(path).known)
    THEN [slug |-> Null, view |-> AsView(path).view, alias |-> AsView(path).alias]
    ELSE [slug |-> Head(path), view |-> AsView(Tail(path)).view,
          alias |-> AsView(Tail(path)).alias]

\* parsePublicConsultationRoute: #/consulta is not the panel, with or without a
\* municipality after it.
IsPublic(path) == path # <<>> /\ Head(path) = "consulta"

\* isReservedSlug
Reserved(slug) == slug = "consulta"

\* Slugs has whatever the addresses name, and the menu goes to views.
AdminPanelAssumption ==
    /\ Slugs \subseteq STRING /\ Order \in [Slugs -> Nat]
    /\ Submitted \cup Elsewhere \subseteq Slugs
    /\ AdminViews \cup Visited \subseteq Seq(STRING)
    /\ \A path \in Visited : ParseAdmin(path).slug \in Slugs \cup {Null}
    /\ Sections \subseteq AdminViews
    /\ MaxReads \in Nat \ {0} /\ MaxMoves \in Nat /\ MaxFaults \in Nat
    /\ Null \notin Slugs /\ Null \notin Seq(STRING)

-----------------------------------------------------------------------------
(* Types and helpers *)

\* A read of the list: load is the first and the retries, focus and look the
\* quiet ones.  of is the slug a lookup is for, while it is not cancelled; seen
\* the list the backend answers with, once it has.
Read == [for : {"load", "focus", "look"}, of : Slugs \cup {Null},
         seen : (SUBSET Slugs) \cup {Null}]

\* form is FALSE when the form that sent it is no longer on the page.
Creation == [slug : Slugs, became : {"sent", "created", "taken"}, form : BOOLEAN]

TypeOK ==
    /\ registered \subseteq Slugs
    /\ remembered \in Slugs \cup {Null}
    /\ mounted \in BOOLEAN
    /\ list.status \in {"loading", "error", "ready"}
    /\ list.times \in [Slugs -> 0 .. 2]
    /\ reads \subseteq Read
    /\ checked \in Slugs \cup {Null}
    /\ dialog \in {"closed", "open", "saving"}
    /\ creating \subseteq Creation
    /\ \A k \in asks : k.from \in Slugs
    /\ moves \in 0 .. MaxMoves /\ faults \in 0 .. MaxFaults
    /\ undone \in BOOLEAN

NoneListed == [s \in Slugs |-> 0]
AsList(seen) == [status |-> "ready", times |-> [s \in Slugs |-> IF s \in seen THEN 1 ELSE 0]]
Loading == [status |-> "loading", times |-> NoneListed]

ListedIn(l) == {s \in Slugs : l.times[s] > 0}

Route == ParseAdmin(shownAt)

\* The municipality of the panel: that of the address, if it is in the list.
ActiveIn(l, path) ==
    LET slug == ParseAdmin(path).slug
    IN IF slug \in ListedIn(l) THEN slug ELSE Null

Active == ActiveIn(list, shownAt)

\* pickInitialMunicipality: the last one used, else the first of the list.
FallbackIn(l, last) ==
    LET there == ListedIn(l)
    IN IF there = {} THEN Null
       ELSE IF last \in there THEN last
       ELSE CHOOSE s \in there : \A t \in there : Order[s] <= Order[t]

\* redirectTo: to the fallback, or from an alias to the view's own address.
RedirectIn(l, path, last) ==
    LET route == ParseAdmin(path)
        fallback == FallbackIn(l, last)
    IN IF route.slug = Null
       THEN IF l.status = "ready" /\ fallback # Null THEN AdminHref(fallback, route.view)
            ELSE Null
       ELSE IF route.alias THEN AdminHref(route.slug, route.view) ELSE Null

\* missingSlug
MissingIn(l, path) ==
    IF l.status = "ready" /\ ActiveIn(l, path) = Null THEN ParseAdmin(path).slug ELSE Null

Content ==
    IF list.status = "error" THEN "error"
    ELSE IF list.status = "ready" /\ ListedIn(list) = {} THEN "empty"
    ELSE IF Active # Null THEN "screen"
    ELSE IF MissingIn(list, shownAt) # Null /\ checked = MissingIn(list, shownAt)
    THEN "not-found"
    ELSE "blank"

NewRead(for, of) == [for |-> for, of |-> of, seen |-> Null]

-----------------------------------------------------------------------------
(* A render and its effects.  It reads the address there is now, whatever    *)
(* made it happen.  The effects run when what they depend on changed: the    *)
(* redirect, and the lookup of a missing slug, whose former run is cancelled *)

Cancelled(left) == {[r EXCEPT !.of = IF r.for = "look" THEN Null ELSE @] : r \in left}

Effects(newList, newChecked, left) ==
    LET redirect == RedirectIn(newList, address, remembered)
        missing == MissingIn(newList, address)
        again == <<missing, newChecked>> # <<MissingIn(list, shownAt), checked>>
    IN /\ redirected' = redirect
       /\ address' = IF redirect \notin {Null, redirected} THEN redirect ELSE address
       /\ reads' = IF ~again THEN left
                   ELSE IF missing \in {Null, newChecked} THEN Cancelled(left)
                   ELSE Cancelled(left) \cup {NewRead("look", missing)}

Render(newList, newChecked, left) ==
    LET active == ActiveIn(newList, address)
    IN /\ list' = newList
       /\ shownAt' = address
       /\ checked' = newChecked
       /\ remembered' = IF active # Null THEN active ELSE remembered
       /\ Effects(newList, newChecked, left)
       \* keyed by the slug: another municipality is another screen
       /\ rows' = IF active = Active THEN rows ELSE Null
       /\ asks' = IF active = Active THEN asks ELSE {}

\* The panel starts over, with a first read of the list: the reads of before
\* are of nobody.
Start(path) ==
    LET redirect == RedirectIn(Loading, path, remembered)
    IN /\ shownAt' = path
       /\ redirected' = redirect
       /\ address' = IF redirect = Null THEN path ELSE redirect
       /\ list' = Loading
       /\ checked' = Null
       /\ reads' = {NewRead("load", Null)}
       /\ dialog' = "closed"
       /\ creating' = {[k EXCEPT !.form = FALSE] : k \in creating}
       /\ rows' = Null
       /\ asks' = {}

Init ==
    /\ registered \in SUBSET Elsewhere
    /\ remembered \in Elsewhere \cup {Null}
    /\ \E path \in Visited :
          /\ ~IsPublic(path)
          /\ shownAt = path
          /\ redirected = RedirectIn(Loading, path, remembered)
          /\ address = IF redirected = Null THEN path ELSE redirected
    /\ mounted = TRUE
    /\ list = Loading
    /\ reads = {NewRead("load", Null)}
    /\ checked = Null
    /\ dialog = "closed"
    /\ creating = {}
    /\ rows = Null
    /\ asks = {}
    /\ moves = 0
    /\ faults = 0
    /\ undone = FALSE

-----------------------------------------------------------------------------
(* The address *)

\* What a change of the address leaves alone.
Rest == <<registered, remembered, shownAt, mounted, list, reads, checked, redirected,
          dialog, creating, rows, asks, faults>>

\* The user changes the address.
Go(path) ==
    /\ moves < MaxMoves
    /\ path # address
    /\ moves' = moves + 1
    /\ address' = path
    /\ undone' = (undone \/ address # shownAt)
    /\ UNCHANGED Rest

\* Typed, a saved link, or the fallback the panel offers.
Type(path) == path \in Visited /\ Go(path)

FollowLink(view) ==
    /\ mounted /\ dialog = "closed" /\ Active # Null
    /\ Go(AdminHref(Active, view))

\* The one checked does nothing.
Switch(slug) ==
    /\ mounted /\ dialog = "closed"
    /\ slug \in ListedIn(list) \ {Active}
    /\ Go(AdminHref(slug, Route.view))

\* hashchange.  The public consultation takes the panel off the page, and the
\* panel comes back anew.
HashChange ==
    /\ address # shownAt
    /\ mounted' = ~IsPublic(address)
    /\ IF IsPublic(address)
       THEN /\ shownAt' = address
            /\ list' = Loading /\ checked' = Null /\ redirected' = Null
            /\ reads' = {} /\ dialog' = "closed" /\ rows' = Null /\ asks' = {}
            /\ creating' = {[k EXCEPT !.form = FALSE] : k \in creating}
            /\ UNCHANGED <<remembered, address>>
       ELSE IF mounted
       THEN Render(list, checked, reads) /\ UNCHANGED <<dialog, creating>>
       ELSE Start(address) /\ UNCHANGED remembered
    /\ UNCHANGED <<registered, moves, faults, undone>>

-----------------------------------------------------------------------------
(* The list of municipalities *)

\* What a change of the reads alone leaves alone.
Quiet == <<remembered, address, shownAt, mounted, list, checked, redirected, dialog,
           creating, rows, asks, moves, faults, undone>>

\* The window gets the focus: the list is read again.
Focus ==
    /\ mounted
    /\ Cardinality(reads) < MaxReads
    /\ reads' = reads \cup {NewRead("focus", Null)}
    /\ UNCHANGED <<Quiet, registered>>

\* The backend reads its table.
Answer(r) ==
    /\ r.seen = Null
    /\ reads' = (reads \ {r}) \cup {[r EXCEPT !.seen = registered]}
    /\ UNCHANGED <<Quiet, registered>>

\* Somebody else creates a municipality.
CreateElsewhere(s) ==
    /\ s \in Elsewhere \ registered
    /\ registered' = registered \cup {s}
    /\ UNCHANGED <<Quiet, reads>>

\* A lookup that was not cancelled has checked its slug, found or not.
CheckedAfter(r) == IF r.for = "look" /\ r.of # Null THEN r.of ELSE checked

\* Any answer is the list from now on, however old.
Land(r) ==
    /\ r.seen # Null
    /\ Render(AsList(r.seen), CheckedAfter(r), reads \ {r})
    /\ UNCHANGED <<registered, mounted, dialog, creating, moves, faults, undone>>

\* A quiet read that fails keeps the list; the first one and a retry are an
\* error, even over a list a quiet read has brought meanwhile.
AfterFailure(r) == IF r.for = "load" THEN [Loading EXCEPT !.status = "error"] ELSE list

\* A mutant: a lookup that fails has not checked its slug.
FailUnchecked(r) ==
    /\ faults < MaxFaults
    /\ faults' = faults + 1
    /\ Render(AfterFailure(r), checked, reads \ {r})
    /\ UNCHANGED <<registered, mounted, dialog, creating, moves, undone>>

Fail(r) ==
    /\ faults < MaxFaults
    /\ faults' = faults + 1
    /\ Render(AfterFailure(r), CheckedAfter(r), reads \ {r})
    /\ UNCHANGED <<registered, mounted, dialog, creating, moves, undone>>

\* The first read and the former retries are aborted.
Retry ==
    /\ mounted /\ list.status = "error"
    /\ Render(Loading, checked,
              {r \in reads : r.for # "load"} \cup {NewRead("load", Null)})
    /\ UNCHANGED <<registered, mounted, dialog, creating, moves, faults, undone>>

-----------------------------------------------------------------------------
(* The dialog that adds a municipality *)

Page == <<remembered, address, shownAt, mounted, list, reads, checked, redirected,
          rows, asks, moves, undone>>

\* From the switcher, or from the panel of no municipality.
OpenDialog ==
    /\ mounted /\ dialog = "closed" /\ list.status = "ready"
    /\ dialog' = "open"
    /\ UNCHANGED <<Page, registered, creating, faults>>

\* Not while the creation is on its way.
CloseDialog ==
    /\ dialog = "open"
    /\ dialog' = "closed"
    /\ UNCHANGED <<Page, registered, creating, faults>>

\* The form points at a slug it will not send.
Submit(s) ==
    /\ dialog = "open"
    /\ s \in Submitted /\ ~Reserved(s)
    /\ creating = {}
    /\ dialog' = "saving"
    /\ creating' = {[slug |-> s, became |-> "sent", form |-> TRUE]}
    /\ UNCHANGED <<Page, registered, faults>>

\* The backend creates it, or somebody has its slug.
Create(k) ==
    /\ k.became = "sent"
    /\ registered' = registered \cup {k.slug}
    /\ creating' = {[k EXCEPT !.became = IF k.slug \in registered THEN "taken"
                                         ELSE "created"]}
    /\ UNCHANGED <<Page, dialog, faults>>

Added(s) == IF list.status = "ready" THEN [list EXCEPT !.times[s] = IF @ < 2 THEN @ + 1 ELSE @]
            ELSE list

\* onCreated: added to the list, the dialog closed and the address changed; the
\* render that follows reads the three.  The answer of a form that is no longer
\* on the page changes the address all the same.
Created(k) ==
    /\ k.became = "created"
    /\ creating' = {}
    /\ address' = AdminHref(k.slug, Default)
    /\ IF k.form
       THEN /\ dialog' = "closed"
            /\ list' = Added(k.slug)
            /\ shownAt' = address'
            /\ redirected' = Null
            /\ remembered' = IF k.slug \in ListedIn(list') THEN k.slug ELSE remembered
            /\ reads' = Cancelled(reads)
            /\ rows' = IF k.slug = Active THEN rows ELSE Null
            /\ asks' = IF k.slug = Active THEN asks ELSE {}
       ELSE UNCHANGED <<dialog, list, shownAt, redirected, remembered, reads, rows, asks>>
    /\ undone' = (undone \/ address # shownAt)
    /\ UNCHANGED <<registered, mounted, checked, moves, faults>>

\* Refused, or no answer: the form stays with what was typed.
NotCreated(k) ==
    /\ \/ k.became = "taken" /\ UNCHANGED faults
       \/ faults < MaxFaults /\ faults' = faults + 1
    /\ creating' = {}
    /\ dialog' = IF k.form THEN "open" ELSE dialog
    /\ UNCHANGED <<Page, registered>>

-----------------------------------------------------------------------------
(* The screen of the municipality *)

\* It asks the backend for its data: municipalityPath takes the slug of the
\* address there is at that moment.
AskRows ==
    /\ mounted /\ Content = "screen" /\ asks = {} /\ rows = Null
    /\ ParseAdmin(address).slug # Null
    /\ asks' = {[from |-> Active, to |-> ParseAdmin(address).slug]}
    /\ UNCHANGED <<registered, remembered, address, shownAt, mounted, list, reads, checked,
                   redirected, dialog, creating, rows, moves, faults, undone>>

\* The backend answers for the municipality of the path.  A call made between
\* the change of the address and its event is answered after the event.
RowsLand(k) ==
    /\ k.to = k.from \/ address = shownAt
    /\ asks' = {}
    /\ rows' = IF k.to \in registered THEN k.to ELSE Null
    /\ UNCHANGED <<registered, remembered, address, shownAt, mounted, list, reads, checked,
                   redirected, dialog, creating, moves, faults, undone>>

Next ==
    \/ \E path \in Visited : Type(path)
    \/ \E view \in Sections : FollowLink(view)
    \/ \E s \in Slugs : Switch(s) \/ CreateElsewhere(s) \/ Submit(s)
    \/ \E r \in reads : Answer(r) \/ Land(r) \/ Fail(r)
    \/ \E k \in creating : Create(k) \/ Created(k) \/ NotCreated(k)
    \/ \E k \in asks : RowsLand(k)
    \/ HashChange \/ Focus \/ Retry \/ OpenDialog \/ CloseDialog \/ AskRows

Spec == Init /\ [][Next]_vars

-----------------------------------------------------------------------------
(* Properties *)

\* A panel with nothing on it is about to have something: the list is being
\* read, the missing municipality looked up, or the event of a new address is
\* on its way (AdminPanel.tsx:182).  Unless the user went back from an address
\* before its event: the redirect is then not asked for again.
BlankIsOnItsWay ==
    mounted /\ Content = "blank" /\ ~undone =>
        \/ address # shownAt
        \/ list.status = "loading" /\ \E r \in reads : r.for = "load"
        \/ \E r \in reads : r.for = "look" /\ r.of = MissingIn(list, shownAt)

\* A form that waits has its creation on its way.
SavingIsOnItsWay == dialog = "saving" => \E k \in creating : k.form

\* What the screen shows is of the municipality of the address it was drawn
\* for: nothing of the previous one survives (AdminPanel.tsx:141).
RowsOfTheirTown == rows # Null /\ ~undone => rows = Active

\* Every municipality created with the form has its panel: each view's address
\* opens that view of it, and not the public consultation.
LinksOpen ==
    \A s \in registered \ Elsewhere, view \in AdminViews :
        /\ ~IsPublic(AdminHref(s, view))
        /\ ParseAdmin(AdminHref(s, view)) = [slug |-> s, view |-> view, alias |-> FALSE]
=============================================================================
