------------------------------ MODULE WebOrder ------------------------------
(***************************************************************************)
(* An order placed on the website: the form (website/src/js/order-form.js) *)
(* with its address check (address-autocomplete.js) and its human          *)
(* verification (human-verification.js), and the public route that creates *)
(* the order (routes/orders.ts, createOrder).  The form awaits three       *)
(* answers, of the address check, of the opening hours and of the order    *)
(* itself, while the customer goes on typing, the page's timers run and    *)
(* the shop closes.  The route goes on when the page has given up.         *)
(*                                                                         *)
(* Of an order only its address is kept: two orders with one address have  *)
(* one fingerprint.  The customer may submit the form at any moment, also  *)
(* while its button is disabled.                                           *)
(***************************************************************************)
EXTENDS Integers, Sequences

CONSTANTS
    Addresses,
    Deliverable,    \* those the address check confirms
    MaxLoads,       \* bound: how often the page is loaded
    MaxTokens,      \* bound: human verifications solved
    MaxPosts        \* bound: orders sent

NoAddress == "no address"
NoToken == 0

ASSUME WebOrderAssumption ==
    /\ Deliverable \subseteq Addresses /\ {NoAddress, "none"} \cap Addresses = {}
    /\ MaxLoads \in Nat \ {0} /\ {MaxTokens, MaxPosts} \subseteq Nat

VARIABLES
    page,       \* the page the customer has open
    widget,     \* the human verification: the token to use, and how many it gave
    post,       \* the requests to create an order, in the order they were sent
    reserved,   \* addresses the duplicate guard holds a reservation for
    verified,   \* tokens siteverify has accepted: it accepts one once
    shop        \* what the server's saved hours say

webOrderVars == <<page, widget, post, reserved, verified, shop>>

Shops == {"open", "closed"}

Page ==
    [load : 1 .. MaxLoads,
     phase : {"editing", "address", "hours", "posting", "ordered"},
     field : Addresses,                      \* what the address fields show
     selected : Addresses \cup {NoAddress},  \* the address that was checked
     payload : Addresses \cup {NoAddress},   \* the order being submitted
     checking : BOOLEAN,     \* its address check is still of the current generation
     lookup : {"none"} \cup Addresses,       \* a suggestion being looked up
     closed : BOOLEAN,       \* the form says that the shop is closed
     status : Shops \cup {"none", "asked"},  \* the pending request for the hours
     closure : BOOLEAN,      \* history: an order was refused as the shop is closed,
                             \* and the hours have not been asked for since
     unconfirmed : BOOLEAN]

Widget == [token : 0 .. MaxTokens, given : 0 .. MaxTokens]

\* What a request was answered. "refused" is each refusal the form knows by its code
\* or its errors; "error" is every answer it does not know.
Rejections == {"limited", "refused", "closed"}
Answers == Rejections \cup {"none", "duplicate", "error", "created"}

Stages == {"sent", "verified", "reserved", "hours", "committed", "over"}

Post ==
    [load : 1 .. MaxLoads, address : Addresses, token : 1 .. MaxTokens,
     stage : Stages, created : BOOLEAN, answer : Answers]

WebOrderTypeOK ==
    /\ page \in Page
    /\ widget \in Widget
    /\ post \in Seq(Post) /\ Len(post) <= MaxPosts
    /\ reserved \subseteq Addresses
    /\ verified \subseteq 1 .. MaxTokens
    /\ shop \in Shops

Loaded(n, a) ==
    [load |-> n, phase |-> "editing", field |-> a, selected |-> NoAddress, payload |-> NoAddress,
     checking |-> FALSE, lookup |-> "none", closed |-> FALSE, status |-> "asked",
     closure |-> FALSE, unconfirmed |-> FALSE]

WebOrderInit ==
    /\ \E a \in Addresses : page = Loaded(1, a)
    /\ widget = [token |-> NoToken, given |-> 0]
    /\ post = <<>>
    /\ reserved = {} /\ verified = {}
    /\ shop \in Shops

serverVars == <<post, reserved, verified, shop>>
formOnly == <<widget, serverVars>>

-----------------------------------------------------------------------------
\* The address fields. An event cancels what is being checked; a browser that
\* fills in saved details need not send one.
CheckCancelled(p) == [p EXCEPT !.checking = FALSE, !.lookup = "none", !.selected = NoAddress]

Type(a) ==
    /\ page.phase # "ordered" /\ a # page.field
    /\ page' = [CheckCancelled(page) EXCEPT !.field = a]
    /\ UNCHANGED formOnly

Autofill(a) ==
    /\ page.phase # "ordered" /\ a # page.field
    /\ page' = [page EXCEPT !.field = a]
    /\ UNCHANGED formOnly

\* The customer picks a suggestion; its details are looked up. An answer that is
\* not of this generation, or for other fields, is dropped.
Choose ==
    /\ page.phase # "ordered"
    /\ page' = [CheckCancelled(page) EXCEPT !.lookup = page.field]
    /\ UNCHANGED formOnly

Chosen ==
    /\ page.lookup # "none"
    /\ \/ /\ page.lookup = page.field
          /\ \E a \in Addresses :
                 page' = [page EXCEPT !.lookup = "none", !.field = a, !.selected = a]
       \/ page' = [page EXCEPT !.lookup = "none"]
    /\ UNCHANGED formOnly

\* The verification's callback; its expiry, an error of it, or the 290 seconds a token
\* is used for.
ready == widget.token # NoToken

Solve ==
    /\ widget.given < MaxTokens
    /\ widget' = [token |-> widget.given + 1, given |-> widget.given + 1]
    /\ UNCHANGED <<page, serverVars>>

reset == [widget EXCEPT !.token = NoToken]

ExpireToken ==
    /\ ready
    /\ widget' = reset
    /\ UNCHANGED <<page, serverVars>>

-----------------------------------------------------------------------------
\* refreshBusinessStatus joins a pending request.
Asked(p) ==
    IF p.status = "none" THEN [p EXCEPT !.status = "asked", !.closure = FALSE] ELSE p

\* The minute's timer, and the page shown again.
refreshVisibleHours ==
    /\ page.phase = "editing" /\ ~page.unconfirmed
    /\ page.status = "none"
    /\ page' = Asked(page)
    /\ UNCHANGED formOnly

\* The submit handler reads the form and starts the address check.
SubmitForm ==
    /\ page.phase = "editing" /\ ~page.unconfirmed
    /\ page' = [CheckCancelled(page) EXCEPT !.phase = "address", !.payload = page.field,
                                       !.checking = TRUE]
    /\ UNCHANGED formOnly

Editing(p) == [p EXCEPT !.phase = "editing", !.payload = NoAddress]

\* The check is answered: the hours are asked for again, or the handler throws.
AddressChecked ==
    /\ page.phase = "address"
    /\ \/ /\ page.checking /\ page.field = page.payload /\ page.payload \in Deliverable
          /\ page' = [Asked(page) EXCEPT !.phase = "hours", !.selected = page.payload,
                                         !.checking = FALSE]
       \/ page' = [Editing(page) EXCEPT !.checking = FALSE]
    /\ UNCHANGED formOnly

matches == page.selected = page.field /\ page.selected = page.payload

Sent == [load |-> page.load, address |-> page.payload, token |-> widget.token,
         stage |-> "sent", created |-> FALSE, answer |-> "none"]

\* Mutant: the address is not compared again.
HoursArrive_Unmatched ==
    \E h \in {page.status, "unknown"} \ {"none", "asked"} :
        LET told == [page EXCEPT !.closed = h = "closed", !.status = "none"] IN
        /\ page.status # "none"
        /\ \/ /\ page.phase # "hours"
              /\ page' = told /\ post' = post
           \/ /\ page.phase = "hours"
              /\ h = "closed" \/ ~ready
              /\ page' = Editing(told) /\ post' = post
           \/ /\ page.phase = "hours" /\ h # "closed" /\ ready
              /\ Len(post) < MaxPosts
              /\ page' = [told EXCEPT !.phase = "posting"]
              /\ post' = Append(post, Sent)
        /\ UNCHANGED <<widget, reserved, verified, shop>>

\* The hours arrive, or cannot be had. A submission that awaited them goes on.
HoursArrive ==
    \E h \in {page.status, "unknown"} \ {"none", "asked"} :
        LET told == [page EXCEPT !.closed = h = "closed", !.status = "none"] IN
        /\ page.status # "none"
        /\ \/ /\ page.phase # "hours"
              /\ page' = told /\ post' = post
           \/ /\ page.phase = "hours"
              /\ h = "closed" \/ ~matches \/ ~ready
              /\ page' = Editing(told) /\ post' = post
           \/ /\ page.phase = "hours" /\ h # "closed" /\ matches /\ ready
              /\ Len(post) < MaxPosts
              /\ page' = [told EXCEPT !.phase = "posting"]
              /\ post' = Append(post, Sent)
        /\ UNCHANGED <<widget, reserved, verified, shop>>

\* The last request is the one the form awaits while it is posting.
last == post[Len(post)]

\* Mutant: no answer is taken for a refusal.
isKnownRejection_Silence(a, readable) == a \in Rejections \cup {"none"}

\* An answer the form knows to be a refusal of an order that was not created; 429
\* is known by its status alone, the others by their body.
isKnownRejection(a, readable) == a = "limited" \/ (readable /\ a \in Rejections)

\* The answer arrives, whole or without its body; or nothing does, in twenty seconds.
Answered ==
    /\ page.phase = "posting"
    /\ \E a \in {last.answer, "none"}, readable \in BOOLEAN :
           \/ /\ isKnownRejection(a, readable)
              /\ widget' = reset
              /\ page' = [Editing(page) EXCEPT !.closed = @ \/ a = "closed",
                                               !.closure = @ \/ a = "closed"]
           \/ /\ a = "created" /\ readable
              /\ page' = [Editing(page) EXCEPT !.phase = "ordered"]
              /\ widget' = widget
           \/ /\ ~isKnownRejection(a, readable)
              /\ ~(a = "created" /\ readable)
              /\ page' = [Editing(page) EXCEPT !.unconfirmed = TRUE]
              /\ widget' = widget
    /\ UNCHANGED serverVars

\* Whatever a page was doing, a new one knows nothing of it.
Reload ==
    /\ page.load < MaxLoads
    /\ page' = Loaded(page.load + 1, page.field)
    /\ widget' = reset
    /\ UNCHANGED serverVars

-----------------------------------------------------------------------------
\* The server reads its saved hours for the status request.
ServeStatus ==
    /\ page.status = "asked"
    /\ page' = [page EXCEPT !.status = shop]
    /\ UNCHANGED formOnly

Flip ==
    /\ shop' \in Shops \ {shop}
    /\ UNCHANGED <<page, widget, post, reserved, verified>>

Refuse(i, a) ==
    post' = [post EXCEPT ![i].stage = "over", ![i].answer = a]

Pass(i, stage) == post' = [post EXCEPT ![i].stage = stage]

\* The rate limit and the schema; then siteverify, which may fail or refuse.
RequireVerification(i) ==
    /\ post[i].stage = "sent"
    /\ \/ Refuse(i, "limited") /\ UNCHANGED verified
       \/ Refuse(i, "refused") /\ UNCHANGED verified
       \/ /\ post[i].token \notin verified
          /\ Pass(i, "verified")
          /\ verified' = verified \cup {post[i].token}
    /\ UNCHANGED <<page, widget, reserved, shop>>

\* preventDuplicatePublicOrderSubmission
Reserve(i) ==
    /\ post[i].stage = "verified"
    /\ \/ post[i].address \in reserved /\ Refuse(i, "duplicate") /\ UNCHANGED reserved
       \/ /\ post[i].address \notin reserved
          /\ Pass(i, "reserved")
          /\ reserved' = reserved \cup {post[i].address}
    /\ UNCHANGED <<page, widget, verified, shop>>

\* createOrder: the saved hours, which may not be had; the address; the transaction.
CheckHours(i) ==
    /\ post[i].stage = "reserved"
    /\ \/ shop = "closed" /\ Refuse(i, "closed")
       \/ Pass(i, "hours")
    /\ UNCHANGED <<page, widget, reserved, verified, shop>>

Commit(i) ==
    /\ post[i].stage = "hours"
    /\ \/ Refuse(i, "refused")
       \/ Refuse(i, "error")
       \/ /\ post[i].address \in Deliverable
          /\ post' = [post EXCEPT ![i].stage = "committed", ![i].created = TRUE]
    /\ UNCHANGED <<page, widget, reserved, verified, shop>>

\* What follows the commit, the dispatch and the notifications, may fail.
Respond(i) ==
    /\ post[i].stage = "committed"
    /\ Refuse(i, "created") \/ Refuse(i, "error")
    /\ UNCHANGED <<page, widget, reserved, verified, shop>>

\* The window of a reservation ends, or the failure that held it releases it.
Release(a) ==
    /\ a \in reserved
    /\ reserved' = reserved \ {a}
    /\ UNCHANGED <<page, widget, post, verified, shop>>

-----------------------------------------------------------------------------
FormNext ==
    \/ \E a \in Addresses : Type(a) \/ Autofill(a)
    \/ Choose \/ Chosen \/ Solve \/ ExpireToken
    \/ refreshVisibleHours \/ SubmitForm \/ AddressChecked \/ HoursArrive \/ Answered \/ Reload

ServerNext ==
    \/ ServeStatus \/ Flip
    \/ \E i \in DOMAIN post :
          \/ RequireVerification(i) \/ Reserve(i) \/ CheckHours(i)
          \/ Commit(i) \/ Respond(i)
    \/ \E a \in Addresses : Release(a)

WebOrderNext == FormNext \/ ServerNext

WebOrderSpec == WebOrderInit /\ [][WebOrderNext]_webOrderVars

-----------------------------------------------------------------------------
(***************************************************************************)
(* Properties                                                              *)
(***************************************************************************)
\* "To avoid a duplicate order": while the form can be submitted, no order it sent
\* was created, nor can be any more (order-form.js:283-303, 545-561).
NoSecondOrder ==
    page.phase \in {"editing", "address", "hours"} /\ ~page.unconfirmed =>
        \A i \in DOMAIN post :
            post[i].load = page.load => post[i].stage = "over" /\ ~post[i].created

\* One human verification is sent with one order: the provider accepts it once
\* (order-form.js:540-546, human-verification.js:18-24).
TokenSentOnce ==
    \A i, j \in DOMAIN post : post[i].token = post[j].token => i = j

\* "A background response must not overwrite a closure returned by order POST"
\* (order-form.js:434-439, 547-551).
ClosureKept == page.closure => page.closed

\* What holds of the form in every state: the three above.
WebOrderSound == NoSecondOrder /\ TokenSentOnce /\ ClosureKept

\* An order is sent to the address the form shows, and that address was confirmed,
\* whatever the customer or the browser changed meanwhile (order-form.js:535-541).
SentAsShown ==
    post' # post /\ Len(post') > Len(post) =>
        /\ page.field = post'[Len(post')].address
        /\ page.field \in Deliverable

\* What holds of the form in every state and of every step: the two above
\* (order-form.js:283-303, 434-439, 535-561).
FormKept == []WebOrderSound /\ [][SentAsShown]_webOrderVars
=============================================================================
