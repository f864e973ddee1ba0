--------------------------- MODULE WebOrderProofs ---------------------------
(***************************************************************************)
(* Theorems about an order placed on the website: whatever is lost, late   *)
(* or changed meanwhile, a form that can be submitted has sent no order    *)
(* that was or will be created, no human verification is used for two, a   *)
(* closure that an order was refused for stays on the page, and an order   *)
(* goes to the confirmed address that the form shows.  And about the tabs  *)
(* that track orders: whatever the others do to the storage they share, a  *)
(* visible one goes on asking for the order it follows, its status does    *)
(* not go back, and nothing makes a tracking link last longer.             *)
(***************************************************************************)
EXTENDS WebOrder, OrderTracking, SequenceTheorems, FiniteSetTheorems, TLAPS

\* The customer can submit, or has submitted and the order is not sent yet.
CanSend == page.phase \in {"editing", "address", "hours"} /\ ~page.unconfirmed

\* A request of this page that ended without an order.
Harmless(i) == post[i].load = page.load => post[i].stage = "over" /\ ~post[i].created

\* What a request may have been answered at its stage, and what it was sent with.
PostHolds(i) ==
    /\ post[i].load <= page.load
    /\ post[i].token <= widget.given
    /\ post[i].created => post[i].stage \in {"committed", "over"}
    /\ post[i].answer \in Rejections => post[i].stage = "over" /\ ~post[i].created

PostsInv == \A i \in DOMAIN post : PostHolds(i)

\* While the form awaits the answer of an order, that order is the only one of this page
\* that was or can be created; and no request for the hours is pending.
PostingInv ==
    page.phase = "posting" =>
        /\ Len(post) > 0 /\ page.status = "none"
        /\ post[Len(post)].load = page.load
        /\ \A i \in 1 .. Len(post) - 1 : Harmless(i)

\* A token that can still be sent was sent with no order.
FreshToken ==
    widget.token # NoToken /\ CanSend =>
        \A i \in DOMAIN post : post[i].token # widget.token

TokensInv == widget.token <= widget.given /\ FreshToken /\ TokenSentOnce

\* The hours that a closure waits for were not asked for yet.
ClosureInv == page.closure => page.closed /\ page.status = "none"

ConfirmedInv == page.phase = "hours" => page.payload \in Deliverable

\* A page whose order is not confirmed submits no other.
UnconfirmedInv == page.unconfirmed => page.phase = "editing"

FormInv ==
    /\ WebOrderTypeOK
    /\ PostsInv
    /\ NoSecondOrder
    /\ PostingInv
    /\ TokensInv
    /\ ClosureInv
    /\ ConfirmedInv
    /\ UnconfirmedInv

-----------------------------------------------------------------------------
\* The requests that were sent.
LEMMA PostValues ==
    ASSUME WebOrderTypeOK
    PROVE  /\ Len(post) \in Nat /\ DOMAIN post = 1 .. Len(post)
           /\ \A i \in DOMAIN post :
                  post[i] \in Post /\ post[i].load \in Nat /\ post[i].token \in Nat
<1> USE WebOrderAssumption
<1>1. post \in Seq(Post)
    BY DEF WebOrderTypeOK
<1>2. Len(post) \in Nat /\ DOMAIN post = 1 .. Len(post)
    BY <1>1, LenProperties
<1>3. \A i \in DOMAIN post : post[i] \in Post
    BY <1>1, <1>2, ElementOfSeq
<1> QED
    BY <1>2, <1>3 DEF Post

\* A page that was just loaded.
LEMMA LoadedPage ==
    ASSUME NEW n \in 1 .. MaxLoads, NEW a \in Addresses
    PROVE  /\ Loaded(n, a) \in Page
           /\ Loaded(n, a).load = n /\ Loaded(n, a).phase = "editing"
           /\ Loaded(n, a).status = "asked"
           /\ ~Loaded(n, a).closure /\ ~Loaded(n, a).unconfirmed
    BY DEF Loaded, Page, NoAddress, Shops

\* Where it begins.
LEMMA FormBegins == WebOrderInit => FormInv
<1> SUFFICES ASSUME WebOrderInit PROVE FormInv
    OBVIOUS
<1> USE WebOrderAssumption
<1>1. PICK a \in Addresses : page = Loaded(1, a)
    BY DEF WebOrderInit
<1>2. /\ page \in Page /\ page.load = 1 /\ ~page.closure
      /\ page.phase = "editing" /\ page.status = "asked"
    <2>1. 1 \in 1 .. MaxLoads
        OBVIOUS
    <2> QED
        BY <1>1, <2>1, LoadedPage
<1>3. widget \in Widget /\ widget.token = 0 /\ widget.given = 0
    BY DEF WebOrderInit, Widget, NoToken
<1>4. post = <<>> /\ post \in Seq(Post) /\ Len(post) = 0 /\ DOMAIN post = {}
    BY EmptySeq DEF WebOrderInit
<1>5. WebOrderTypeOK
    BY <1>2, <1>3, <1>4 DEF WebOrderInit, WebOrderTypeOK
<1> QED
    BY <1>2, <1>3, <1>4, <1>5
    DEF FormInv, PostsInv, NoSecondOrder, PostingInv, TokensInv, FreshToken, TokenSentOnce,
        ClosureInv, ConfirmedInv, UnconfirmedInv, Loaded, NoToken

-----------------------------------------------------------------------------
\* Steps that send nothing, use no token, and leave a form that can be submitted only
\* where there was one.
LEMMA QuietKeeps ==
    ASSUME FormInv, post' = post, widget' = widget,
           page'.load = page.load, page'.unconfirmed = page.unconfirmed,
           page'.phase = "posting" => page.phase = "posting" /\ page'.status = page.status,
           CanSend' => CanSend
    PROVE  PostsInv' /\ NoSecondOrder' /\ PostingInv' /\ TokensInv'
<1>1. PostsInv'
    BY DEF FormInv, PostsInv, PostHolds
<1>2. NoSecondOrder'
    BY DEF FormInv, NoSecondOrder, CanSend
<1>3. PostingInv'
    BY DEF FormInv, PostingInv, Harmless
<1>4. TokensInv'
    BY DEF FormInv, TokensInv, FreshToken, TokenSentOnce, NoToken
<1> QED
    BY <1>1, <1>2, <1>3, <1>4

\* What the fields that are typed in look like afterwards.
LEMMA FieldsKeep ==
    ASSUME FormInv, Choose \/ Chosen \/ \E a \in Addresses : Type(a) \/ Autofill(a)
    PROVE  FormInv'
<1> USE WebOrderAssumption
<1>1. page \in Page
    BY DEF FormInv, WebOrderTypeOK
<1>2. /\ page' \in Page
      /\ page'.load = page.load /\ page'.phase = page.phase /\ page'.payload = page.payload
      /\ page'.closed = page.closed /\ page'.status = page.status
      /\ page'.closure = page.closure /\ page'.unconfirmed = page.unconfirmed
    <2>1. CASE Choose
        BY <1>1, <2>1 DEF Choose, CheckCancelled, Page, NoAddress, Shops
    <2>2. CASE Chosen
        BY <1>1, <2>2 DEF Chosen, Page, NoAddress, Shops
    <2>3. ASSUME NEW a \in Addresses, Type(a) 
          PROVE  /\ page' \in Page
                 /\ page'.load = page.load /\ page'.phase = page.phase
                 /\ page'.payload = page.payload
                 /\ page'.closed = page.closed /\ page'.status = page.status
                 /\ page'.closure = page.closure /\ page'.unconfirmed = page.unconfirmed
        BY <1>1, <2>3 DEF Type, CheckCancelled, Page, NoAddress, Shops
    <2> QED
        BY <1>1, <2>1, <2>2, <2>3 DEF Autofill, Page, NoAddress, Shops
<1>3. UNCHANGED formOnly
    BY DEF Choose, Chosen, Type, Autofill
<1>4. WebOrderTypeOK'
    BY <1>2, <1>3 DEF FormInv, WebOrderTypeOK, formOnly, serverVars
<1>5. PostsInv' /\ NoSecondOrder' /\ PostingInv' /\ TokensInv'
    BY <1>2, <1>3, QuietKeeps DEF CanSend, formOnly, serverVars
<1>6. ClosureInv' /\ ConfirmedInv' /\ UnconfirmedInv'
    BY <1>2 DEF FormInv, ClosureInv, ConfirmedInv, UnconfirmedInv
<1> QED
    BY <1>4, <1>5, <1>6 DEF FormInv
\* The human verification: a token that it gives is one more than all it gave before.
LEMMA WidgetKeeps ==
    ASSUME FormInv, Solve \/ ExpireToken
    PROVE  FormInv'
<1> USE WebOrderAssumption
<1>1. /\ widget \in Widget /\ page \in Page /\ post \in Seq(Post)
      /\ \A i \in DOMAIN post : post[i].token \in Nat /\ post[i].token <= widget.given
    BY PostValues DEF FormInv, WebOrderTypeOK, PostsInv, PostHolds, Post
<1>2. UNCHANGED <<page, serverVars>>
    BY DEF Solve, ExpireToken
<1>3. /\ widget' \in Widget
      /\ widget'.given >= widget.given /\ widget'.token <= widget'.given
      /\ widget'.token = NoToken \/ widget'.token > widget.given
    <2>1. CASE Solve
        BY <1>1, <2>1 DEF Solve, Widget
    <2>2. CASE ExpireToken
        BY <1>1, <2>2 DEF ExpireToken, reset, Widget, NoToken
    <2> QED
        BY <2>1, <2>2
<1>4. WebOrderTypeOK'
    BY <1>2, <1>3 DEF FormInv, WebOrderTypeOK, serverVars
<1>5. PostsInv'
    <2> SUFFICES ASSUME NEW i \in DOMAIN post PROVE PostHolds(i)'
        BY <1>2 DEF PostsInv, serverVars
    <2>1. PostHolds(i)
        BY DEF FormInv, PostsInv
    <2>2. post[i].token <= widget'.given
        BY <1>1, <1>3 DEF Widget
    <2> QED
        BY <1>2, <2>1, <2>2 DEF PostHolds, serverVars
<1>6. TokensInv'
    <2>1. FreshToken'
        <3> SUFFICES ASSUME widget'.token # NoToken, NEW i \in DOMAIN post
                     PROVE  post[i].token # widget'.token
            BY <1>2 DEF FreshToken, serverVars
        <3> QED
            BY <1>1, <1>3 DEF Widget
    <2> QED
        BY <1>2, <1>3, <2>1 DEF FormInv, TokensInv, TokenSentOnce, serverVars
<1>7. NoSecondOrder' /\ PostingInv' /\ ClosureInv' /\ ConfirmedInv' /\ UnconfirmedInv'
    BY <1>2
    DEF FormInv, NoSecondOrder, PostingInv, Harmless, ClosureInv, ConfirmedInv, UnconfirmedInv,
        serverVars
<1> QED
    BY <1>4, <1>5, <1>6, <1>7 DEF FormInv

\* Asking for the hours, and what the address check and the server answer.
LEMMA AskingKeeps ==
    ASSUME FormInv, refreshVisibleHours \/ SubmitForm \/ AddressChecked \/ ServeStatus
    PROVE  FormInv'
<1> USE WebOrderAssumption
<1>1. page \in Page /\ shop \in Shops
    BY DEF FormInv, WebOrderTypeOK
<1>a. /\ page.closure => page.closed /\ page.status = "none"
      /\ page.unconfirmed => page.phase = "editing"
    BY DEF FormInv, ClosureInv, UnconfirmedInv
<1> DEFINE FormStays ==
        /\ page' \in Page
        /\ page'.load = page.load /\ page'.unconfirmed = page.unconfirmed
        /\ page'.phase = "posting" => page.phase = "posting" /\ page'.status = page.status
        /\ page'.phase \in {"editing", "address", "hours"} =>
               page.phase \in {"editing", "address", "hours"}
        /\ page'.closure => page'.closed /\ page'.status = "none"
        /\ page'.phase = "hours" => page'.payload \in Deliverable
        /\ page'.unconfirmed => page'.phase = "editing"
<1>2. FormStays
    <2>1. CASE refreshVisibleHours
        BY <1>1, <2>1 DEF refreshVisibleHours, Asked, Page, NoAddress, Shops
    <2>2. CASE SubmitForm
        BY <1>1, <1>a, <2>2 DEF SubmitForm, CheckCancelled, Page, NoAddress, Shops
    <2>3. ASSUME page.phase = "address", page.checking, page.payload \in Deliverable,
                 page' = [Asked(page) EXCEPT !.phase = "hours", !.selected = page.payload,
                                             !.checking = FALSE]
          PROVE  FormStays
        <3>1. Asked(page) \in Page
            BY <1>1 DEF Asked, Page, NoAddress, Shops
        <3>2. /\ Asked(page).load = page.load
              /\ ~Asked(page).unconfirmed /\ ~page.unconfirmed
              /\ Asked(page).payload = page.payload
              /\ Asked(page).closure =>
                     Asked(page).closed /\ Asked(page).status = "none"
            BY <1>1, <1>a, <2>3 DEF Asked, Page, NoAddress, Shops
        <3> HIDE DEF Asked
        <3>3. page' \in Page
            BY <1>1, <2>3, <3>1 DEF Page, NoAddress, Shops
        <3>4. /\ page'.load = page.load /\ page'.payload = page.payload
              /\ page'.phase = "hours" /\ ~page'.unconfirmed
              /\ page'.closure => page'.closed /\ page'.status = "none"
            BY <2>3, <3>1, <3>2 DEF Page
        <3>5. page'.unconfirmed = page.unconfirmed
            BY <1>1, <3>2, <3>3, <3>4 DEF Page
        <3> QED
            BY <2>3, <3>3, <3>4, <3>5
    <2>4. ASSUME page.phase = "address", page' = [Editing(page) EXCEPT !.checking = FALSE]
          PROVE  FormStays
        BY <1>1, <1>a, <2>4 DEF Editing, Page, NoAddress, Shops
    <2>5. CASE ServeStatus
        <3>1. page.phase # "posting" /\ ~page.closure
            BY <1>a, <2>5 DEF ServeStatus, FormInv, PostingInv
        <3>2. /\ page.phase = "hours" => page.payload \in Deliverable
              /\ page.unconfirmed => page.phase = "editing"
            BY DEF FormInv, ConfirmedInv, UnconfirmedInv
        <3> QED
            BY <1>1, <2>5, <3>1, <3>2 DEF ServeStatus, Page, NoAddress, Shops
    <2> QED
        BY <2>1, <2>2, <2>3, <2>4, <2>5 DEF AddressChecked
<1>3. UNCHANGED formOnly
    BY DEF refreshVisibleHours, SubmitForm, AddressChecked, ServeStatus
<1>4. WebOrderTypeOK'
    BY <1>2, <1>3 DEF FormInv, WebOrderTypeOK, formOnly, serverVars
<1>5. PostsInv' /\ NoSecondOrder' /\ PostingInv' /\ TokensInv'
    BY <1>2, <1>3, QuietKeeps DEF CanSend, formOnly, serverVars
<1>6. ClosureInv' /\ ConfirmedInv' /\ UnconfirmedInv'
    BY <1>2 DEF ClosureInv, ConfirmedInv, UnconfirmedInv
<1> QED
    BY <1>4, <1>5, <1>6 DEF FormInv

\* Another page.
LEMMA ReloadKeeps == FormInv /\ Reload => FormInv'
<1> SUFFICES ASSUME FormInv, Reload PROVE FormInv'
    OBVIOUS
<1> USE WebOrderAssumption
<1>1. page \in Page /\ widget \in Widget
    BY DEF FormInv, WebOrderTypeOK
<1>2. page.load + 1 \in 1 .. MaxLoads /\ page.field \in Addresses
    BY <1>1 DEF Reload, Page
<1>3. /\ page' \in Page /\ page'.load = page.load + 1 /\ page'.phase = "editing"
      /\ ~page'.closure
    BY <1>2, LoadedPage DEF Reload
<1>4. widget' \in Widget /\ widget'.token = NoToken /\ widget'.given = widget.given
    BY <1>1 DEF Reload, reset, Widget, NoToken
<1>5. UNCHANGED serverVars
    BY DEF Reload
<1>6. \A i \in DOMAIN post :
          PostHolds(i) /\ post[i].load \in Nat /\ post[i].load < page'.load
    BY <1>1, <1>3, PostValues DEF FormInv, PostsInv, PostHolds, Page
<1>7. WebOrderTypeOK'
    BY <1>3, <1>4, <1>5 DEF FormInv, WebOrderTypeOK, serverVars
<1>8. PostsInv' /\ NoSecondOrder'
    BY <1>1, <1>3, <1>4, <1>5, <1>6 DEF PostsInv, PostHolds, NoSecondOrder, serverVars, Page
<1>9. TokensInv'
    BY <1>1, <1>4, <1>5
    DEF FormInv, TokensInv, FreshToken, TokenSentOnce, serverVars, Widget, NoToken
<1> QED
    BY <1>3, <1>7, <1>8, <1>9 DEF FormInv, PostingInv, ClosureInv, ConfirmedInv, UnconfirmedInv
-----------------------------------------------------------------------------
\* The order is sent: to the address that was confirmed and is shown, with a token that
\* no other was sent with.
LEMMA SendingKeeps ==
    ASSUME FormInv, NEW h \in {page.status, "unknown"} \ {"none", "asked"},
           page.phase = "hours", page.status # "none", matches, ready, Len(post) < MaxPosts,
           page' = [page EXCEPT !.closed = (h = "closed"), !.status = "none",
                                !.phase = "posting"],
           post' = Append(post, Sent), UNCHANGED <<widget, reserved, verified, shop>>
    PROVE  FormInv' /\ SentAsShown
<1> USE WebOrderAssumption
<1>1. /\ page \in Page /\ widget \in Widget /\ post \in Seq(Post)
      /\ Len(post) \in Nat /\ DOMAIN post = 1 .. Len(post)
    BY PostValues DEF FormInv, WebOrderTypeOK
<1>2. /\ page' \in Page /\ page'.load = page.load /\ page'.unconfirmed = page.unconfirmed
      /\ page'.phase = "posting" /\ page'.status = "none" /\ page'.closure = page.closure
      /\ page'.field = page.field
    BY <1>1 DEF Page, NoAddress, Shops
<1>a. ~page.unconfirmed
    BY DEF FormInv, UnconfirmedInv
<1>3. page.payload = page.field /\ page.payload \in Addresses /\ page.payload \in Deliverable
    BY <1>1 DEF matches, FormInv, ConfirmedInv, Page
<1>4. /\ Sent \in Post /\ Sent.load = page.load /\ Sent.token = widget.token
      /\ Sent.address = page.field /\ ~Sent.created /\ Sent.answer \notin Rejections
    <2>1. widget.token \in 1 .. MaxTokens
        BY <1>1 DEF ready, Widget, NoToken
    <2> QED
        BY <1>1, <1>3, <2>1 DEF Sent, Post, Page, Stages, Answers, Rejections
<1> HIDE DEF Sent
<1>5. /\ post' \in Seq(Post) /\ Len(post') = Len(post) + 1
      /\ DOMAIN post' = 1 .. Len(post) + 1
      /\ post'[Len(post')] = Sent
      /\ \A i \in DOMAIN post : post'[i] = post[i]
    BY <1>1, <1>4, AppendProperties
<1>6. WebOrderTypeOK'
    BY <1>1, <1>2, <1>5 DEF FormInv, WebOrderTypeOK
<1>7. PostsInv'
    <2> SUFFICES ASSUME NEW i \in 1 .. Len(post) + 1 PROVE PostHolds(i)'
        BY <1>5 DEF PostsInv
    <2>1. CASE i = Len(post) + 1
        <3>1. widget.token <= widget.given /\ page.load <= page.load
            BY <1>1 DEF FormInv, TokensInv, Page
        <3> QED
            BY <1>2, <1>4, <1>5, <2>1, <3>1 DEF PostHolds
    <2>2. CASE i # Len(post) + 1
        <3>1. i \in DOMAIN post
            BY <1>1, <2>2
        <3> QED
            BY <1>2, <1>5, <3>1 DEF FormInv, PostsInv, PostHolds
    <2> QED
        BY <2>1, <2>2
<1>8. PostingInv'
    <2>1. Len(post') > 0 /\ (Len(post') - 1) = Len(post)
        BY <1>1, <1>5
    <2>2. \A i \in DOMAIN post : Harmless(i)
        BY <1>a DEF FormInv, NoSecondOrder, Harmless
    <2> QED
        BY <1>1, <1>2, <1>4, <1>5, <2>1, <2>2 DEF PostingInv, Harmless
<1>9. TokenSentOnce' /\ FreshToken' /\ widget'.token <= widget'.given
    <2>1. \A i, j \in DOMAIN post : post[i].token = post[j].token => i = j
        BY DEF FormInv, TokensInv, TokenSentOnce
    <2>2. \A i \in DOMAIN post : post[i].token # widget.token
        BY <1>a DEF FormInv, TokensInv, FreshToken, CanSend, ready
    <2>3. TokenSentOnce'
        <3> SUFFICES ASSUME NEW i \in 1 .. Len(post) + 1, NEW j \in 1 .. Len(post) + 1,
                            post'[i].token = post'[j].token
                     PROVE  i = j
            BY <1>5 DEF TokenSentOnce
        <3> QED
            BY <1>1, <1>4, <1>5, <2>1, <2>2
    <2> QED
        BY <1>2, <2>3 DEF FormInv, TokensInv, FreshToken, CanSend
<1>10. NoSecondOrder' /\ ClosureInv' /\ ConfirmedInv' /\ UnconfirmedInv'
    BY <1>2, <1>a DEF FormInv, NoSecondOrder, ClosureInv, ConfirmedInv, UnconfirmedInv
<1>11. SentAsShown
    BY <1>3, <1>4, <1>5 DEF SentAsShown
<1> QED
    BY <1>6, <1>7, <1>8, <1>9, <1>10, <1>11 DEF FormInv, TokensInv
\* The hours arrive: the order is sent, or nothing is.
LEMMA HoursArriveKeeps == FormInv /\ HoursArrive => FormInv' /\ SentAsShown
<1> SUFFICES ASSUME FormInv, HoursArrive PROVE FormInv' /\ SentAsShown
    OBVIOUS
<1> USE WebOrderAssumption
<1>1. /\ page \in Page /\ page.status # "none" /\ UNCHANGED <<widget, reserved, verified, shop>>
    BY DEF FormInv, WebOrderTypeOK, HoursArrive
<1>a. /\ ~page.closure /\ page.phase # "posting"
      /\ page.phase = "hours" => ~page.unconfirmed /\ page.payload \in Deliverable
      /\ page.unconfirmed => page.phase = "editing"
    BY <1>1 DEF FormInv, ClosureInv, PostingInv, ConfirmedInv, UnconfirmedInv
<1>2. ASSUME NEW h \in {page.status, "unknown"} \ {"none", "asked"}, post' = post,
             LET told == [page EXCEPT !.closed = (h = "closed"), !.status = "none"] IN
             \/ page.phase # "hours" /\ page' = told
             \/ page.phase = "hours" /\ page' = Editing(told)
      PROVE  FormInv'
    <2>1. /\ page' \in Page /\ page'.load = page.load /\ ~page'.closure
          /\ page'.phase \notin {"posting", "hours"}
          /\ page'.phase = "editing" \/ page'.phase = page.phase
          /\ CanSend' => CanSend
        BY <1>1, <1>a, <1>2 DEF Editing, Page, NoAddress, Shops, CanSend
    <2>2. page'.unconfirmed = page.unconfirmed
        BY <1>1, <1>2 DEF Editing, Page
    <2>3. UNCHANGED formOnly
        BY <1>1, <1>2 DEF formOnly, serverVars
    <2>4. WebOrderTypeOK'
        BY <2>1, <2>3 DEF FormInv, WebOrderTypeOK, formOnly, serverVars
    <2>5. PostsInv' /\ NoSecondOrder' /\ PostingInv' /\ TokensInv'
        BY <2>1, <2>2, <2>3, QuietKeeps DEF formOnly, serverVars
    <2> QED
        BY <1>a, <2>1, <2>2, <2>4, <2>5 DEF FormInv, ClosureInv, ConfirmedInv, UnconfirmedInv
<1>3. PICK h \in {page.status, "unknown"} \ {"none", "asked"} :
        LET told == [page EXCEPT !.closed = h = "closed", !.status = "none"] IN
        \/ /\ page.phase # "hours"
           /\ page' = told /\ post' = post
        \/ /\ page.phase = "hours"
           /\ page' = Editing(told) /\ post' = post
        \/ /\ page.phase = "hours" /\ matches /\ ready
           /\ Len(post) < MaxPosts
           /\ page' = [told EXCEPT !.phase = "posting"]
           /\ post' = Append(post, Sent)
    BY DEF HoursArrive
<1>4. CASE /\ post' = post
           /\ LET told == [page EXCEPT !.closed = (h = "closed"), !.status = "none"] IN
              \/ page.phase # "hours" /\ page' = told
              \/ page.phase = "hours" /\ page' = Editing(told)
    <2>1. FormInv'
        BY <1>2, <1>4
    <2> QED
        BY <1>4, <2>1 DEF SentAsShown
<1>5. CASE /\ page.phase = "hours" /\ matches /\ ready /\ Len(post) < MaxPosts
           /\ page' = [page EXCEPT !.closed = (h = "closed"), !.status = "none",
                                   !.phase = "posting"]
           /\ post' = Append(post, Sent)
    BY <1>1, <1>5, SendingKeeps
<1> QED
    BY <1>3, <1>4, <1>5

\* The form takes the answer of its order, or gives up waiting for it.
LEMMA AnsweredKeeps == FormInv /\ Answered => FormInv'
<1> SUFFICES ASSUME FormInv, Answered PROVE FormInv'
    OBVIOUS
<1> USE WebOrderAssumption
<1>1. /\ page \in Page /\ widget \in Widget /\ page.phase = "posting" /\ UNCHANGED serverVars
      /\ Len(post) \in Nat /\ DOMAIN post = 1 .. Len(post)
    BY PostValues DEF FormInv, WebOrderTypeOK, Answered
<1>2. /\ Len(post) > 0 /\ page.status = "none" /\ post[Len(post)].load = page.load
      /\ \A i \in 1 .. Len(post) - 1 : Harmless(i)
    BY <1>1 DEF FormInv, PostingInv
<1>3. page.closure => page.closed
    BY DEF FormInv, ClosureInv
<1>4. PostHolds(Len(post)) /\ \A i \in DOMAIN post : PostHolds(i)
    BY <1>1, <1>2 DEF FormInv, PostsInv
<1> DEFINE Back ==
        /\ page' \in Page /\ page'.load = page.load /\ page'.status = "none"
        /\ page'.closure => page'.closed
        /\ page'.phase \in {"editing", "ordered"}
        /\ widget' \in Widget /\ widget'.given = widget.given
        /\ widget'.token <= widget.given
        /\ page'.unconfirmed => page'.phase = "editing"
        /\ CanSend' => widget'.token = NoToken /\ Harmless(Len(post))
<1>5. Back
    <2>1. PICK a \in {last.answer, "none"}, readable \in BOOLEAN :
           \/ /\ isKnownRejection(a, readable)
              /\ widget' = reset
              /\ page' = [Editing(page) EXCEPT !.closed = @ \/ a = "closed",
                                               !.closure = @ \/ a = "closed"]
           \/ /\ page' = [Editing(page) EXCEPT !.phase = "ordered"]
              /\ widget' = widget
           \/ /\ page' = [Editing(page) EXCEPT !.unconfirmed = TRUE]
              /\ widget' = widget
        BY DEF Answered
    <2>2. /\ Editing(page) \in Page /\ Editing(page).load = page.load
          /\ Editing(page).status = "none" /\ Editing(page).phase = "editing"
          /\ Editing(page).closure => Editing(page).closed
          /\ ~Editing(page).unconfirmed
        BY <1>1, <1>2, <1>3 DEF Editing, Page, NoAddress, Shops, FormInv, UnconfirmedInv
    <2> HIDE DEF Editing
    <2>3. widget.token <= widget.given /\ widget.given \in Nat
        BY <1>1 DEF FormInv, TokensInv, Widget
    <2>4. CASE /\ isKnownRejection(a, readable)
               /\ widget' = reset
               /\ page' = [Editing(page) EXCEPT !.closed = @ \/ a = "closed",
                                                !.closure = @ \/ a = "closed"]
        <3>1. Harmless(Len(post))
            BY <1>4, <2>1, <2>4
            DEF isKnownRejection, Rejections, last, PostHolds, Harmless
        <3>2. /\ widget' \in Widget /\ widget'.given = widget.given
              /\ widget'.token = NoToken /\ widget'.token <= widget.given
            BY <1>1, <2>3, <2>4 DEF reset, Widget, NoToken
        <3>3. /\ page' \in Page /\ page'.load = page.load /\ page'.status = "none"
              /\ page'.phase = "editing" /\ (page'.closure => page'.closed)
            <4>1. /\ Editing(page).closed \in BOOLEAN /\ Editing(page).closure \in BOOLEAN
                BY <2>2 DEF Page
            <4>2. CASE a = "closed"
                <5>1. page' = [Editing(page) EXCEPT !.closed = TRUE, !.closure = TRUE]
                    BY <2>4, <4>2
                <5> QED
                    BY <2>2, <5>1 DEF Page
            <4>3. CASE a # "closed"
                <5>1. page' = [Editing(page) EXCEPT !.closed = Editing(page).closed,
                                                    !.closure = Editing(page).closure]
                    BY <2>4, <4>1, <4>3
                <5> QED
                    BY <2>2, <5>1 DEF Page
            <4> QED
                BY <4>2, <4>3
        <3> QED
            BY <3>1, <3>2, <3>3
    <2>5. CASE page' = [Editing(page) EXCEPT !.phase = "ordered"] /\ widget' = widget
        BY <1>1, <2>2, <2>3, <2>5 DEF Page, CanSend
    <2>6. CASE page' = [Editing(page) EXCEPT !.unconfirmed = TRUE] /\ widget' = widget
        BY <1>1, <2>2, <2>3, <2>6 DEF Page, CanSend
    <2> QED
        BY <2>1, <2>4, <2>5, <2>6
<1>6. WebOrderTypeOK'
    BY <1>1, <1>5 DEF FormInv, WebOrderTypeOK, serverVars
<1>7. PostsInv'
    BY <1>1, <1>4, <1>5 DEF PostsInv, PostHolds, serverVars
<1>8. NoSecondOrder'
    BY <1>1, <1>2, <1>5 DEF NoSecondOrder, Harmless, CanSend, serverVars
<1>9. TokensInv'
    BY <1>1, <1>5 DEF FormInv, TokensInv, FreshToken, TokenSentOnce, serverVars
<1>10. PostingInv' /\ ClosureInv' /\ ConfirmedInv' /\ UnconfirmedInv'
    BY <1>5 DEF PostingInv, ClosureInv, ConfirmedInv, UnconfirmedInv
<1> QED
    BY <1>6, <1>7, <1>8, <1>9, <1>10 DEF FormInv

-----------------------------------------------------------------------------
\* A step of the route with one request, which goes on or ends it.
LEMMA RouteKeeps ==
    ASSUME FormInv, NEW i \in DOMAIN post, NEW r,
           post[i].stage # "over",
           r \in Post, r.load = post[i].load, r.token = post[i].token,
           r.created => r.stage \in {"committed", "over"},
           r.answer \in Rejections => r.stage = "over" /\ ~r.created,
           post' = [post EXCEPT ![i] = r],
           UNCHANGED <<page, widget, shop>>,
           reserved' \subseteq Addresses, verified' \subseteq 1 .. MaxTokens
    PROVE  FormInv'
<1>1. /\ post \in Seq(Post) /\ Len(post) \in Nat /\ DOMAIN post = 1 .. Len(post)
      /\ page.load \in Nat
    BY PostValues DEF FormInv, WebOrderTypeOK, Page
<1>2. /\ post' \in Seq(Post) /\ Len(post') = Len(post) /\ DOMAIN post' = DOMAIN post
      /\ post'[i] = r /\ \A j \in DOMAIN post : j # i => post'[j] = post[j]
    BY <1>1, ExceptSeq
<1>3. \A j \in DOMAIN post : post'[j].load = post[j].load /\ post'[j].token = post[j].token
    BY <1>2
<1>4. WebOrderTypeOK'
    BY <1>2 DEF FormInv, WebOrderTypeOK
<1>5. PostsInv'
    <2> SUFFICES ASSUME NEW j \in DOMAIN post PROVE PostHolds(j)'
        BY <1>2 DEF PostsInv
    <2>1. PostHolds(j)
        BY DEF FormInv, PostsInv
    <2> QED
        BY <1>2, <1>3, <2>1 DEF PostHolds
<1>6. NoSecondOrder'
    BY <1>2, <1>3 DEF FormInv, NoSecondOrder
<1>7. PostingInv'
    BY <1>1, <1>2, <1>3 DEF FormInv, PostingInv, Harmless
<1>8. TokensInv'
    BY <1>2, <1>3 DEF FormInv, TokensInv, FreshToken, TokenSentOnce, CanSend
<1>9. ClosureInv' /\ ConfirmedInv' /\ UnconfirmedInv'
    BY DEF FormInv, ClosureInv, ConfirmedInv, UnconfirmedInv
<1> QED
    BY <1>4, <1>5, <1>6, <1>7, <1>8, <1>9 DEF FormInv
\* A request that was not created yet is refused, or goes on.
LEMMA RouteValues ==
    ASSUME FormInv, NEW i \in DOMAIN post, post[i].stage \in Stages \ {"committed", "over"}
    PROVE  /\ post[i] \in Post /\ ~post[i].created /\ post[i].answer \notin Rejections
           /\ \A a \in Answers :
                  Refuse(i, a) =>
                      post' = [post EXCEPT ![i] = [post[i] EXCEPT !.stage = "over", !.answer = a]]
           /\ \A s \in Stages :
                  Pass(i, s) => post' = [post EXCEPT ![i] = [post[i] EXCEPT !.stage = s]]
<1>1. post[i] \in Post /\ PostHolds(i)
    BY PostValues DEF FormInv, WebOrderTypeOK, PostsInv
<1>2. ~post[i].created /\ post[i].answer \notin Rejections
    BY <1>1 DEF PostHolds
<1>3. post \in Seq(Post) /\ DOMAIN post = 1 .. Len(post)
    BY PostValues DEF FormInv, WebOrderTypeOK
<1> QED
    BY <1>1, <1>2, <1>3 DEF Refuse, Pass

LEMMA RouteStepsKeep ==
    ASSUME FormInv, NEW i \in DOMAIN post,
           \/ RequireVerification(i) \/ Reserve(i) \/ CheckHours(i)
           \/ Commit(i) \/ Respond(i)
    PROVE  FormInv' /\ Len(post') = Len(post)
<1> USE WebOrderAssumption
<1>1. /\ reserved \subseteq Addresses /\ verified \subseteq 1 .. MaxTokens
      /\ post[i] \in Post /\ post \in Seq(Post) /\ DOMAIN post = 1 .. Len(post)
    BY PostValues DEF FormInv, WebOrderTypeOK
<1>2. UNCHANGED <<page, widget, shop>>
    BY DEF RequireVerification, Reserve, CheckHours, Commit, Respond
<1>3. reserved' \subseteq Addresses /\ verified' \subseteq 1 .. MaxTokens
    BY <1>1 DEF RequireVerification, Reserve, CheckHours, Commit, Respond, Post
<1> DEFINE Over(a) == [post[i] EXCEPT !.stage = "over", !.answer = a]
           On(s) == [post[i] EXCEPT !.stage = s]
           Created == [post[i] EXCEPT !.stage = "committed", !.created = TRUE]
<1>4. Len(post') = Len(post)
    BY <1>1, ExceptSeq
    DEF RequireVerification, Reserve, CheckHours, Commit, Respond, Refuse, Pass
<1>5. CASE Respond(i)
    <2>1. PICK a \in {"created", "error"} : Refuse(i, a)
        BY <1>5 DEF Respond
    <2>2. post' = [post EXCEPT ![i] = Over(a)] /\ post[i].stage # "over"
        BY <1>1, <1>5, <2>1 DEF Refuse, Respond
    <2>3. /\ Over(a) \in Post /\ Over(a).load = post[i].load /\ Over(a).token = post[i].token
          /\ Over(a).stage = "over" /\ Over(a).answer \notin Rejections
        BY <1>1 DEF Post, Stages, Answers, Rejections
    <2> HIDE DEF Over
    <2> QED
        BY <1>2, <1>3, <1>4, <2>2, <2>3, RouteKeeps
<1>6. CASE ~Respond(i)
    <2>1. post[i].stage \in Stages \ {"committed", "over"}
        BY <1>6 DEF RequireVerification, Reserve, CheckHours, Commit, Stages
    <2>2. ~post[i].created /\ post[i].answer \notin Rejections
        BY <2>1, RouteValues
    <2>3. \/ \E a \in Answers : Refuse(i, a)
          \/ \E s \in Stages : Pass(i, s)
          \/ post' = [post EXCEPT ![i].stage = "committed", ![i].created = TRUE]
        BY <1>6
        DEF RequireVerification, Reserve, CheckHours, Commit, Stages, Answers, Rejections
    <2>4. ASSUME NEW a \in Answers, Refuse(i, a) PROVE FormInv'
        <3>1. post' = [post EXCEPT ![i] = Over(a)]
            BY <2>1, <2>4, RouteValues
        <3>2. /\ Over(a) \in Post /\ Over(a).load = post[i].load
              /\ Over(a).token = post[i].token
              /\ Over(a).stage = "over" /\ ~Over(a).created
            BY <1>1, <2>2 DEF Post, Stages
        <3> HIDE DEF Over
        <3> QED
            BY <1>2, <1>3, <2>1, <3>1, <3>2, RouteKeeps
    <2>5. ASSUME NEW s \in Stages, Pass(i, s) PROVE FormInv'
        <3>1. post' = [post EXCEPT ![i] = On(s)]
            BY <2>1, <2>5, RouteValues
        <3>2. /\ On(s) \in Post /\ On(s).load = post[i].load /\ On(s).token = post[i].token
              /\ On(s).answer \notin Rejections /\ ~On(s).created
            BY <1>1, <2>2 DEF Post
        <3> HIDE DEF On
        <3> QED
            BY <1>2, <1>3, <2>1, <3>1, <3>2, RouteKeeps
    <2>6. ASSUME post' = [post EXCEPT ![i].stage = "committed", ![i].created = TRUE]
          PROVE  FormInv'
        <3>1. post' = [post EXCEPT ![i] = Created]
            BY <1>1, <2>6
        <3>2. /\ Created \in Post /\ Created.load = post[i].load
              /\ Created.token = post[i].token
              /\ Created.answer \notin Rejections /\ Created.stage = "committed"
            BY <1>1, <2>2 DEF Post, Stages
        <3> HIDE DEF Created
        <3> QED
            BY <1>2, <1>3, <2>1, <3>1, <3>2, RouteKeeps
    <2> QED
        BY <1>4, <2>3, <2>4, <2>5, <2>6
<1> QED
    BY <1>5, <1>6

\* The shop and its reservations concern no page.
LEMMA ShopKeeps ==
    ASSUME FormInv, Flip \/ \E a \in Addresses : Release(a)
    PROVE  FormInv'
<1>1. UNCHANGED <<page, widget, post, verified>>
    BY DEF Flip, Release
<1>2. WebOrderTypeOK'
    BY <1>1 DEF FormInv, WebOrderTypeOK, Flip, Release
<1>3. CanSend' = CanSend
    BY <1>1 DEF CanSend
<1>4. PostsInv' /\ NoSecondOrder' /\ PostingInv' /\ TokensInv'
    BY <1>1, <1>3, QuietKeeps
<1>5. ClosureInv' /\ ConfirmedInv' /\ UnconfirmedInv'
    BY <1>1 DEF FormInv, ClosureInv, ConfirmedInv, UnconfirmedInv
<1> QED
    BY <1>2, <1>4, <1>5 DEF FormInv

-----------------------------------------------------------------------------
LEMMA FormGoesOn == FormInv /\ [WebOrderNext]_webOrderVars => FormInv' /\ SentAsShown
<1> SUFFICES ASSUME FormInv, [WebOrderNext]_webOrderVars PROVE FormInv' /\ SentAsShown
    OBVIOUS
<1>1. CASE HoursArrive
    BY <1>1, HoursArriveKeeps
<1>2. CASE \E i \in DOMAIN post :
              \/ RequireVerification(i) \/ Reserve(i) \/ CheckHours(i)
              \/ Commit(i) \/ Respond(i)
    <2>1. FormInv' /\ Len(post') = Len(post) /\ Len(post) \in Nat
        BY <1>2, RouteStepsKeep, PostValues DEF FormInv
    <2> QED
        BY <2>1 DEF SentAsShown
<1>3. CASE FormInv' /\ post' = post
    BY <1>3 DEF SentAsShown
<1>4. CASE Choose \/ Chosen \/ \E a \in Addresses : Type(a) \/ Autofill(a)
    <2>1. post' = post
        BY <1>4 DEF Choose, Chosen, Type, Autofill, formOnly, serverVars
    <2> QED
        BY <1>3, <1>4, <2>1, FieldsKeep
<1>5. CASE Solve \/ ExpireToken
    <2>1. post' = post
        BY <1>5 DEF Solve, ExpireToken, serverVars
    <2> QED
        BY <1>3, <1>5, <2>1, WidgetKeeps
<1>6. CASE refreshVisibleHours \/ SubmitForm \/ AddressChecked \/ ServeStatus
    <2>1. post' = post
        BY <1>6
        DEF refreshVisibleHours, SubmitForm, AddressChecked, ServeStatus, formOnly, serverVars
    <2> QED
        BY <1>3, <1>6, <2>1, AskingKeeps
<1>7. CASE Answered \/ Reload
    <2>1. post' = post
        BY <1>7 DEF Answered, Reload, serverVars
    <2> QED
        BY <1>3, <1>7, <2>1, AnsweredKeeps, ReloadKeeps
<1>8. CASE Flip \/ \E a \in Addresses : Release(a)
    <2>1. post' = post
        BY <1>8 DEF Flip, Release
    <2> QED
        BY <1>3, <1>8, <2>1, ShopKeeps
<1>9. CASE UNCHANGED webOrderVars
    <2>1. UNCHANGED <<page, widget, post, reserved, verified, shop>>
        BY <1>9 DEF webOrderVars
    <2>2. WebOrderTypeOK' /\ CanSend' = CanSend
        BY <2>1 DEF FormInv, WebOrderTypeOK, CanSend
    <2>3. PostsInv' /\ NoSecondOrder' /\ PostingInv' /\ TokensInv'
        BY <2>1, <2>2, QuietKeeps
    <2>4. ClosureInv' /\ ConfirmedInv' /\ UnconfirmedInv'
        BY <2>1 DEF FormInv, ClosureInv, ConfirmedInv, UnconfirmedInv
    <2> QED
        BY <1>3, <2>1, <2>2, <2>3, <2>4 DEF FormInv
<1> QED
    BY <1>1, <1>2, <1>4, <1>5, <1>6, <1>7, <1>8, <1>9 DEF WebOrderNext, FormNext, ServerNext

LEMMA FormStands == WebOrderSpec => []FormInv
    BY FormBegins, FormGoesOn, PTL DEF WebOrderSpec

\* The page, the verification, the requests and the server keep their types
\* (order-form.js:274-289, 505-522).
THEOREM WebOrderTypes == WebOrderSpec => []WebOrderTypeOK
<1>1. FormInv => WebOrderTypeOK
    BY DEF FormInv
<1> QED
    BY <1>1, FormStands, PTL

\* Whatever answers are lost, late or cut off, however often the page is loaded again and
\* whatever the customer, the browser's timers and the shop do meanwhile: a form that can
\* be submitted has sent no order that was or can still be created, no human verification
\* is sent with two orders, and the closure an order was refused for stays on the page; an
\* order goes to the address that is on the page and that the check confirmed, although
\* both answers the form waits for leave time to change it (order-form.js:283-303, 434-439,
\* 535-561; human-verification.js:18-24; address-autocomplete.js:189-212).
THEOREM FormIsSound == WebOrderSpec => FormKept
<1>1. FormInv => WebOrderSound
    BY DEF FormInv, TokensInv, ClosureInv, WebOrderSound, ClosureKept
<1>2. FormInv /\ [WebOrderNext]_webOrderVars => [SentAsShown]_webOrderVars
    BY FormGoesOn
<1> QED
    BY <1>1, <1>2, FormStands, PTL DEF WebOrderSpec, FormKept

-----------------------------------------------------------------------------
(***************************************************************************)
(* The order tracking.  Its invariant says of every tab, between two of    *)
(* its handlers, that one request is awaited at most, for the order that   *)
(* is followed, and that what it was answered lies between the status last *)
(* shown and what the server knows; and of the lists of records, that each *)
(* has one record of an order.  A handler is expire followed by the steps  *)
(* below: each of them is shown to keep the tab sound, to write only       *)
(* orders that were stored or not yet saved, and to raise no time.         *)
(***************************************************************************)
\* What a list of records is made of.
recordsOf(s) == {s[i] : i \in DOMAIN s}

\* Picking members of a list: they are those at the positions kept.
LEMMA PickedValues ==
    ASSUME NEW S, NEW s \in Seq(S), NEW kept \in SUBSET DOMAIN s
    PROVE  /\ Picked(s, kept) \in Seq(S)
           /\ Len(Picked(s, kept)) <= Len(s)
           /\ recordsOf(Picked(s, kept)) = {s[i] : i \in kept}
<1> DEFINE N == Cardinality(kept)
           upTo(i) == {j \in kept : j <= i}
           rank(i) == Cardinality(upTo(i))
<1>1. Len(s) \in Nat /\ DOMAIN s = 1 .. Len(s) /\ \A i \in kept : s[i] \in S /\ i \in Nat
    BY LenProperties, ElementOfSeq
<1>2. IsFiniteSet(kept) /\ N \in Nat /\ N <= Len(s)
    <2>1. IsFiniteSet(1 .. Len(s)) /\ Cardinality(1 .. Len(s)) = Len(s)
        BY <1>1, FS_Interval
    <2>2. IsFiniteSet(kept) /\ N <= Len(s)
        BY <1>1, <2>1, FS_Subset
    <2> QED
        BY <2>2, FS_CardinalityType
<1>3. ASSUME NEW i \in kept
      PROVE  IsFiniteSet(upTo(i)) /\ rank(i) \in 1 .. N
    <2>1. upTo(i) \in SUBSET kept
        OBVIOUS
    <2>2. IsFiniteSet(upTo(i)) /\ rank(i) <= N
        BY <1>2, <2>1, FS_Subset
    <2>3. rank(i) \in Nat
        BY <2>2, FS_CardinalityType
    <2>4. i \in upTo(i)
        BY <1>1
    <2>5. rank(i) # 0
        BY <2>2, <2>4, FS_EmptySet
    <2> QED
        BY <1>2, <2>2, <2>3, <2>5
<1>4. ASSUME NEW i \in kept, NEW j \in kept, i < j
      PROVE  rank(i) # rank(j)
    <2>1. upTo(i) \in SUBSET upTo(j)
        BY <1>1, <1>4
    <2>2. j \in upTo(j) /\ j \notin upTo(i)
        BY <1>1, <1>4
    <2>3. IsFiniteSet(upTo(j))
        BY <1>3
    <2> QED
        BY <2>1, <2>2, <2>3, FS_Subset
<1>5. \A i, j \in kept : rank(i) = rank(j) => i = j
    <2> SUFFICES ASSUME NEW i \in kept, NEW j \in kept, i # j
                 PROVE  rank(i) # rank(j)
        OBVIOUS
    <2>1. i < j \/ j < i
        BY <1>1
    <2> QED
        BY <1>4, <2>1
<1>6. \A n \in 1 .. N : \E i \in kept : rank(i) = n
    <2> DEFINE f == [i \in kept |-> rank(i)]
    <2>1. f \in [kept -> 1 .. N]
        BY <1>3
    <2>2. f \in Injection(kept, 1 .. N)
        BY <1>5, <2>1 DEF Injection, IsInjective
    <2>3. IsFiniteSet(1 .. N) /\ Cardinality(1 .. N) = N
        BY <1>2, FS_Interval
    <2>4. f \in Surjection(kept, 1 .. N)
        BY <2>2, <2>3, FS_Injection
    <2> QED
        BY <2>4 DEF Surjection
<1> DEFINE at(n) == CHOOSE i \in kept : rank(i) = n
<1>7. \A n \in 1 .. N : at(n) \in kept /\ rank(at(n)) = n
    BY <1>6
<1>8. \A i \in kept : rank(i) \in 1 .. N /\ at(rank(i)) = i
    BY <1>3, <1>5, <1>7
<1> HIDE DEF rank, at
<1>9. Picked(s, kept) = [n \in 1 .. N |-> s[at(n)]]
    BY DEF Picked, rank, at, upTo
<1> HIDE DEF N
<1>10. Picked(s, kept) \in [1 .. N -> S]
    BY <1>1, <1>7, <1>9
<1>11. Picked(s, kept) \in Seq(S)
    BY <1>2, <1>10, SeqDef
<1>12. DOMAIN Picked(s, kept) = 1 .. N /\ Len(Picked(s, kept)) = N
    BY <1>2, <1>9, <1>11, LenProperties
<1>13. recordsOf(Picked(s, kept)) = {s[i] : i \in kept}
    BY <1>7, <1>8, <1>9, <1>12 DEF recordsOf
<1> QED
    BY <1>2, <1>11, <1>12, <1>13
-----------------------------------------------------------------------------
\* A list has one record of an order.
OneEach(s) == \A r, o \in recordsOf(s) : r.token = o.token => r = o

\* What the server said is no newer than what it knows.
NoneAhead(u, s) ==
    /\ \A k \in Tokens : u.seen[k] <= s[k]
    /\ \A q \in u.requests : q.answer \in 0 .. Gone => q.answer <= s[q.token]

\* One request is of the current generation, for the order that is followed, and what it
\* was answered is no older than what was shown.
OneAwaited(u) ==
    /\ \A q \in u.requests :
          q.isCurrent =>
              /\ q.token = u.current
              /\ q.answer \in 0 .. Gone => u.seen[q.token] <= q.answer
    /\ \A p, q \in u.requests : p.isCurrent /\ q.isCurrent => p = q

ShowsNewest(u) ==
    u.lastData # NoData /\ u.current # None => u.seen[u.current] <= u.lastData

Follows(u) == u.current \in {None} \cup tokens(u.records)

GoesOn(u) ==
    u.current # None /\ u.lastData # Final /\ ~u.hidden => isBusy(u) \/ u.timer

\* A tab while one of its handlers runs, and between two of them.
TabHolds(u, s) ==
    /\ u \in Tab /\ Len(u.records) <= Kept /\ OneEach(u.records)
    /\ NoneAhead(u, s) /\ OneAwaited(u) /\ ShowsNewest(u)

TabRests(u, s) == TabHolds(u, s) /\ Follows(u) /\ GoesOn(u)

\* Two values of a tab that follow the same order in the same way.
Alike(u, v) ==
    /\ v.current = u.current /\ v.lastData = u.lastData /\ v.seen = u.seen
    /\ v.requests = u.requests /\ v.timer = u.timer /\ v.hidden = u.hidden

Stored(s) == s \in Seq(Record) /\ Len(s) <= Kept /\ OneEach(s)

TrackingInv ==
    /\ TrackingTypeOK /\ OneEach(storage)
    /\ \A t \in Tabs : TabRests(tab[t], tracked)
    /\ ForgottenStays

-----------------------------------------------------------------------------
\* The numbers that a status, an answer and a time are.
LEMMA TrackingNumbers ==
    /\ NoData = -1 /\ Failed = -2 /\ NotYet = -1 /\ Final \in Nat /\ Gone = Final + 1
    /\ MaxTime \in Nat /\ Kept \in Nat /\ Kept > 0 /\ None \notin Tokens
    BY TrackingAssumption DEF NoData, Failed, NotYet, Gone

\* The fields of a tab and of a request.
LEMMA TabFields ==
    ASSUME NEW u \in Tab
    PROVE  /\ u.records \in Seq(Record)
           /\ u.current \in Tokens \cup {None}
           /\ u.lastData \in NoData .. Final
           /\ u.seen \in [Tokens -> NoData .. Final]
           /\ u.requests \subseteq StatusRequest
           /\ u.timer \in BOOLEAN /\ u.hidden \in BOOLEAN /\ u.storageAvailable \in BOOLEAN
           /\ u.lastStorageRaw \in Seq(Record)
    BY DEF Tab

LEMMA RequestFields ==
    ASSUME NEW q \in StatusRequest
    PROVE  /\ q.token \in Tokens /\ q.answer \in Int /\ q.isCurrent \in BOOLEAN
           /\ q.answer \in {NotYet, Failed} \cup 0 .. Gone
    BY TrackingNumbers DEF StatusRequest, Failed

\* cancel leaves no request of the current generation.
LEMMA CancelHolds ==
    ASSUME NEW u, NEW s, TabHolds(u, s)
    PROVE  /\ TabHolds(cancel(u), s)
           /\ \A q \in cancel(u).requests : ~q.isCurrent
           /\ cancel(u).records = u.records /\ cancel(u).current = u.current
           /\ cancel(u).seen = u.seen /\ cancel(u).hidden = u.hidden
           /\ cancel(u).storageAvailable = u.storageAvailable
           /\ cancel(u).lastStorageRaw = u.lastStorageRaw
<1> DEFINE dropped == {[q EXCEPT !.isCurrent = FALSE] : q \in u.requests}
<1>1. u \in Tab
    BY DEF TabHolds
<1>2. cancel(u) = [u EXCEPT !.timer = FALSE, !.requests = dropped]
    BY DEF cancel
<1>3. ASSUME NEW p \in dropped
      PROVE  /\ p \in StatusRequest /\ p.isCurrent = FALSE
             /\ \E q \in u.requests : p.token = q.token /\ p.answer = q.answer
    <2>1. PICK q \in u.requests : p = [q EXCEPT !.isCurrent = FALSE]
        BY <1>3
    <2>2. q \in StatusRequest
        BY <1>1, TabFields
    <2> QED
        BY <2>1, <2>2 DEF StatusRequest
<1> HIDE DEF dropped
<1>4. dropped \subseteq StatusRequest
    BY <1>3
<1>5. cancel(u) \in Tab
    BY <1>1, <1>2, <1>4 DEF Tab
<1>6. /\ cancel(u).requests = dropped
      /\ cancel(u).records = u.records /\ cancel(u).current = u.current
      /\ cancel(u).seen = u.seen /\ cancel(u).hidden = u.hidden
      /\ cancel(u).lastData = u.lastData
      /\ cancel(u).storageAvailable = u.storageAvailable
      /\ cancel(u).lastStorageRaw = u.lastStorageRaw
    BY <1>1, <1>2 DEF Tab
<1>7. NoneAhead(cancel(u), s)
    BY <1>3, <1>6 DEF TabHolds, NoneAhead
<1>8. OneAwaited(cancel(u))
    BY <1>3, <1>6 DEF OneAwaited
<1>9. ShowsNewest(cancel(u))
    BY <1>6 DEF TabHolds, ShowsNewest
<1> QED
    BY <1>3, <1>5, <1>6, <1>7, <1>8, <1>9 DEF TabHolds

\* refresh asks for the order that is followed, unless there is nothing to ask for.
LEMMA AskHolds ==
    ASSUME NEW u, NEW s, TabHolds(u, s)
    PROVE  /\ TabHolds(ask(u), s) /\ GoesOn(ask(u))
           /\ ask(u).records = u.records /\ ask(u).current = u.current
           /\ ask(u).lastStorageRaw = u.lastStorageRaw /\ ask(u).hidden = u.hidden
<1>1. u \in Tab
    BY DEF TabHolds
<1>2. CASE u.current = None \/ isBusy(u) \/ u.lastData = Final \/ u.hidden
    <2>1. ask(u) = u
        BY <1>2 DEF ask
    <2> QED
        BY <1>2, <2>1 DEF GoesOn
<1>3. CASE ~(u.current = None \/ isBusy(u) \/ u.lastData = Final \/ u.hidden)
    <2> DEFINE q == [token |-> u.current, answer |-> NotYet, isCurrent |-> TRUE]
               more == u.requests \cup {q}
    <2>1. ask(u) = [u EXCEPT !.timer = FALSE, !.requests = more]
        BY <1>3 DEF ask
    <2>2. q \in StatusRequest /\ q.isCurrent /\ q.token = u.current /\ q.answer = -1
        BY <1>1, <1>3, TabFields, TrackingNumbers DEF StatusRequest
    <2>3. \A p \in u.requests : ~p.isCurrent
        BY <1>3 DEF isBusy
    <2>4. more \subseteq StatusRequest /\ q \in more
        BY <1>1, <2>2, TabFields
    <2> HIDE DEF q
    <2>5. \A p \in more : p = q \/ (p \in u.requests /\ ~p.isCurrent)
        BY <2>3
    <2> HIDE DEF more
    <2>6. ask(u) \in Tab
        BY <1>1, <2>1, <2>4 DEF Tab
    <2>7. /\ ask(u).requests = more
          /\ ask(u).records = u.records /\ ask(u).current = u.current
          /\ ask(u).seen = u.seen /\ ask(u).hidden = u.hidden
          /\ ask(u).lastData = u.lastData /\ ask(u).lastStorageRaw = u.lastStorageRaw
        BY <1>1, <2>1 DEF Tab
    <2>8. NoneAhead(ask(u), s)
        BY <2>2, <2>5, <2>7 DEF TabHolds, NoneAhead
    <2>9. OneAwaited(ask(u))
        BY <2>2, <2>5, <2>7 DEF OneAwaited
    <2>10. ShowsNewest(ask(u))
        BY <2>7 DEF TabHolds, ShowsNewest
    <2>11. GoesOn(ask(u))
        BY <2>2, <2>4, <2>7 DEF GoesOn, isBusy
    <2> QED
        BY <2>6, <2>7, <2>8, <2>9, <2>10, <2>11 DEF TabHolds
<1> QED
    BY <1>2, <1>3

\* A status that is shown.
LEMMA RenderHolds ==
    ASSUME NEW u, NEW s, TabHolds(u, s), NEW data \in 0 .. Final,
           u.current \in Tokens, u.seen[u.current] <= data, data <= s[u.current],
           \A q \in u.requests : ~q.isCurrent
    PROVE  /\ TabHolds(render(u, data), s)
           /\ render(u, data).requests = u.requests
           /\ render(u, data).records = u.records /\ render(u, data).current = u.current
           /\ render(u, data).lastStorageRaw = u.lastStorageRaw
           /\ render(u, data).hidden = u.hidden
<1> DEFINE k == u.current
           most == IF data > u.seen[k] THEN data ELSE u.seen[k]
           shown == [u.seen EXCEPT ![k] = most]
<1>1. u \in Tab
    BY DEF TabHolds
<1>2. u.seen \in [Tokens -> NoData .. Final] /\ \A j \in Tokens : u.seen[j] \in Int
    BY <1>1, TabFields, TrackingNumbers
<1>3. most = data
    BY <1>2, TrackingNumbers
<1>4. data \in NoData .. Final
    BY TrackingNumbers
<1>5. shown \in [Tokens -> NoData .. Final] /\ shown[k] = data
      /\ \A j \in Tokens \ {k} : shown[j] = u.seen[j]
    BY <1>2, <1>3, <1>4
<1>6. render(u, data) = [u EXCEPT !.lastData = data, !.seen = shown]
    BY <1>1 DEF render, Tab
<1> HIDE DEF shown, most
<1>7. render(u, data) \in Tab
    BY <1>1, <1>4, <1>5, <1>6 DEF Tab
<1>8. /\ render(u, data).seen = shown /\ render(u, data).lastData = data
      /\ render(u, data).requests = u.requests
      /\ render(u, data).records = u.records /\ render(u, data).current = k
      /\ render(u, data).lastStorageRaw = u.lastStorageRaw
      /\ render(u, data).hidden = u.hidden
    BY <1>1, <1>6 DEF Tab
<1>9. NoneAhead(render(u, data), s)
    BY <1>5, <1>8 DEF TabHolds, NoneAhead
<1>10. OneAwaited(render(u, data))
    BY <1>8 DEF OneAwaited
<1>11. ShowsNewest(render(u, data))
    BY <1>5, <1>8 DEF ShowsNewest
<1> QED
    BY <1>7, <1>8, <1>9, <1>10, <1>11 DEF TabHolds

\* choose follows the order it is given, whatever was asked before.
LEMMA ChooseHolds ==
    ASSUME NEW u, NEW s, TabHolds(u, s), NEW k \in Tokens \cup {None},
           NEW data \in NoData .. Final,
           k # None /\ data # NoData => u.seen[k] <= data /\ data <= s[k]
    PROVE  /\ TabHolds(choose(u, k, data), s) /\ GoesOn(choose(u, k, data))
           /\ choose(u, k, data).records = u.records
           /\ choose(u, k, data).current = k
           /\ choose(u, k, data).lastStorageRaw = u.lastStorageRaw
           /\ choose(u, k, data).hidden = u.hidden
<1> DEFINE c == cancel(u)
           chosen == [c EXCEPT !.current = k, !.lastData = NoData]
           shown == IF k # None /\ data # NoData THEN render(chosen, data) ELSE chosen
<1>1. choose(u, k, data) = ask(shown)
    BY DEF choose
<1>2. /\ TabHolds(c, s) /\ c \in Tab /\ \A q \in c.requests : ~q.isCurrent
      /\ c.records = u.records /\ c.seen = u.seen /\ c.lastStorageRaw = u.lastStorageRaw
      /\ c.hidden = u.hidden
    BY CancelHolds DEF TabHolds
<1> HIDE DEF c
<1>3. chosen \in Tab
    <2>1. NoData \in NoData .. Final
        BY TrackingNumbers
    <2> QED
        BY <1>2, <2>1 DEF Tab
<1>4. /\ chosen.current = k /\ chosen.lastData = NoData /\ chosen.records = u.records
      /\ chosen.requests = c.requests /\ chosen.seen = u.seen
      /\ chosen.lastStorageRaw = u.lastStorageRaw /\ chosen.hidden = u.hidden
    BY <1>2 DEF Tab
<1> HIDE DEF chosen
<1>5. TabHolds(chosen, s)
    <2>1. NoneAhead(chosen, s)
        BY <1>2, <1>4 DEF TabHolds, NoneAhead
    <2>2. OneAwaited(chosen) /\ ShowsNewest(chosen)
        BY <1>2, <1>4 DEF OneAwaited, ShowsNewest
    <2> QED
        BY <1>2, <1>3, <1>4, <2>1, <2>2 DEF TabHolds
<1>6. /\ TabHolds(shown, s) /\ shown.current = k /\ shown.records = u.records
      /\ shown.lastStorageRaw = u.lastStorageRaw /\ shown.hidden = u.hidden
    <2>1. CASE k # None /\ data # NoData
        <3>1. data \in 0 .. Final
            BY <2>1, TrackingNumbers
        <3>2. k \in Tokens
            BY <2>1
        <3> QED
            BY <1>2, <1>4, <1>5, <2>1, <3>1, <3>2, RenderHolds
    <2>2. CASE ~(k # None /\ data # NoData)
        BY <1>4, <1>5, <2>2
    <2> QED
        BY <2>1, <2>2
<1> HIDE DEF shown
<1> QED
    BY <1>1, <1>6, AskHolds

\* A timer is set when there is anything left to ask for.
LEMMA ScheduleHolds ==
    ASSUME NEW u, NEW s, TabHolds(u, s)
    PROVE  /\ TabHolds(schedule(u), s) /\ GoesOn(schedule(u))
           /\ schedule(u).records = u.records /\ schedule(u).current = u.current
           /\ schedule(u).lastStorageRaw = u.lastStorageRaw
<1> DEFINE on == u.current # None /\ u.lastData # Final /\ ~u.hidden
<1>1. u \in Tab
    BY DEF TabHolds
<1>2. schedule(u) = [u EXCEPT !.timer = on] /\ on \in BOOLEAN
    BY DEF schedule
<1>3. /\ schedule(u).timer = on /\ schedule(u).requests = u.requests
      /\ schedule(u).records = u.records /\ schedule(u).current = u.current
      /\ schedule(u).seen = u.seen /\ schedule(u).hidden = u.hidden
      /\ schedule(u).lastData = u.lastData /\ schedule(u).lastStorageRaw = u.lastStorageRaw
    BY <1>1, <1>2 DEF Tab
<1>4. GoesOn(schedule(u))
    BY <1>3 DEF GoesOn
<1> HIDE DEF on
<1>5. schedule(u) \in Tab
    BY <1>1, <1>2 DEF Tab
<1>6. NoneAhead(schedule(u), s) /\ OneAwaited(schedule(u)) /\ ShowsNewest(schedule(u))
    BY <1>3 DEF TabHolds, NoneAhead, OneAwaited, ShowsNewest
<1> QED
    BY <1>3, <1>4, <1>5, <1>6 DEF TabHolds
-----------------------------------------------------------------------------
\* The orders of a list of records.
LEMMA TokensOfRecords ==
    ASSUME NEW s
    PROVE  tokens(s) = {r.token : r \in recordsOf(s)}
    BY DEF tokens, recordsOf

\* A list whose records are some of another's.
LEMMA FewerRecords ==
    ASSUME NEW s, NEW o, recordsOf(o) \subseteq recordsOf(s)
    PROVE  /\ tokens(o) \subseteq tokens(s)
           /\ OneEach(s) => OneEach(o)
    BY TokensOfRecords DEF OneEach

\* A list with some of the records of a list is stored as that one is.
LEMMA PickedStored ==
    ASSUME NEW s, Stored(s), NEW kept \in SUBSET DOMAIN s
    PROVE  /\ Stored(Picked(s, kept))
           /\ recordsOf(Picked(s, kept)) = {s[i] : i \in kept}
           /\ recordsOf(Picked(s, kept)) \subseteq recordsOf(s)
           /\ tokens(Picked(s, kept)) \subseteq tokens(s)
<1>1. s \in Seq(Record) /\ Len(s) <= Kept /\ OneEach(s)
    BY DEF Stored
<1> DEFINE p == Picked(s, kept)
<1>2. p \in Seq(Record) /\ Len(p) <= Len(s) /\ recordsOf(p) = {s[i] : i \in kept}
    BY <1>1, PickedValues
<1>3. recordsOf(p) \subseteq recordsOf(s)
    BY <1>2 DEF recordsOf
<1>4. tokens(p) \subseteq tokens(s) /\ OneEach(p)
    BY <1>1, <1>3, FewerRecords
<1>5. Len(p) \in Nat /\ Len(s) \in Nat
    BY <1>1, <1>2, LenProperties
<1>6. Stored(p)
    BY <1>1, <1>2, <1>4, <1>5, TrackingNumbers DEF Stored
<1> QED
    BY <1>2, <1>3, <1>4, <1>6

LEMMA LiveStored ==
    ASSUME NEW s, Stored(s)
    PROVE  /\ Stored(liveOf(s)) /\ recordsOf(liveOf(s)) \subseteq recordsOf(s)
           /\ tokens(liveOf(s)) \subseteq tokens(s)
    BY PickedStored DEF liveOf

LEMMA WithoutStored ==
    ASSUME NEW s, Stored(s), NEW k
    PROVE  /\ Stored(Without(s, k)) /\ recordsOf(Without(s, k)) \subseteq recordsOf(s)
           /\ tokens(Without(s, k)) = tokens(s) \ {k}
<1> DEFINE kept == {i \in DOMAIN s : s[i].token # k}
<1>1. /\ Stored(Without(s, k)) /\ recordsOf(Without(s, k)) \subseteq recordsOf(s)
      /\ recordsOf(Without(s, k)) = {s[i] : i \in kept}
    BY PickedStored DEF Without
<1>2. tokens(Without(s, k)) = {s[i].token : i \in kept}
    BY <1>1, TokensOfRecords
<1> QED
    BY <1>1, <1>2 DEF tokens

LEMMA FirstToken ==
    ASSUME NEW s \in Seq(Record)
    PROVE  First(s) \in {None} \cup tokens(s) /\ First(s) \in Tokens \cup {None}
<1>1. CASE s = <<>>
    BY <1>1 DEF First
<1>2. CASE s # <<>>
    <2>1. Len(s) \in Nat \ {0} /\ DOMAIN s = 1 .. Len(s)
        BY <1>2, EmptySeq, LenProperties
    <2>2. 1 \in DOMAIN s /\ s[1] \in Record
        BY <2>1, ElementOfSeq
    <2> QED
        BY <1>2, <2>2 DEF First, tokens, Record
<1> QED
    BY <1>1, <1>2

LEMMA NothingStored == Stored(<<>>) /\ tokens(<<>>) = {} /\ recordsOf(<<>>) = {}
<1>1. <<>> \in Seq(Record) /\ Len(<<>>) = 0 /\ DOMAIN <<>> = {}
    BY EmptySeq
<1> QED
    BY <1>1, TrackingNumbers DEF Stored, tokens, recordsOf, OneEach

\* The time of a record that is there, and the only one of its order.
LEMMA SavedAtValue ==
    ASSUME NEW s \in Seq(Record), NEW k \in tokens(s)
    PROVE  /\ savedAt(s, k) \in 0 .. MaxTime /\ k \in Tokens
           /\ [token |-> k, savedAt |-> savedAt(s, k)] \in recordsOf(s)
           /\ OneEach(s) => \A r \in recordsOf(s) : r.token = k => r.savedAt = savedAt(s, k)
<1>1. PICK i \in DOMAIN s : s[i].token = k
    BY DEF tokens
<1>2. s[i] \in Record
    BY <1>1, ElementOfSeq, LenProperties
<1>3. s[i] = [token |-> k, savedAt |-> s[i].savedAt] /\ s[i].savedAt \in 0 .. MaxTime
      /\ k \in Tokens
    BY <1>1, <1>2 DEF Record
<1>4. /\ savedAt(s, k) \in 0 .. MaxTime
      /\ \E j \in DOMAIN s : s[j] = [token |-> k, savedAt |-> savedAt(s, k)]
    BY <1>1, <1>3 DEF savedAt
<1>5. [token |-> k, savedAt |-> savedAt(s, k)] \in recordsOf(s)
    BY <1>4 DEF recordsOf
<1> DEFINE w == [token |-> k, savedAt |-> savedAt(s, k)]
<1>6. w.token = k /\ w.savedAt = savedAt(s, k)
    OBVIOUS
<1>7. ASSUME OneEach(s), NEW r \in recordsOf(s), r.token = k
      PROVE  r.savedAt = savedAt(s, k)
    <2>1. r = w
        BY <1>5, <1>6, <1>7 DEF OneEach
    <2> QED
        BY <1>6, <2>1
<1> QED
    BY <1>3, <1>4, <1>5, <1>7

\* The earlier of two times.
LEMMA Min2Value ==
    ASSUME NEW a \in Int, NEW b \in Int
    PROVE  Min2(a, b) \in {a, b} /\ Min2(a, b) <= a /\ Min2(a, b) <= b
    BY DEF Min2

\* The records of a list are no later than those it was made from.
NotLater(mine, s) ==
    \A r \in recordsOf(s) : r.token \in tokens(mine) => r.savedAt <= savedAt(mine, r.token)

LEMMA OwnNotLater ==
    ASSUME NEW s, Stored(s), NEW o, recordsOf(o) \subseteq recordsOf(s)
    PROVE  NotLater(s, o)
<1> SUFFICES ASSUME NEW r \in recordsOf(o), r.token \in tokens(s)
             PROVE  r.savedAt <= savedAt(s, r.token)
    BY DEF NotLater
<1>1. s \in Seq(Record) /\ OneEach(s) /\ r \in recordsOf(s)
    BY DEF Stored
<1>2. r.savedAt = savedAt(s, r.token) /\ savedAt(s, r.token) \in 0 .. MaxTime
    BY <1>1, SavedAtValue
<1> QED
    BY <1>2

LEMMA FewerNotLater ==
    ASSUME NEW mine, NEW s, NotLater(mine, s), NEW o, recordsOf(o) \subseteq recordsOf(s)
    PROVE  NotLater(mine, o)
    BY DEF NotLater

\* Reconciled with the tab's copy, what is stored has the orders it had, no later.
LEMMA ReconciledStored ==
    ASSUME NEW raw, Stored(raw), NEW mine, Stored(mine)
    PROVE  /\ Stored(reconciled(raw, mine)) /\ tokens(reconciled(raw, mine)) = tokens(raw)
           /\ NotLater(mine, reconciled(raw, mine))
<1> DEFINE s == reconciled(raw, mine)
           rec(i) == IF raw[i].token \in tokens(mine)
                     THEN [raw[i] EXCEPT !.savedAt = Min2(@, savedAt(mine, raw[i].token))]
                     ELSE raw[i]
<1>1. /\ raw \in Seq(Record) /\ mine \in Seq(Record)
      /\ Len(raw) \in Nat /\ Len(raw) <= Kept /\ DOMAIN raw = 1 .. Len(raw)
    BY LenProperties DEF Stored
<1>2. s = [i \in 1 .. Len(raw) |-> rec(i)]
    BY <1>1 DEF reconciled
<1>3. ASSUME NEW i \in 1 .. Len(raw)
      PROVE  /\ rec(i) \in Record /\ rec(i).token = raw[i].token
             /\ rec(i).token \in tokens(mine) => rec(i).savedAt <= savedAt(mine, rec(i).token)
    <2>1. raw[i] \in Record
        BY <1>1, ElementOfSeq
    <2>2. CASE raw[i].token \in tokens(mine)
        <3> DEFINE m == Min2(raw[i].savedAt, savedAt(mine, raw[i].token))
        <3>1. savedAt(mine, raw[i].token) \in 0 .. MaxTime /\ raw[i].savedAt \in 0 .. MaxTime
            BY <1>1, <2>1, <2>2, SavedAtValue DEF Record
        <3>2. m \in 0 .. MaxTime /\ m <= savedAt(mine, raw[i].token)
            BY <3>1, Min2Value
        <3>3. rec(i) = [raw[i] EXCEPT !.savedAt = m]
            BY <2>1, <2>2 DEF Record
        <3> HIDE DEF m
        <3> QED
            BY <2>1, <3>2, <3>3 DEF Record
    <2>3. CASE raw[i].token \notin tokens(mine)
        BY <2>1, <2>3
    <2> QED
        BY <2>2, <2>3
<1>4. \A i, j \in 1 .. Len(raw) : raw[i] = raw[j] => rec(i) = rec(j)
    OBVIOUS
<1> HIDE DEF rec
<1>5. s \in [1 .. Len(raw) -> Record]
    BY <1>2, <1>3
<1>6. s \in Seq(Record)
    BY <1>1, <1>5, SeqDef
<1>7. Len(s) = Len(raw) /\ DOMAIN s = 1 .. Len(raw)
    BY <1>1, <1>2, <1>6, LenProperties
<1>8. \A i \in 1 .. Len(raw) : s[i] = rec(i)
    BY <1>2
<1> HIDE DEF s
<1>9. OneEach(s)
    <2> SUFFICES ASSUME NEW i \in 1 .. Len(raw), NEW j \in 1 .. Len(raw),
                        s[i].token = s[j].token
                 PROVE  s[i] = s[j]
        BY <1>7 DEF OneEach, recordsOf
    <2>1. raw[i].token = raw[j].token
        BY <1>3, <1>8
    <2>2. raw[i] \in recordsOf(raw) /\ raw[j] \in recordsOf(raw)
        BY <1>1 DEF recordsOf
    <2>3. raw[i] = raw[j]
        BY <2>1, <2>2 DEF Stored, OneEach
    <2> QED
        BY <1>4, <1>8, <2>3
<1>10. tokens(s) = tokens(raw)
    BY <1>1, <1>3, <1>7, <1>8 DEF tokens
<1>11. NotLater(mine, s)
    BY <1>3, <1>7, <1>8 DEF NotLater, recordsOf
<1> QED
    BY <1>1, <1>6, <1>7, <1>9, <1>10, <1>11 DEF Stored, s
-----------------------------------------------------------------------------
\* A tab with the storage it sees.
Pair == [t : Tab, storage : Seq(Record)]

\* The orders that a step of a tab may write: those stored, and those it has yet to save.
Unsaved(x) ==
    IF x.t.storageAvailable \/ x.t.lastStorageRaw # x.storage THEN {} ELSE tokens(x.t.records)

Sources(x) == tokens(x.storage) \cup Unsaved(x)

\* What a handler makes of x, as far as the records go; more are the orders it adds.
Makes(x, y, e, more) ==
    /\ y \in Pair /\ Stored(y.storage) /\ Stored(y.t.records)
    /\ e = "off" => y.storage = x.storage
    /\ e # "off" => tokens(y.t.records) \subseteq Sources(x) \cup more
    /\ tokens(y.storage) \subseteq Sources(x) \cup more
    /\ NotLater(x.t.records, y.t.records)

\* A tab that follows an order as another value of it does.
LEMMA AlikeHolds ==
    ASSUME NEW u, NEW s, TabHolds(u, s), NEW v \in Tab, Stored(v.records), Alike(u, v)
    PROVE  TabHolds(v, s) /\ (GoesOn(u) => GoesOn(v))
<1>1. v \in Tab /\ Len(v.records) <= Kept /\ OneEach(v.records)
    BY DEF Stored
<1>2. NoneAhead(v, s)
    BY DEF TabHolds, NoneAhead, Alike
<1>3. OneAwaited(v)
    BY DEF TabHolds, OneAwaited, Alike
<1>4. ShowsNewest(v)
    BY DEF TabHolds, ShowsNewest, Alike
<1>5. GoesOn(u) => GoesOn(v)
    BY DEF GoesOn, isBusy, Alike
<1> QED
    BY <1>1, <1>2, <1>3, <1>4, <1>5 DEF TabHolds

LEMMA HeldRecords ==
    ASSUME NEW u, NEW s, TabHolds(u, s)
    PROVE  u \in Tab /\ Stored(u.records)
    BY TabFields DEF TabHolds, Stored

\* save writes the tab's records, or nothing.
LEMMA SaveValues ==
    ASSUME NEW x \in Pair, NEW e
    PROVE  /\ save(x, e) \in Pair
           /\ save(x, e).t.records = x.t.records /\ Alike(x.t, save(x, e).t)
           /\ save(x, e).storage \in {x.storage, x.t.records}
           /\ e = "off" => save(x, e).storage = x.storage
<1>1. x.t \in Tab /\ x.storage \in Seq(Record) /\ x = [t |-> x.t, storage |-> x.storage]
    BY DEF Pair
<1>2. x.t.records \in Seq(Record)
    BY <1>1, TabFields
<1>3. ASSUME NEW b \in BOOLEAN, NEW raw \in Seq(Record)
      PROVE  LET v == [x.t EXCEPT !.storageAvailable = b, !.lastStorageRaw = raw] IN
             v \in Tab /\ v.records = x.t.records /\ Alike(x.t, v)
    BY <1>1 DEF Tab, Alike
<1>4. CASE e = "off"
    <2> DEFINE v == [x.t EXCEPT !.storageAvailable = FALSE]
    <2>1. save(x, e) = [t |-> v, storage |-> x.storage]
        BY <1>1, <1>4 DEF save
    <2>2. v \in Tab /\ v.records = x.t.records /\ Alike(x.t, v)
        BY <1>1 DEF Tab, Alike
    <2> HIDE DEF v
    <2> QED
        BY <1>1, <2>1, <2>2 DEF Pair
<1>5. CASE e # "off" /\ (e = "ok" \/ x.t.records \in {x.storage, <<>>})
    <2> DEFINE v == [x.t EXCEPT !.storageAvailable = TRUE, !.lastStorageRaw = x.t.records]
    <2>1. save(x, e) = [t |-> v, storage |-> x.t.records]
        BY <1>5 DEF save
    <2>2. v \in Tab /\ v.records = x.t.records /\ Alike(x.t, v)
        BY <1>2, <1>3
    <2> HIDE DEF v
    <2> QED
        BY <1>2, <1>5, <2>1, <2>2 DEF Pair
<1>6. CASE e # "off" /\ ~(e = "ok" \/ x.t.records \in {x.storage, <<>>})
    <2> DEFINE v == [x.t EXCEPT !.storageAvailable = FALSE, !.lastStorageRaw = x.storage]
    <2>1. save(x, e) = [t |-> v, storage |-> x.storage]
        BY <1>1, <1>6 DEF save
    <2>2. v \in Tab /\ v.records = x.t.records /\ Alike(x.t, v)
        BY <1>1, <1>3
    <2> HIDE DEF v
    <2> QED
        BY <1>1, <1>6, <2>1, <2>2 DEF Pair
<1> QED
    BY <1>4, <1>5, <1>6

LEMMA SaveMakes ==
    ASSUME NEW x, NEW y, NEW e, NEW more, Makes(x, y, e, more)
    PROVE  /\ Makes(x, save(y, e), e, more)
           /\ save(y, e).t.records = y.t.records /\ Alike(y.t, save(y, e).t)
<1> DEFINE z == save(y, e)
<1>1. y \in Pair
    BY DEF Makes
<1>2. /\ z \in Pair /\ z.t.records = y.t.records /\ Alike(y.t, z.t)
      /\ z.storage \in {y.storage, y.t.records} /\ (e = "off" => z.storage = y.storage)
    BY <1>1, SaveValues
<1> HIDE DEF z
<1>3. Makes(x, z, e, more)
    BY <1>2 DEF Makes
<1> QED
    BY <1>2, <1>3 DEF z

\* A tab that is left with some of its records, or follows another order, or was asked.
LEMMA FewerMakes ==
    ASSUME NEW x, NEW y, NEW e, NEW more, Makes(x, y, e, more),
           NEW v \in Tab, Stored(v.records), recordsOf(v.records) \subseteq recordsOf(y.t.records)
    PROVE  Makes(x, [y EXCEPT !.t = v], e, more)
<1> DEFINE z == [y EXCEPT !.t = v]
<1>1. y \in Pair
    BY DEF Makes
<1>2. z \in Pair /\ z.t = v /\ z.storage = y.storage
    BY <1>1 DEF Pair
<1>3. tokens(v.records) \subseteq tokens(y.t.records)
    BY FewerRecords
<1>4. NotLater(x.t.records, v.records)
    BY FewerNotLater DEF Makes
<1> HIDE DEF z
<1>5. Makes(x, z, e, more)
    BY <1>2, <1>3, <1>4 DEF Makes
<1> QED
    BY <1>5 DEF z

\* The tab's copy, reconciled with the storage.
LEMMA IncomingStored ==
    ASSUME NEW x \in Pair, Stored(x.storage), Stored(x.t.records), NEW e
    PROVE  /\ Stored(incoming(x.t, x.storage, e))
           /\ e # "off" => tokens(incoming(x.t, x.storage, e)) \subseteq Sources(x)
           /\ NotLater(x.t.records, incoming(x.t, x.storage, e))
<1> DEFINE read == e # "off" /\ (x.t.storageAvailable \/ x.storage # x.t.lastStorageRaw)
<1>1. CASE read
    <2> DEFINE parsed == parseRecords(x.storage)
    <2>1. incoming(x.t, x.storage, e) = reconciled(parsed, x.t.records)
        BY <1>1 DEF incoming
    <2>2. Stored(parsed) /\ tokens(parsed) \subseteq tokens(x.storage)
        BY LiveStored DEF parseRecords
    <2> HIDE DEF parsed
    <2> QED
        BY <2>1, <2>2, ReconciledStored DEF Sources
<1>2. CASE ~read
    <2>1. incoming(x.t, x.storage, e) = x.t.records
        BY <1>2 DEF incoming
    <2>2. NotLater(x.t.records, x.t.records)
        BY OwnNotLater
    <2>3. e # "off" => tokens(x.t.records) \subseteq Sources(x)
        BY <1>2, TabFields DEF Sources, Unsaved, Pair
    <2> QED
        BY <2>1, <2>2, <2>3
<1> QED
    BY <1>1, <1>2

\* expire: the tab follows an order that it remembers; it goes on asking when another had
\* to be chosen, and follows the same one as before otherwise.
LEMMA ExpiredHolds ==
    ASSUME NEW x \in Pair, NEW s, TabHolds(x.t, s), Stored(x.storage), NEW e
    PROVE  LET done == Expired(x, e)
               y == done.x
           IN /\ done.chose \in BOOLEAN
              /\ Makes(x, y, e, {}) /\ TabHolds(y.t, s) /\ Follows(y.t)
              /\ y.t.hidden = x.t.hidden
              /\ done.chose => GoesOn(y.t)
              /\ ~done.chose => Alike(x.t, y.t)
<1> DEFINE retained == liveOf(incoming(x.t, x.storage, e))
           changed == retained # x.t.records
           read == IF e = "off" THEN [x.t EXCEPT !.storageAvailable = FALSE]
                   ELSE [x.t EXCEPT !.lastStorageRaw = x.storage]
           left == [read EXCEPT !.records = retained]
           kept == [x EXCEPT !.t = left]
           saved == IF e # "off" \/ changed THEN save(kept, e) ELSE kept
           lost == \/ x.t.current # None /\ x.t.current \notin tokens(retained)
                   \/ x.t.current = None /\ changed /\ retained # <<>>
           next == First(retained)
           y == IF lost THEN [saved EXCEPT !.t = choose(@, next, NoData)] ELSE saved
<1>1. Expired(x, e) = [x |-> y, chose |-> lost]
    BY DEF Expired
<1>2. /\ x.t \in Tab /\ x.storage \in Seq(Record) /\ Stored(x.t.records)
      /\ x = [t |-> x.t, storage |-> x.storage]
    BY HeldRecords DEF Pair
<1>3. /\ Stored(retained) /\ NotLater(x.t.records, retained)
      /\ e # "off" => tokens(retained) \subseteq Sources(x)
    <2> DEFINE in == incoming(x.t, x.storage, e)
    <2>1. /\ Stored(in) /\ NotLater(x.t.records, in)
          /\ e # "off" => tokens(in) \subseteq Sources(x)
        BY <1>2, IncomingStored
    <2> HIDE DEF in
    <2>2. /\ Stored(liveOf(in)) /\ recordsOf(liveOf(in)) \subseteq recordsOf(in)
          /\ tokens(liveOf(in)) \subseteq tokens(in)
        BY <2>1, LiveStored
    <2>3. NotLater(x.t.records, liveOf(in))
        BY <2>1, <2>2, FewerNotLater
    <2> QED
        BY <2>1, <2>2, <2>3 DEF in
<1> HIDE DEF retained
<1>4. retained \in Seq(Record)
    BY <1>3 DEF Stored
<1>5. /\ left \in Tab /\ left.records = retained /\ Alike(x.t, left)
    <2>1. read \in Tab /\ Alike(x.t, read)
        BY <1>2 DEF Tab, Alike
    <2> HIDE DEF read
    <2> QED
        BY <1>4, <2>1 DEF Tab, Alike
<1> HIDE DEF left
<1>6. kept \in Pair /\ kept.t = left /\ kept.storage = x.storage
    BY <1>2, <1>5 DEF Pair
<1> HIDE DEF kept
<1>7. Makes(x, kept, e, {})
    BY <1>3, <1>5, <1>6 DEF Makes, Sources
<1>8. /\ Makes(x, saved, e, {}) /\ saved.t.records = retained /\ Alike(left, saved.t)
    <2>1. Alike(left, left)
        BY DEF Alike
    <2> QED
        BY <1>5, <1>6, <1>7, <2>1, SaveMakes
<1> HIDE DEF saved
<1>9. saved \in Pair /\ saved.t \in Tab
    BY <1>8 DEF Makes, Pair
<1>10. Alike(x.t, saved.t)
    BY <1>5, <1>8 DEF Alike
<1>11. TabHolds(saved.t, s)
    BY <1>3, <1>8, <1>9, <1>10, AlikeHolds
<1>12. lost \in BOOLEAN
    OBVIOUS
<1>13. CASE lost
    <2> DEFINE c == choose(saved.t, next, NoData)
    <2>1. next \in {None} \cup tokens(retained) /\ next \in Tokens \cup {None}
        BY <1>4, FirstToken
    <2>2. NoData \in NoData .. Final
        BY TrackingNumbers
    <2>3. /\ TabHolds(c, s) /\ GoesOn(c) /\ c.records = retained /\ c.current = next
          /\ c.hidden = saved.t.hidden
        BY <1>8, <1>11, <2>1, <2>2, ChooseHolds
    <2>4. c \in Tab /\ Stored(c.records)
        BY <2>3, HeldRecords
    <2> HIDE DEF c
    <2>5. y = [saved EXCEPT !.t = c]
        BY <1>9, <1>13 DEF c
    <2>6. y.t = c
        BY <1>9, <2>5 DEF Pair
    <2>7. Makes(x, y, e, {})
        BY <1>8, <2>3, <2>4, <2>5, FewerMakes
    <2>8. Follows(c)
        BY <2>1, <2>3 DEF Follows
    <2>9. c.hidden = x.t.hidden
        BY <1>10, <2>3 DEF Alike
    <2> HIDE DEF y, lost
    <2> QED
        BY <1>1, <1>12, <1>13, <2>3, <2>6, <2>7, <2>8, <2>9
<1>14. CASE ~lost
    <2>1. y = saved
        BY <1>14
    <2>2. x.t.current \in {None} \cup tokens(retained)
        BY <1>14
    <2>3. Follows(saved.t)
        BY <1>8, <1>10, <2>2 DEF Follows, Alike
    <2>4. saved.t.hidden = x.t.hidden
        BY <1>10 DEF Alike
    <2> HIDE DEF y, lost
    <2> QED
        BY <1>1, <1>8, <1>10, <1>11, <1>12, <1>14, <2>1, <2>3, <2>4
<1> QED
    BY <1>13, <1>14
-----------------------------------------------------------------------------
\* An order that the tab remembers is followed.
LEMMA ChooseMakes ==
    ASSUME NEW x, NEW y, NEW e, NEW more, Makes(x, y, e, more), NEW s, TabHolds(y.t, s),
           NEW k \in {None} \cup tokens(y.t.records), NEW data \in NoData .. Final,
           k # None /\ data # NoData => y.t.seen[k] <= data /\ data <= s[k]
    PROVE  LET z == [y EXCEPT !.t = choose(@, k, data)] IN
           Makes(x, z, e, more) /\ TabRests(z.t, s)
<1> DEFINE c == choose(y.t, k, data)
           z == [y EXCEPT !.t = c]
<1>1. y \in Pair /\ y.t.records \in Seq(Record)
    BY DEF Makes, Stored
<1>2. k \in Tokens \cup {None}
    BY <1>1, SavedAtValue
<1>3. TabHolds(c, s) /\ GoesOn(c) /\ c.records = y.t.records /\ c.current = k
    BY <1>2, ChooseHolds
<1>4. c \in Tab /\ Stored(c.records)
    BY <1>3, HeldRecords
<1> HIDE DEF c
<1>5. Follows(c)
    BY <1>3 DEF Follows
<1>6. Makes(x, z, e, more)
    BY <1>3, <1>4, FewerMakes
<1>7. z.t = c
    BY <1>1 DEF Pair
<1> HIDE DEF z
<1>8. Makes(x, z, e, more) /\ TabRests(z.t, s)
    BY <1>3, <1>5, <1>6, <1>7 DEF TabRests
<1>9. z = [y EXCEPT !.t = choose(@, k, data)]
    BY <1>1 DEF z, c, Pair
<1> QED
    BY <1>8, <1>9

\* A tab with other records, as it is before it saves them.
LEMMA OtherRecords ==
    ASSUME NEW y \in Pair, NEW list \in Seq(Record)
    PROVE  LET w == [y EXCEPT !.t.records = list] IN
           /\ w \in Pair /\ w.storage = y.storage
           /\ w.t.records = list /\ Alike(y.t, w.t)
<1> DEFINE v == [y.t EXCEPT !.records = list]
           w == [y EXCEPT !.t = v]
<1>1. y.t \in Tab
    BY DEF Pair
<1>2. v \in Tab /\ v.records = list /\ Alike(y.t, v)
    BY <1>1 DEF Tab, Alike
<1>3. [y EXCEPT !.t.records = list] = w
    BY DEF Pair
<1> HIDE DEF v
<1>4. w \in Pair /\ w.t = v /\ w.storage = y.storage
    BY <1>2 DEF Pair
<1> HIDE DEF w
<1> QED
    BY <1>2, <1>3, <1>4

\* The records that can be written where the storage accepts any.
Writable(list, x, e, more) == e # "off" => tokens(list) \subseteq Sources(x) \cup more

\* It saves them before it follows one of them.
LEMMA RecordsMakes ==
    ASSUME NEW x, NEW y, NEW e, Makes(x, y, e, {}), NEW s, TabHolds(y.t, s),
           NEW list, Stored(list), NotLater(x.t.records, list), NEW more,
           Writable(list, x, e, more),
           NEW w \in Pair, w.storage = y.storage, w.t.records = list, Alike(y.t, w.t)
    PROVE  /\ Makes(x, save(w, e), e, more) /\ TabHolds(save(w, e).t, s)
           /\ save(w, e).t.records = list /\ save(w, e).t.seen = y.t.seen
<1> DEFINE z == save(w, e)
<1>1. Makes(x, w, e, more)
    BY DEF Makes, Writable
<1>2. Makes(x, z, e, more) /\ z.t.records = list /\ Alike(w.t, z.t)
    BY <1>1, SaveMakes
<1> HIDE DEF z
<1>3. z.t \in Tab
    BY <1>2 DEF Makes, Pair
<1>4. Alike(y.t, z.t)
    BY <1>2 DEF Alike
<1>5. TabHolds(z.t, s)
    BY <1>2, <1>3, <1>4, AlikeHolds
<1>6. z.t.seen = y.t.seen
    BY <1>4 DEF Alike
<1> QED
    BY <1>2, <1>5, <1>6 DEF z

\* The current order is dropped: it is not written, and the next one is followed.
LEMMA DropHolds ==
    ASSUME NEW x, NEW y, NEW e, Makes(x, y, e, {}), NEW s, TabHolds(y.t, s)
    PROVE  Makes(x, Drop(y, e), e, {}) /\ TabRests(Drop(y, e).t, s)
<1> DEFINE list == Without(y.t.records, y.t.current)
           less == [y EXCEPT !.t.records = Without(@, y.t.current)]
           saved == save(less, e)
           next == First(less.t.records)
<1>1. y \in Pair /\ y.t \in Tab /\ Stored(y.t.records)
    BY DEF Makes, Pair
<1>2. /\ Stored(list) /\ recordsOf(list) \subseteq recordsOf(y.t.records)
      /\ tokens(list) \subseteq tokens(y.t.records)
    BY <1>1, WithoutStored
<1>3. NotLater(x.t.records, list)
    BY <1>2, FewerNotLater DEF Makes
<1>4. Writable(list, x, e, {})
    BY <1>2 DEF Makes, Writable
<1>5. /\ less \in Pair /\ less.storage = y.storage
      /\ less.t.records = list /\ Alike(y.t, less.t)
    <2>1. list \in Seq(Record)
        BY <1>2 DEF Stored
    <2>2. less = [y EXCEPT !.t.records = list]
        BY <1>1 DEF Pair, Tab
    <2> HIDE DEF list, less
    <2> QED
        BY <1>1, <2>1, <2>2, OtherRecords
<1> HIDE DEF list, less
<1>6. Makes(x, saved, e, {}) /\ TabHolds(saved.t, s) /\ saved.t.records = list
    BY <1>2, <1>3, <1>4, <1>5, RecordsMakes
<1> HIDE DEF saved
<1>7. next \in {None} \cup tokens(saved.t.records)
    BY <1>2, <1>5, <1>6, FirstToken DEF Stored
<1>8. NoData \in NoData .. Final
    BY TrackingNumbers
<1> HIDE DEF next
<1>9. LET z == [saved EXCEPT !.t = choose(@, next, NoData)] IN
      Makes(x, z, e, {}) /\ TabRests(z.t, s)
    BY <1>6, <1>7, <1>8, ChooseMakes
<1>10. Drop(y, e) = [saved EXCEPT !.t = choose(@, next, NoData)]
    BY DEF Drop, saved, less, next
<1> QED
    BY <1>9, <1>10

\* The least of at most three times.
LEMMA LeastOfThree ==
    ASSUME NEW a \in Int, NEW b \in Int, NEW c \in Int,
           NEW P, P \subseteq {a, b, c}, c \in P
    PROVE  \E m \in P : \A p \in P : m <= p
<1>1. CASE a \in P /\ a <= c /\ (b \in P => a <= b)
    BY <1>1
<1>2. CASE b \in P /\ b <= c /\ (a \in P => b <= a)
    BY <1>2
<1>3. CASE (a \in P => c <= a) /\ (b \in P => c <= b)
    BY <1>3
<1> QED
    BY <1>1, <1>2, <1>3

\* remember: the order comes first and is followed. It was saved no later than before.
LEMMA RememberedHolds ==
    ASSUME NEW x, NEW y, NEW e, Makes(x, y, e, {}), NEW s, TabHolds(y.t, s),
           now \in 0 .. MaxTime, NEW known \in Seq(Record),
           known = x.t.records \/ tokens(x.t.records) = {},
           NEW k \in Tokens, NEW data \in NoData .. Final,
           data # NoData => y.t.seen[k] <= data /\ data <= s[k]
    PROVE  /\ Makes(x, Remembered(y, known, k, data, e), e, {k})
           /\ TabRests(Remembered(y, known, k, data, e).t, s)
<1> DEFINE mine == y.t.records
           previous == {savedAt(r, k) : r \in {o \in {known, mine} : k \in tokens(o)}}
           first == CHOOSE m \in previous \cup {now} : \A p \in previous \cup {now} : m <= p
           rec == [token |-> k, savedAt |-> first]
           rest == Without(mine, k)
           records == <<rec>> \o rest
           newest == SubSeq(records, 1, Min2(Kept, Len(records)))
           fuller == [y EXCEPT !.t.records = newest]
           saved == save(fuller, e)
<1>1. y \in Pair /\ y.t \in Tab /\ Stored(mine) /\ mine \in Seq(Record)
    BY DEF Makes, Pair, Stored
<1>2. /\ first \in 0 .. MaxTime
      /\ k \in tokens(known) => first <= savedAt(known, k)
    <2> DEFINE a == IF k \in tokens(known) THEN savedAt(known, k) ELSE now
               b == IF k \in tokens(mine) THEN savedAt(mine, k) ELSE now
               P == previous \cup {now}
    <2>1. a \in 0 .. MaxTime /\ b \in 0 .. MaxTime
        BY <1>1, SavedAtValue
    <2>2. P \subseteq {a, b, now} /\ now \in P
        OBVIOUS
    <2>3. k \in tokens(known) => savedAt(known, k) \in P
        OBVIOUS
    <2>6. a \in Int /\ b \in Int /\ now \in Int
        BY <2>1, TrackingNumbers
    <2>7. first = CHOOSE m \in P : \A p \in P : m <= p
        OBVIOUS
    <2> HIDE DEF a, b, P
    <2>4. \E m \in P : \A p \in P : m <= p
        BY <2>2, <2>6, LeastOfThree
    <2>5. first \in P /\ \A p \in P : first <= p
        <3> HIDE DEF first
        <3> QED
            BY <2>4, <2>7
    <2> HIDE DEF first
    <2> QED
        BY <2>1, <2>2, <2>3, <2>5
<1> HIDE DEF first
<1>3. rec \in Record /\ rec.token = k /\ rec.savedAt = first
    BY <1>2 DEF Record
<1>4. /\ Stored(rest) /\ recordsOf(rest) \subseteq recordsOf(mine)
      /\ tokens(rest) = tokens(mine) \ {k}
    BY <1>1, WithoutStored
<1> HIDE DEF rec, rest, mine
<1>5. rest \in Seq(Record) /\ Len(rest) \in Nat /\ DOMAIN rest = 1 .. Len(rest)
    BY <1>4, LenProperties DEF Stored
<1>6. /\ records \in Seq(Record) /\ Len(records) = 1 + Len(rest)
      /\ records[1] = rec
      /\ \A i \in 2 .. Len(records) : records[i] \in recordsOf(rest)
    <2>1. <<rec>> \in Seq(Record) /\ Len(<<rec>>) = 1 /\ <<rec>>[1] = rec
        BY <1>3
    <2>2. /\ records \in Seq(Record) /\ Len(records) = 1 + Len(rest)
          /\ \A i \in 1 .. 1 + Len(rest) :
                records[i] = IF i <= 1 THEN <<rec>>[i] ELSE rest[i - 1]
        BY <1>5, <2>1, ConcatProperties
    <2> HIDE DEF records
    <2>3. \A i \in 2 .. Len(records) : i - 1 \in DOMAIN rest /\ records[i] = rest[i - 1]
        BY <1>5, <2>2
    <2>4. records[1] = rec
        BY <1>5, <2>1, <2>2
    <2> QED
        BY <2>2, <2>3, <2>4 DEF recordsOf
<1> HIDE DEF records
<1> DEFINE n == Min2(Kept, Len(records))
<1>7. n \in Nat /\ 1 <= n /\ n <= Kept /\ n <= Len(records)
    BY <1>5, <1>6, TrackingNumbers, Min2Value
<1>8. /\ newest \in Seq(Record) /\ Len(newest) = n /\ DOMAIN newest = 1 .. n
      /\ \A i \in 1 .. n : newest[i] = records[i]
    <2>1. \A i \in 1 .. n : records[i] \in Record
        BY <1>5, <1>6, <1>7, ElementOfSeq
    <2> HIDE DEF n
    <2>2. /\ newest \in Seq(Record) /\ Len(newest) = n
          /\ \A i \in 1 .. n - 1 + 1 : newest[i] = records[1 + i - 1]
        BY <1>7, <2>1, SubSeqProperties DEF n
    <2>3. DOMAIN newest = 1 .. n
        BY <2>2, LenProperties
    <2>4. n - 1 + 1 = n /\ \A i \in 1 .. n : 1 + i - 1 = i
        BY <1>7
    <2> QED
        BY <2>2, <2>3, <2>4
<1> HIDE DEF newest, n
<1>9. recordsOf(newest) \subseteq {rec} \cup recordsOf(rest) /\ rec \in recordsOf(newest)
    <2>1. \A i \in 1 .. n : newest[i] \in {rec} \cup recordsOf(rest)
        BY <1>5, <1>6, <1>7, <1>8
    <2>2. 1 \in 1 .. n /\ newest[1] = rec
        BY <1>6, <1>7, <1>8
    <2> QED
        BY <1>8, <2>1, <2>2 DEF recordsOf
<1>10. \A r \in recordsOf(rest) : r.token # k /\ r.token \in tokens(mine)
    BY <1>4, TokensOfRecords
<1>11. Stored(newest)
    <2>1. OneEach(newest)
        BY <1>3, <1>4, <1>9, <1>10 DEF OneEach, Stored
    <2> QED
        BY <1>7, <1>8, <2>1 DEF Stored
<1>12. tokens(newest) \subseteq tokens(mine) \cup {k} /\ k \in tokens(newest)
    BY <1>3, <1>9, <1>10, TokensOfRecords
<1>13. NotLater(x.t.records, newest)
    <2> SUFFICES ASSUME NEW r \in recordsOf(newest), r.token \in tokens(x.t.records)
                 PROVE  r.savedAt <= savedAt(x.t.records, r.token)
        BY DEF NotLater
    <2>1. CASE r = rec
        BY <1>2, <1>3, <2>1
    <2>2. CASE r \in recordsOf(rest)
        BY <1>4, <2>2 DEF Makes, NotLater, mine
    <2> QED
        BY <1>9, <2>1, <2>2
<1>14. Writable(newest, x, e, {k})
    BY <1>12 DEF Makes, Writable, mine
<1>15. /\ Makes(x, saved, e, {k}) /\ TabHolds(saved.t, s) /\ saved.t.records = newest
       /\ saved.t.seen = y.t.seen
    <2>1. /\ fuller \in Pair /\ fuller.storage = y.storage
          /\ fuller.t.records = newest /\ Alike(y.t, fuller.t)
        BY <1>1, <1>8, OtherRecords
    <2> HIDE DEF fuller
    <2> QED
        BY <1>11, <1>13, <1>14, <2>1, RecordsMakes
<1> HIDE DEF saved
<1>16. LET z == [saved EXCEPT !.t = choose(@, k, data)] IN
       Makes(x, z, e, {k}) /\ TabRests(z.t, s)
    BY <1>12, <1>15, ChooseMakes
<1>17. Remembered(y, known, k, data, e) = [saved EXCEPT !.t = choose(@, k, data)]
    BY DEF Remembered, saved, fuller, newest, records, rest, rec, first, mine
<1> QED
    BY <1>16, <1>17
-----------------------------------------------------------------------------
\* What a tab sees before a step.
LEMMA SeenBefore ==
    ASSUME TrackingInv, NEW t \in Tabs
    PROVE  /\ Sees(t) \in Pair /\ Sees(t).t = tab[t] /\ Sees(t).storage = storage
           /\ tab[t] \in Tab /\ TabRests(tab[t], tracked) /\ TabHolds(tab[t], tracked)
           /\ Stored(storage) /\ Stored(tab[t].records) /\ now \in 0 .. MaxTime
           /\ tracked \in [Tokens -> NotYet .. Gone]
<1>1. TabRests(tab[t], tracked) /\ TabHolds(tab[t], tracked)
    BY DEF TrackingInv, TabRests
<1>2. tab[t] \in Tab /\ Stored(tab[t].records)
    BY <1>1, HeldRecords
<1>3. storage \in Seq(Record) /\ Stored(storage)
    BY DEF TrackingInv, TrackingTypeOK, Stored
<1> QED
    BY <1>1, <1>2, <1>3 DEF TrackingInv, TrackingTypeOK, Sees, Pair

\* The server's statuses only go forward, so that nothing gets ahead of them.
Forward(s, o) == \A k \in Tokens : s[k] \in Int /\ o[k] \in Int /\ s[k] <= o[k]

LEMMA ForwardHolds ==
    ASSUME NEW u, NEW s, NEW o, Forward(s, o)
    PROVE  /\ TabHolds(u, s) => TabHolds(u, o)
           /\ TabRests(u, s) => TabRests(u, o)
<1>1. ASSUME TabHolds(u, s)
      PROVE  TabHolds(u, o)
    <2>1. u \in Tab
        BY <1>1 DEF TabHolds
    <2>2. \A k \in Tokens : u.seen[k] \in Int /\ u.seen[k] <= s[k] /\ s[k] <= o[k]
                            /\ s[k] \in Int /\ o[k] \in Int
        BY <1>1, <2>1, TabFields, TrackingNumbers DEF TabHolds, NoneAhead, Forward
    <2>3. \A k \in Tokens : u.seen[k] <= o[k]
        BY <2>2
    <2>4. ASSUME NEW q \in u.requests, q.answer \in 0 .. Gone
          PROVE  q.answer <= o[q.token]
        <3>1. q.token \in Tokens /\ q.answer \in Int
            BY <2>1, TabFields, RequestFields
        <3>2. q.answer <= s[q.token]
            BY <1>1, <2>4 DEF TabHolds, NoneAhead
        <3> QED
            BY <2>2, <3>1, <3>2
    <2>5. NoneAhead(u, o)
        BY <2>3, <2>4 DEF NoneAhead
    <2> QED
        BY <1>1, <2>5 DEF TabHolds
<1> QED
    BY <1>1 DEF TabRests

\* A step of one tab that makes y of it.
LEMMA StepKeeps ==
    ASSUME TrackingInv, NEW t \in Tabs, NEW y, NEW e, NEW more \in SUBSET Tokens,
           Makes(Sees(t), y, e, more), TabRests(y.t, tracked'),
           tracked' \in [Tokens -> NotYet .. Gone], Forward(tracked, tracked'),
           Became(t, y), WantedAfter(t, more), now' = now
    PROVE  TrackingInv' /\ NoLongerKept
<1>1. /\ Sees(t) \in Pair /\ Sees(t).t = tab[t] /\ Sees(t).storage = storage
      /\ tab[t] \in Tab /\ Stored(storage) /\ Stored(tab[t].records)
    BY SeenBefore
<1>2. /\ y \in Pair /\ y.t \in Tab /\ Stored(y.storage) /\ Stored(y.t.records)
      /\ tokens(y.storage) \subseteq Sources(Sees(t)) \cup more
      /\ NotLater(tab[t].records, y.t.records)
    BY <1>1 DEF Makes, Pair
<1>3. tab \in [Tabs -> Tab] /\ tab' = [tab EXCEPT ![t] = y.t] /\ storage' = y.storage
    BY DEF TrackingInv, TrackingTypeOK, Became
<1>4. tab' \in [Tabs -> Tab] /\ tab'[t] = y.t /\ \A o \in Tabs \ {t} : tab'[o] = tab[o]
    BY <1>2, <1>3
<1> DEFINE unsaved == IF tab[t].storageAvailable \/ tab[t].lastStorageRaw # storage THEN {}
                      ELSE tokens(tab[t].records)
<1>5. wanted' = (wanted \ (tokens(storage) \ tokens(storage'))) \cup unsaved \cup more
    BY DEF WantedAfter
<1>6. Sources(Sees(t)) = tokens(storage) \cup unsaved
    BY <1>1 DEF Sources, Unsaved
<1>7. unsaved \subseteq Tokens
    BY <1>1, SavedAtValue DEF Stored
<1> HIDE DEF unsaved
<1>8. tokens(storage) \subseteq wanted /\ wanted \subseteq Tokens
    BY DEF TrackingInv, ForgottenStays, TrackingTypeOK
<1>9. ForgottenStays' /\ wanted' \subseteq Tokens
    BY <1>2, <1>3, <1>5, <1>6, <1>7, <1>8 DEF ForgottenStays, tokens
<1>10. storage' \in Seq(Record) /\ Len(storage') <= Kept /\ OneEach(storage')
    BY <1>2, <1>3 DEF Stored
<1>11. TrackingTypeOK'
    BY <1>4, <1>9, <1>10 DEF TrackingInv, TrackingTypeOK
<1>12. \A o \in Tabs : TabRests(tab'[o], tracked')
    BY <1>4, ForwardHolds DEF TrackingInv
<1>13. NoLongerKept
    <2> SUFFICES ASSUME NEW o \in Tabs,
                        NEW k \in tokens(tab[o].records) \cap tokens(tab'[o].records)
                 PROVE  savedAt(tab'[o].records, k) <= savedAt(tab[o].records, k)
        BY DEF NoLongerKept
    <2>1. tab[o].records \in Seq(Record) /\ tab'[o].records \in Seq(Record)
        BY <1>3, <1>4, TabFields
    <2>2. CASE o = t
        <3> DEFINE w == [token |-> k, savedAt |-> savedAt(y.t.records, k)]
        <3>1. w \in recordsOf(y.t.records)
            BY <1>4, <2>1, <2>2, SavedAtValue
        <3>2. w.token = k /\ w.savedAt = savedAt(y.t.records, k)
            OBVIOUS
        <3> HIDE DEF w
        <3>3. k \in tokens(tab[t].records)
            BY <2>2
        <3>4. w.savedAt <= savedAt(tab[t].records, w.token)
            BY <1>2, <3>1, <3>2, <3>3 DEF NotLater
        <3>5. tab'[o].records = y.t.records /\ tab[o].records = tab[t].records
            BY <1>4, <2>2
        <3> QED
            BY <3>2, <3>4, <3>5
    <2>3. CASE o # t
        <3>1. tab'[o].records = tab[o].records
            BY <1>4, <2>3
        <3>2. savedAt(tab[o].records, k) \in 0 .. MaxTime
            BY <2>1, SavedAtValue
        <3>3. savedAt(tab[o].records, k) <= savedAt(tab[o].records, k)
            BY <3>2
        <3> QED
            BY <3>1, <3>3
    <2> QED
        BY <2>2, <2>3
<1>14. OneEach(storage)'
    BY <1>10 DEF OneEach, recordsOf
<1>15. (\A o \in Tabs : TabRests(tab[o], tracked))'
    BY <1>12
<1> QED
    BY <1>9, <1>11, <1>13, <1>14, <1>15 DEF TrackingInv

\* A handler that leaves y.
LEMMA HandlerKeeps ==
    ASSUME TrackingInv, NEW t \in Tabs, NEW y, NEW e,
           Makes(Sees(t), y, e, {}), TabRests(y.t, tracked), Leaves(t, y)
    PROVE  TrackingInv' /\ NoLongerKept
<1>1. /\ tracked' = tracked /\ now' = now /\ tracked \in [Tokens -> NotYet .. Gone]
      /\ Became(t, y) /\ WantedAfter(t, {})
    BY SeenBefore DEF Leaves
<1>2. Forward(tracked, tracked')
    BY <1>1, TrackingNumbers DEF Forward
<1> QED
    BY <1>1, <1>2, StepKeeps

\* A handler that begins with other than the tab's records, or the storage it knew.
LEMMA SameSources ==
    ASSUME NEW x, NEW o, NEW y, NEW e, NEW more, Makes(x, y, e, more),
           o.storage = x.storage, o.t.records = x.t.records,
           o.t.storageAvailable = x.t.storageAvailable,
           o.t.lastStorageRaw = x.t.lastStorageRaw
    PROVE  Makes(o, y, e, more)
    BY DEF Makes, Sources, Unsaved

\* What expire alone, or a request after it, leaves.
LEMMA ExpiredRests ==
    ASSUME NEW x \in Pair, NEW s, TabHolds(x.t, s), Stored(x.storage), NEW e,
           Expired(x, e).chose \/ GoesOn(x.t)
    PROVE  TabRests(Expired(x, e).x.t, s)
<1> DEFINE done == Expired(x, e)
           y == done.x
<1>1. /\ done.chose \in BOOLEAN
      /\ Makes(x, y, e, {}) /\ TabHolds(y.t, s) /\ Follows(y.t)
      /\ done.chose => GoesOn(y.t)
      /\ ~done.chose => Alike(x.t, y.t)
    BY ExpiredHolds
<1>2. y.t \in Tab /\ Stored(y.t.records)
    BY <1>1, HeldRecords
<1> HIDE DEF done
<1>3. GoesOn(y.t)
    BY <1>1, <1>2, AlikeHolds DEF done
<1> QED
    BY <1>1, <1>3 DEF TabRests, done

LEMMA AskMakes ==
    ASSUME NEW x, NEW y, NEW e, NEW more, Makes(x, y, e, more), NEW s, TabHolds(y.t, s),
           Follows(y.t)
    PROVE  Makes(x, Asking(y), e, more) /\ TabRests(Asking(y).t, s)
<1> DEFINE v == ask(y.t)
<1>1. y \in Pair
    BY DEF Makes
<1>2. /\ TabHolds(v, s) /\ GoesOn(v) /\ v.records = y.t.records /\ v.current = y.t.current
    BY AskHolds
<1>3. v \in Tab /\ Stored(v.records)
    BY <1>2, HeldRecords
<1> HIDE DEF v
<1>4. Asking(y) = [y EXCEPT !.t = v]
    BY <1>1 DEF Asking, v, Pair
<1>5. Asking(y).t = v
    BY <1>1, <1>4 DEF Pair
<1>6. Follows(v)
    BY <1>2 DEF Follows
<1> QED
    BY <1>2, <1>3, <1>4, <1>5, <1>6, FewerMakes DEF TabRests

LEMMA ScheduleMakes ==
    ASSUME NEW x, NEW y, NEW e, NEW more, Makes(x, y, e, more), NEW s,
           NEW u, TabHolds(u, s), u.records = y.t.records, u.current = y.t.current,
           Follows(y.t)
    PROVE  LET z == [y EXCEPT !.t = schedule(u)] IN Makes(x, z, e, more) /\ TabRests(z.t, s)
<1> DEFINE v == schedule(u)
           z == [y EXCEPT !.t = v]
<1>1. y \in Pair
    BY DEF Makes
<1>2. /\ TabHolds(v, s) /\ GoesOn(v) /\ v.records = y.t.records /\ v.current = y.t.current
    BY ScheduleHolds
<1>3. v \in Tab /\ Stored(v.records)
    BY <1>2, HeldRecords
<1> HIDE DEF v
<1>4. z.t = v
    BY <1>1 DEF Pair
<1>5. Follows(v)
    BY <1>2 DEF Follows
<1>6. Makes(x, z, e, more)
    BY <1>2, <1>3, FewerMakes
<1> HIDE DEF z
<1>7. Makes(x, z, e, more) /\ TabRests(z.t, s)
    BY <1>2, <1>4, <1>5, <1>6 DEF TabRests
<1> QED
    BY <1>7 DEF z, v
-----------------------------------------------------------------------------
\* The handlers of a tab.
LEMMA SyncKeeps ==
    ASSUME TrackingInv, NEW t \in Tabs, NEW e, syncStorage(t, e)
    PROVE  TrackingInv' /\ NoLongerKept
<1> DEFINE y == Expired(Sees(t), e).x
<1>1. /\ Sees(t) \in Pair /\ Sees(t).t = tab[t] /\ Sees(t).storage = storage
      /\ TabRests(tab[t], tracked) /\ TabHolds(tab[t], tracked) /\ Stored(storage)
    BY SeenBefore
<1>2. Makes(Sees(t), y, e, {})
    BY <1>1, ExpiredHolds
<1>3. TabRests(y.t, tracked)
    BY <1>1, ExpiredRests DEF TabRests
<1>4. Leaves(t, y)
    BY DEF syncStorage
<1> HIDE DEF y
<1> QED
    BY <1>2, <1>3, <1>4, HandlerKeeps

LEMMA RefreshKeeps ==
    ASSUME TrackingInv, NEW t \in Tabs, NEW e, refresh(t, e)
    PROVE  TrackingInv' /\ NoLongerKept
<1> DEFINE done == Expired(Sees(t), e)
           y == Unless(done, Asking(done.x))
<1>1. /\ Sees(t) \in Pair /\ Sees(t).t = tab[t] /\ Sees(t).storage = storage
      /\ TabHolds(tab[t], tracked) /\ Stored(storage)
    BY SeenBefore
<1>2. /\ Makes(Sees(t), done.x, e, {}) /\ TabHolds(done.x.t, tracked) /\ Follows(done.x.t)
      /\ done.chose => GoesOn(done.x.t)
    BY <1>1, ExpiredHolds
<1>3. Leaves(t, y)
    BY DEF refresh
<1> HIDE DEF done
<1>4. Makes(Sees(t), y, e, {}) /\ TabRests(y.t, tracked)
    BY <1>2, AskMakes DEF Unless, TabRests
<1> HIDE DEF y
<1> QED
    BY <1>3, <1>4, HandlerKeeps

\* A tab that is hidden or shown, and so has no timer.
LEMMA TimerStopped ==
    ASSUME TrackingInv, NEW t \in Tabs, NEW b \in BOOLEAN
    PROVE  LET v == [tab[t] EXCEPT !.timer = FALSE, !.hidden = b]
               x == [t |-> v, storage |-> storage]
           IN /\ x \in Pair /\ x.t = v /\ x.storage = storage
              /\ TabHolds(v, tracked) /\ v.hidden = b
              /\ v.records = tab[t].records
              /\ v.storageAvailable = tab[t].storageAvailable
              /\ v.lastStorageRaw = tab[t].lastStorageRaw
<1> DEFINE u == tab[t]
           v == [u EXCEPT !.timer = FALSE, !.hidden = b]
           x == [t |-> v, storage |-> storage]
<1>1. u \in Tab /\ TabHolds(u, tracked) /\ Stored(storage)
    BY SeenBefore
<1> HIDE DEF u
<1>2. v \in Tab
    BY <1>1 DEF Tab
<1>3. /\ v.records = u.records /\ v.current = u.current /\ v.lastData = u.lastData
      /\ v.seen = u.seen /\ v.requests = u.requests /\ v.hidden = b
      /\ v.storageAvailable = u.storageAvailable /\ v.lastStorageRaw = u.lastStorageRaw
    BY <1>1 DEF Tab
<1> HIDE DEF v
<1>4. NoneAhead(v, tracked) /\ OneAwaited(v) /\ ShowsNewest(v)
    BY <1>1, <1>3 DEF TabHolds, NoneAhead, OneAwaited, ShowsNewest
<1>5. TabHolds(v, tracked)
    BY <1>1, <1>2, <1>3, <1>4 DEF TabHolds
<1>6. x \in Pair /\ x.t = v /\ x.storage = storage
    BY <1>1, <1>2 DEF Pair, Stored
<1> QED
    BY <1>3, <1>5, <1>6 DEF u, v

LEMMA HideKeeps ==
    ASSUME TrackingInv, NEW t \in Tabs, NEW e, Hide(t, e)
    PROVE  TrackingInv' /\ NoLongerKept
<1> DEFINE still == [tab[t] EXCEPT !.timer = FALSE, !.hidden = TRUE]
           x == [t |-> still, storage |-> storage]
           done == Expired(x, e)
           y == done.x
           z == [y EXCEPT !.t = cancel(@)]
<1>1. /\ Sees(t) \in Pair /\ Sees(t).t = tab[t] /\ Sees(t).storage = storage
      /\ Stored(storage)
    BY SeenBefore
<1>2. /\ x \in Pair /\ x.t = still /\ x.storage = storage
      /\ TabHolds(still, tracked) /\ still.hidden = TRUE
      /\ still.records = tab[t].records
      /\ still.storageAvailable = tab[t].storageAvailable
      /\ still.lastStorageRaw = tab[t].lastStorageRaw
    BY TimerStopped
<1>3. \E left \in BOOLEAN : Leaves(t, IF left THEN z ELSE y)
    BY DEF Hide
<1> HIDE DEF still, x
<1>4. /\ Makes(x, y, e, {}) /\ TabHolds(y.t, tracked) /\ Follows(y.t)
      /\ y.t.hidden = TRUE
    BY <1>1, <1>2, ExpiredHolds
<1> HIDE DEF done, y
<1>5. Makes(Sees(t), y, e, {})
    BY <1>1, <1>2, <1>4, SameSources
<1>6. TabRests(y.t, tracked)
    BY <1>4 DEF TabRests, GoesOn
<1>7. Makes(Sees(t), z, e, {}) /\ TabRests(z.t, tracked)
    <2> DEFINE v == cancel(y.t)
    <2>1. /\ TabHolds(v, tracked) /\ v.records = y.t.records /\ v.current = y.t.current
          /\ v.hidden = TRUE
        BY <1>4, CancelHolds
    <2>2. v \in Tab /\ Stored(v.records)
        BY <2>1, HeldRecords
    <2>3. y \in Pair
        BY <1>5 DEF Makes
    <2> HIDE DEF v
    <2>4. z = [y EXCEPT !.t = v] /\ z.t = v
        BY <2>3 DEF v, Pair
    <2>5. Makes(Sees(t), z, e, {})
        BY <1>5, <2>1, <2>2, <2>4, FewerMakes
    <2>6. Follows(v) /\ GoesOn(v)
        BY <1>4, <2>1 DEF Follows, GoesOn
    <2> QED
        BY <2>1, <2>4, <2>5, <2>6 DEF TabRests
<1> HIDE DEF z
<1>8. Leaves(t, y) \/ Leaves(t, z)
    BY <1>3
<1> QED
    BY <1>5, <1>6, <1>7, <1>8, HandlerKeeps

LEMMA ShowKeeps ==
    ASSUME TrackingInv, NEW t \in Tabs, NEW e, Show(t, e)
    PROVE  TrackingInv' /\ NoLongerKept
<1> DEFINE shown == [tab[t] EXCEPT !.timer = FALSE, !.hidden = FALSE]
           x == [t |-> shown, storage |-> storage]
           done == Expired(x, e)
           y == Unless(done, Asking(done.x))
<1>1. /\ Sees(t) \in Pair /\ Sees(t).t = tab[t] /\ Sees(t).storage = storage
      /\ Stored(storage)
    BY SeenBefore
<1>2. /\ x \in Pair /\ x.t = shown /\ x.storage = storage
      /\ TabHolds(shown, tracked)
      /\ shown.records = tab[t].records
      /\ shown.storageAvailable = tab[t].storageAvailable
      /\ shown.lastStorageRaw = tab[t].lastStorageRaw
    BY TimerStopped
<1>3. Leaves(t, y)
    BY DEF Show
<1> HIDE DEF shown, x
<1>4. /\ Makes(x, done.x, e, {}) /\ TabHolds(done.x.t, tracked) /\ Follows(done.x.t)
      /\ done.chose => GoesOn(done.x.t)
    BY <1>1, <1>2, ExpiredHolds
<1> HIDE DEF done
<1>5. Makes(x, y, e, {}) /\ TabRests(y.t, tracked)
    BY <1>4, AskMakes DEF Unless, TabRests
<1> HIDE DEF y
<1>6. Makes(Sees(t), y, e, {})
    BY <1>1, <1>2, <1>5, SameSources
<1> QED
    BY <1>3, <1>5, <1>6, HandlerKeeps

LEMMA SelectKeeps ==
    ASSUME TrackingInv, NEW t \in Tabs, NEW k \in Tokens, NEW e, Select(t, k, e)
    PROVE  TrackingInv' /\ NoLongerKept
<1> DEFINE done == Expired(Sees(t), e)
           y == Unless(done, Followed(done.x, k))
<1>1. /\ Sees(t) \in Pair /\ Sees(t).t = tab[t] /\ Sees(t).storage = storage
      /\ TabHolds(tab[t], tracked) /\ Stored(storage)
    BY SeenBefore
<1>2. /\ Makes(Sees(t), done.x, e, {}) /\ TabHolds(done.x.t, tracked) /\ Follows(done.x.t)
      /\ done.chose => GoesOn(done.x.t)
    BY <1>1, ExpiredHolds
<1>3. Leaves(t, y)
    BY DEF Select
<1> HIDE DEF done
<1>4. Makes(Sees(t), Followed(done.x, k), e, {}) /\ TabRests(Followed(done.x, k).t, tracked)
    <2> DEFINE j == IF k \in tokens(done.x.t.records) THEN k ELSE None
               z == [done.x EXCEPT !.t = choose(@, j, NoData)]
    <2>1. j \in {None} \cup tokens(done.x.t.records)
        OBVIOUS
    <2>2. done.x \in Pair
        BY <1>2 DEF Makes
    <2>3. Followed(done.x, k) = z
        BY <2>2 DEF Followed, Pair
    <2>4. NoData \in NoData .. Final
        BY TrackingNumbers
    <2> HIDE DEF j
    <2>5. Makes(Sees(t), z, e, {}) /\ TabRests(z.t, tracked)
        BY <1>2, <2>1, <2>4, ChooseMakes
    <2> QED
        BY <2>3, <2>5
<1>5. Makes(Sees(t), y, e, {}) /\ TabRests(y.t, tracked)
    BY <1>2, <1>4 DEF Unless, TabRests
<1> HIDE DEF y
<1> QED
    BY <1>3, <1>5, HandlerKeeps

LEMMA ForgetKeeps ==
    ASSUME TrackingInv, NEW t \in Tabs, NEW e, forget(t, e)
    PROVE  TrackingInv' /\ NoLongerKept
<1> DEFINE done == Expired(Sees(t), e)
           y == Unless(done, Drop(done.x, e))
<1>1. /\ Sees(t) \in Pair /\ Sees(t).t = tab[t] /\ Sees(t).storage = storage
      /\ TabHolds(tab[t], tracked) /\ Stored(storage)
    BY SeenBefore
<1>2. /\ Makes(Sees(t), done.x, e, {}) /\ TabHolds(done.x.t, tracked) /\ Follows(done.x.t)
      /\ done.chose => GoesOn(done.x.t)
    BY <1>1, ExpiredHolds
<1>3. Leaves(t, y)
    BY DEF forget
<1> HIDE DEF done
<1>4. Makes(Sees(t), y, e, {}) /\ TabRests(y.t, tracked)
    BY <1>2, DropHolds DEF Unless, TabRests
<1> HIDE DEF y
<1> QED
    BY <1>3, <1>4, HandlerKeeps
\* An order is remembered, from a link or when it is created: its status is known then.
LEMMA RememberKeeps ==
    ASSUME TrackingInv, NEW t \in Tabs, NEW k \in Tokens, NEW data \in {NoData, 0}, NEW e,
           remember(t, k, data, e), now' = now,
           tracked' \in [Tokens -> NotYet .. Gone], Forward(tracked, tracked'),
           data # NoData => tracked[k] = NotYet /\ tracked'[k] = 0
    PROVE  TrackingInv' /\ NoLongerKept
<1> DEFINE known == tab[t].records
           done == Expired(Sees(t), e)
           dead == k \in tokens(known) /\ ~isLive([token |-> k, savedAt |-> savedAt(known, k)])
           there == Remembered(done.x, known, k, data, e)
           y == IF dead THEN done.x ELSE there
           more == IF dead THEN {} ELSE {k}
<1>1. /\ Sees(t) \in Pair /\ Sees(t).t = tab[t] /\ Sees(t).storage = storage
      /\ TabRests(tab[t], tracked) /\ TabHolds(tab[t], tracked) /\ Stored(storage)
      /\ Stored(known) /\ now \in 0 .. MaxTime
    BY SeenBefore
<1>2. known \in Seq(Record)
    BY <1>1 DEF Stored
<1>3. TabHolds(tab[t], tracked') /\ TabRests(tab[t], tracked')
    BY <1>1, ForwardHolds
<1>4. /\ Makes(Sees(t), done.x, e, {}) /\ TabHolds(done.x.t, tracked')
      /\ TabHolds(done.x.t, tracked)
    BY <1>1, <1>3, ExpiredHolds
<1>5. TabRests(done.x.t, tracked')
    BY <1>1, <1>3, ExpiredRests DEF TabRests
<1>6. Became(t, y) /\ WantedAfter(t, more)
    BY DEF remember
<1> HIDE DEF done, dead
<1>7. data \in NoData .. Final /\ 0 \in Int
    BY TrackingNumbers
<1>8. data # NoData => done.x.t.seen[k] <= data /\ data <= tracked'[k]
    <2> SUFFICES ASSUME data # NoData
                 PROVE  done.x.t.seen[k] <= data /\ data <= tracked'[k]
        OBVIOUS
    <2>1. data = 0 /\ tracked[k] = -1 /\ tracked'[k] = 0
        BY TrackingNumbers
    <2>2. done.x.t.seen[k] \in Int /\ done.x.t.seen[k] <= tracked[k]
        <3>1. done.x.t \in Tab
            BY <1>4, HeldRecords
        <3>2. done.x.t.seen[k] \in NoData .. Final
            BY <3>1, TabFields
        <3> QED
            BY <1>4, <3>2, TrackingNumbers DEF TabHolds, NoneAhead
    <2> QED
        BY <2>1, <2>2
<1>9. Makes(Sees(t), there, e, {k}) /\ TabRests(there.t, tracked')
    BY <1>1, <1>2, <1>4, <1>7, <1>8, RememberedHolds
<1> HIDE DEF there, known
<1>10. Makes(Sees(t), y, e, more) /\ TabRests(y.t, tracked') /\ more \in SUBSET Tokens
    BY <1>4, <1>5, <1>9
<1> HIDE DEF y, more
<1> QED
    BY <1>6, <1>10, StepKeeps

LEMMA CreatedKeeps ==
    ASSUME TrackingInv, NEW t \in Tabs, NEW k \in Tokens, NEW e, OrderCreated(t, k, e)
    PROVE  TrackingInv' /\ NoLongerKept
<1>1. /\ tracked \in [Tokens -> NotYet .. Gone] /\ tracked[k] = NotYet
      /\ tracked' = [tracked EXCEPT ![k] = 0] /\ now' = now /\ remember(t, k, 0, e)
    BY SeenBefore DEF OrderCreated
<1>2. 0 \in NotYet .. Gone
    BY TrackingNumbers
<1>3. /\ tracked' \in [Tokens -> NotYet .. Gone] /\ tracked'[k] = 0
      /\ \A j \in Tokens \ {k} : tracked'[j] = tracked[j]
    BY <1>1, <1>2
<1>4. Forward(tracked, tracked')
    BY <1>1, <1>3, TrackingNumbers DEF Forward
<1>5. 0 \in {NoData, 0}
    OBVIOUS
<1> QED
    BY <1>1, <1>3, <1>4, <1>5, RememberKeeps

LEMMA LinkKeeps ==
    ASSUME TrackingInv, NEW t \in Tabs, NEW k \in Tokens, NEW e, LinkOpened(t, k, e)
    PROVE  TrackingInv' /\ NoLongerKept
<1>1. /\ tracked \in [Tokens -> NotYet .. Gone]
      /\ tracked' = tracked /\ now' = now /\ remember(t, k, NoData, e)
    BY SeenBefore DEF LinkOpened
<1>2. Forward(tracked, tracked')
    BY <1>1, TrackingNumbers DEF Forward
<1>3. NoData \in {NoData, 0}
    OBVIOUS
<1> QED
    BY <1>1, <1>2, <1>3, RememberKeeps

\* The tab that is closed.
LEMMA ClosedRests ==
    ASSUME NEW s \in [Tokens -> NotYet .. Gone]
    PROVE  /\ TabRests(ClosedTab, s) /\ ClosedTab \in Tab
           /\ ClosedTab.records = <<>> /\ ClosedTab.storageAvailable
           /\ ClosedTab.current = None
<1> DEFINE c == ClosedTab
<1>1. <<>> \in Seq(Record) /\ Stored(<<>>)
    BY EmptySeq, NothingStored
<1>2. NoData \in NoData .. Final
    BY TrackingNumbers
<1>3. /\ c.records = <<>> /\ c.current = None /\ c.requests = {} /\ c.hidden
      /\ c.seen = [k \in Tokens |-> NoData] /\ c.lastData = NoData /\ c.storageAvailable
    BY DEF ClosedTab
<1>4. c \in Tab
    BY <1>1, <1>2 DEF ClosedTab, Tab
<1>5. \A k \in Tokens : c.seen[k] <= s[k]
    BY <1>3, TrackingNumbers
<1> HIDE DEF c
<1>6. NoneAhead(c, s) /\ OneAwaited(c) /\ ShowsNewest(c) /\ Follows(c) /\ GoesOn(c)
    BY <1>3, <1>5 DEF NoneAhead, OneAwaited, ShowsNewest, Follows, GoesOn
<1>7. TabRests(c, s)
    BY <1>1, <1>3, <1>4, <1>6 DEF TabRests, TabHolds, Stored
<1> QED
    BY <1>3, <1>4, <1>7 DEF c

LEMMA LoadKeeps ==
    ASSUME TrackingInv, NEW t \in Tabs, NEW e, Load(t, e)
    PROVE  TrackingInv' /\ NoLongerKept
<1> DEFINE list == IF e = "off" THEN <<>> ELSE parseRecords(storage)
           blank == [ClosedTab EXCEPT !.hidden = FALSE, !.records = list]
           x == [t |-> blank, storage |-> storage]
           begun == save(x, e)
           next == First(blank.records)
<1>1. /\ Sees(t) \in Pair /\ Sees(t).t = tab[t] /\ Sees(t).storage = storage
      /\ Stored(storage) /\ now \in 0 .. MaxTime
      /\ tracked \in [Tokens -> NotYet .. Gone]
    BY SeenBefore
<1>2. /\ tab[t] = ClosedTab /\ now' = now /\ tracked' = tracked
      /\ \/ /\ Became(t, [begun EXCEPT !.t = choose(@, next, NoData)])
            /\ WantedAfter(t, {})
         \/ \E k \in Tokens :
                /\ Became(t, Remembered(begun, blank.records, k, NoData, e))
                /\ WantedAfter(t, {k})
    BY DEF Load
<1>3. /\ Stored(list) /\ (e # "off" => tokens(list) \subseteq tokens(storage))
    BY <1>1, LiveStored, NothingStored DEF parseRecords
<1> HIDE DEF list
<1>4. list \in Seq(Record)
    BY <1>3 DEF Stored
<1>5. /\ TabRests(ClosedTab, tracked) /\ ClosedTab \in Tab
      /\ ClosedTab.records = <<>> /\ ClosedTab.storageAvailable /\ ClosedTab.current = None
    BY <1>1, ClosedRests
<1>6. blank \in Tab /\ blank.records = list /\ TabHolds(blank, tracked)
    <2>1. /\ blank \in Tab /\ blank.records = list /\ blank.current = ClosedTab.current
          /\ blank.lastData = ClosedTab.lastData /\ blank.seen = ClosedTab.seen
          /\ blank.requests = ClosedTab.requests
        BY <1>4, <1>5 DEF Tab
    <2> HIDE DEF blank
    <2>2. NoneAhead(blank, tracked) /\ OneAwaited(blank) /\ ShowsNewest(blank)
        BY <1>5, <2>1 DEF TabRests, TabHolds, NoneAhead, OneAwaited, ShowsNewest
    <2> QED
        BY <1>3, <2>1, <2>2 DEF TabHolds, Stored
<1> HIDE DEF blank
<1>7. x \in Pair /\ x.t = blank /\ x.storage = storage
    BY <1>1, <1>6 DEF Pair, Stored
<1> HIDE DEF x
<1>8. Makes(Sees(t), x, e, {})
    <2>1. tokens(Sees(t).t.records) = {}
        BY <1>1, <1>2, <1>5, NothingStored
    <2>2. NotLater(Sees(t).t.records, x.t.records)
        BY <2>1 DEF NotLater
    <2> QED
        BY <1>1, <1>3, <1>6, <1>7, <2>2 DEF Makes, Sources
<1>9. /\ Makes(Sees(t), begun, e, {}) /\ begun.t.records = list /\ Alike(blank, begun.t)
    BY <1>6, <1>7, <1>8, SaveMakes
<1> HIDE DEF begun
<1>10. TabHolds(begun.t, tracked)
    <2>1. begun.t \in Tab
        BY <1>9 DEF Makes, Pair
    <2> QED
        BY <1>3, <1>6, <1>9, <2>1, AlikeHolds
<1>11. NoData \in NoData .. Final
    BY TrackingNumbers
<1>12. Forward(tracked, tracked') /\ tracked' \in [Tokens -> NotYet .. Gone]
    BY <1>1, <1>2, TrackingNumbers DEF Forward
<1>13. CASE /\ Became(t, [begun EXCEPT !.t = choose(@, next, NoData)])
            /\ WantedAfter(t, {})
    <2> DEFINE y == [begun EXCEPT !.t = choose(@, next, NoData)]
    <2>1. next \in {None} \cup tokens(begun.t.records)
        BY <1>4, <1>6, <1>9, FirstToken
    <2> HIDE DEF next
    <2>2. Makes(Sees(t), y, e, {}) /\ TabRests(y.t, tracked)
        BY <1>9, <1>10, <1>11, <2>1, ChooseMakes
    <2>3. Became(t, y) /\ WantedAfter(t, {}) /\ {} \in SUBSET Tokens
        BY <1>13
    <2> HIDE DEF y
    <2> QED
        BY <1>2, <1>12, <2>2, <2>3, StepKeeps
<1>14. ASSUME NEW k \in Tokens,
              Became(t, Remembered(begun, list, k, NoData, e)), WantedAfter(t, {k})
       PROVE  TrackingInv' /\ NoLongerKept
    <2> DEFINE y == Remembered(begun, list, k, NoData, e)
    <2>1. tokens(Sees(t).t.records) = {}
        BY <1>1, <1>2, <1>5, NothingStored
    <2>2. Makes(Sees(t), y, e, {k}) /\ TabRests(y.t, tracked)
        BY <1>1, <1>4, <1>9, <1>10, <1>11, <2>1, RememberedHolds
    <2>3. Became(t, y) /\ WantedAfter(t, {k}) /\ {k} \in SUBSET Tokens
        BY <1>14
    <2> HIDE DEF y
    <2> QED
        BY <1>2, <1>12, <2>2, <2>3, StepKeeps
<1> QED
    BY <1>2, <1>6, <1>13, <1>14
-----------------------------------------------------------------------------
\* An answer arrives: its request is gone.
LEMMA ArriveKeeps ==
    ASSUME TrackingInv, NEW t \in Tabs, NEW q \in tab[t].requests, NEW e, Arrive(t, q, e)
    PROVE  TrackingInv' /\ NoLongerKept
<1> DEFINE u == tab[t]
           less == [u EXCEPT !.requests = @ \ {q}]
           x == [t |-> less, storage |-> storage]
           done == Expired(x, e)
           y == done.x
           counts == q.isCurrent /\ ~done.chose /\ y.t.current = q.token
           shown == [y EXCEPT !.t = schedule(render(@, q.answer))]
           late == [y EXCEPT !.t = schedule(@)]
           dropped == Drop(y, e)
<1>1. /\ Sees(t) \in Pair /\ Sees(t).t = u /\ Sees(t).storage = storage
      /\ u \in Tab /\ TabRests(u, tracked) /\ TabHolds(u, tracked) /\ Stored(storage)
      /\ tracked \in [Tokens -> NotYet .. Gone]
    BY SeenBefore
<1>2. /\ q.answer # NotYet
      /\ Leaves(t, CASE ~counts -> y
                     [] counts /\ q.answer = Gone -> dropped
                     [] counts /\ q.answer = Failed -> late
                     [] OTHER -> shown)
    BY DEF Arrive
<1> HIDE DEF u
<1>3. q \in u.requests
    BY DEF u
<1>4. /\ q.token \in Tokens /\ q.answer \in Int /\ q.isCurrent \in BOOLEAN
      /\ q.answer \in {NotYet, Failed} \cup 0 .. Gone
    BY <1>1, <1>3, TabFields, RequestFields
<1>5. /\ less.requests = u.requests \ {q} /\ less.records = u.records
      /\ less.current = u.current /\ less.lastData = u.lastData /\ less.seen = u.seen
      /\ less.timer = u.timer /\ less.hidden = u.hidden
      /\ less.storageAvailable = u.storageAvailable
      /\ less.lastStorageRaw = u.lastStorageRaw
    BY <1>1 DEF Tab
<1>6. less \in Tab
    BY <1>1 DEF Tab
<1> HIDE DEF less
<1>7. TabHolds(less, tracked)
    <2>1. NoneAhead(less, tracked) /\ OneAwaited(less) /\ ShowsNewest(less)
        BY <1>1, <1>5 DEF TabHolds, NoneAhead, OneAwaited, ShowsNewest
    <2> QED
        BY <1>1, <1>5, <1>6, <2>1 DEF TabHolds
<1>8. x \in Pair /\ x.t = less /\ x.storage = storage
    BY <1>1, <1>6 DEF Pair, Stored
<1> HIDE DEF x
<1>9. /\ done.chose \in BOOLEAN
      /\ Makes(x, y, e, {}) /\ TabHolds(y.t, tracked) /\ Follows(y.t)
      /\ done.chose => GoesOn(y.t)
      /\ ~done.chose => Alike(less, y.t)
    BY <1>1, <1>7, <1>8, ExpiredHolds
<1> HIDE DEF done, y
<1>10. Makes(Sees(t), y, e, {})
    BY <1>1, <1>5, <1>8, <1>9, SameSources
<1>11. y \in Pair /\ y.t \in Tab /\ Stored(y.t.records)
    BY <1>10 DEF Makes, Pair
<1>12. CASE ~counts
    <2>1. GoesOn(y.t)
        <3>1. CASE done.chose
            BY <1>9, <3>1
        <3>2. CASE ~done.chose
            <4>1. Alike(less, y.t)
                BY <1>9, <3>2
            <4>2. ~q.isCurrent
                <5>1. q.isCurrent => q.token = u.current
                    BY <1>1, <1>3 DEF TabHolds, OneAwaited
                <5>2. y.t.current = u.current
                    BY <1>5, <4>1 DEF Alike
                <5> QED
                    BY <1>12, <3>2, <5>1, <5>2
            <4>3. isBusy(u) => isBusy(less)
                BY <1>5, <4>2 DEF isBusy
            <4>4. GoesOn(less)
                BY <1>1, <1>5, <4>3 DEF TabRests, GoesOn
            <4> QED
                BY <1>7, <1>11, <4>1, <4>4, AlikeHolds
        <3> QED
            BY <1>9, <3>1, <3>2
    <2>2. TabRests(y.t, tracked)
        BY <1>9, <2>1 DEF TabRests
    <2>3. Leaves(t, y)
        BY <1>2, <1>12
    <2> QED
        BY <1>10, <2>2, <2>3, HandlerKeeps
<1>13. CASE counts /\ q.answer = Gone
    <2>1. Makes(Sees(t), dropped, e, {}) /\ TabRests(dropped.t, tracked)
        BY <1>9, <1>10, DropHolds
    <2>2. Gone # Failed
        BY TrackingNumbers
    <2>3. Leaves(t, dropped)
        BY <1>2, <1>13, <2>2
    <2> QED
        BY <2>1, <2>3, HandlerKeeps
<1>14. CASE counts /\ q.answer = Failed
    <2>1. Failed # Gone
        BY TrackingNumbers
    <2>2. Leaves(t, late)
        BY <1>2, <1>14, <2>1
    <2>3. late = [y EXCEPT !.t = schedule(y.t)]
        BY <1>11 DEF Pair
    <2> HIDE DEF late
    <2>4. Makes(Sees(t), late, e, {}) /\ TabRests(late.t, tracked)
        BY <1>9, <1>10, <2>3, ScheduleMakes
    <2> QED
        BY <2>2, <2>4, HandlerKeeps
<1>15. CASE counts /\ q.answer # Gone /\ q.answer # Failed
    <2> DEFINE v == render(y.t, q.answer)
    <2>1. Leaves(t, shown)
        BY <1>2, <1>15
    <2>2. shown = [y EXCEPT !.t = schedule(v)]
        BY <1>11 DEF Pair
    <2> HIDE DEF shown
    <2>3. q.answer \in 0 .. Final
        BY <1>2, <1>4, <1>15, TrackingNumbers
    <2>4. q.answer \in 0 .. Gone
        BY <2>3, TrackingNumbers
    <2>5. Alike(less, y.t) /\ y.t.current = q.token /\ q.isCurrent
        BY <1>9, <1>15
    <2>6. u.seen[q.token] <= q.answer /\ q.answer <= tracked[q.token]
        BY <1>1, <1>3, <2>4, <2>5 DEF TabHolds, OneAwaited, NoneAhead
    <2>7. y.t.seen[y.t.current] <= q.answer /\ q.answer <= tracked[y.t.current]
        BY <1>5, <2>5, <2>6 DEF Alike
    <2>8. \A p \in y.t.requests : ~p.isCurrent
        <3>1. y.t.requests = u.requests \ {q}
            BY <1>5, <2>5 DEF Alike
        <3>2. \A p \in u.requests : p.isCurrent => p = q
            BY <1>1, <1>3, <2>5 DEF TabHolds, OneAwaited
        <3> QED
            BY <3>1, <3>2
    <2>9. y.t.current \in Tokens
        BY <1>4, <2>5
    <2>10. TabHolds(v, tracked) /\ v.records = y.t.records /\ v.current = y.t.current
        BY <1>9, <2>3, <2>7, <2>8, <2>9, RenderHolds
    <2> HIDE DEF v
    <2>11. Makes(Sees(t), shown, e, {}) /\ TabRests(shown.t, tracked)
        BY <1>9, <1>10, <2>2, <2>10, ScheduleMakes
    <2> QED
        BY <2>1, <2>11, HandlerKeeps
<1> QED
    BY <1>12, <1>13, <1>14, <1>15

\* A step that leaves the records of every tab as they are, or closes it.
LEMMA RecordsStay ==
    ASSUME TrackingInv,
           \A t \in Tabs : tab'[t].records \in {tab[t].records, <<>>}
    PROVE  NoLongerKept
<1> SUFFICES ASSUME NEW t \in Tabs,
                    NEW k \in tokens(tab[t].records) \cap tokens(tab'[t].records)
             PROVE  savedAt(tab'[t].records, k) <= savedAt(tab[t].records, k)
    BY DEF NoLongerKept
<1>1. tab'[t].records = tab[t].records
    BY NothingStored
<1>2. tab[t].records \in Seq(Record)
    BY SeenBefore DEF Stored
<1>3. savedAt(tab[t].records, k) \in 0 .. MaxTime
    BY <1>2, SavedAtValue
<1>4. savedAt(tab[t].records, k) <= savedAt(tab[t].records, k)
    BY <1>3
<1> QED
    BY <1>1, <1>4

\* A step after which one tab rests and the server knows no less.
LEMMA QuietStep ==
    ASSUME TrackingInv, NEW t \in Tabs, NEW v, v \in Tab, TabRests(v, tracked),
           v.records \in {tab[t].records, <<>>}, tab' = [tab EXCEPT ![t] = v],
           UNCHANGED <<now, storage, tracked, wanted>>
    PROVE  TrackingInv' /\ NoLongerKept
<1>1. tab \in [Tabs -> Tab]
    BY DEF TrackingInv, TrackingTypeOK
<1>2. tab' \in [Tabs -> Tab] /\ tab'[t] = v /\ \A o \in Tabs \ {t} : tab'[o] = tab[o]
    BY <1>1
<1>3. TrackingTypeOK' /\ ForgottenStays' /\ OneEach(storage)'
    BY <1>2 DEF TrackingInv, TrackingTypeOK, ForgottenStays, tokens, OneEach, recordsOf
<1>4. \A o \in Tabs : TabRests(tab'[o], tracked')
    BY <1>2 DEF TrackingInv
<1>5. (\A o \in Tabs : TabRests(tab[o], tracked))'
    BY <1>4
<1>6. \A o \in Tabs : tab'[o].records \in {tab[o].records, <<>>}
    BY <1>2
<1> QED
    BY <1>3, <1>5, <1>6, RecordsStay DEF TrackingInv

LEMMA CloseKeeps ==
    ASSUME TrackingInv, NEW t \in Tabs, Close(t)
    PROVE  TrackingInv' /\ NoLongerKept
<1>1. tracked \in [Tokens -> NotYet .. Gone]
    BY SeenBefore
<1>2. TabRests(ClosedTab, tracked) /\ ClosedTab \in Tab /\ ClosedTab.records = <<>>
    BY <1>1, ClosedRests
<1> QED
    BY <1>2, QuietStep DEF Close

\* The server answers a request with the order as it is, or fails.
LEMMA AnswerKeeps ==
    ASSUME TrackingInv, NEW t \in Tabs, NEW q \in tab[t].requests,
           getPublicOrderTrackingByToken(t, q)
    PROVE  TrackingInv' /\ NoLongerKept
<1> DEFINE u == tab[t]
<1>1. /\ u \in Tab /\ TabRests(u, tracked) /\ TabHolds(u, tracked)
      /\ tracked \in [Tokens -> NotYet .. Gone]
    BY SeenBefore
<1>2. PICK a \in {tracked[q.token], Failed} :
          tab' = [tab EXCEPT ![t].requests = (@ \ {q}) \cup {[q EXCEPT !.answer = a]}]
    BY DEF getPublicOrderTrackingByToken
<1> DEFINE p == [q EXCEPT !.answer = a]
           v == [u EXCEPT !.requests = (@ \ {q}) \cup {p}]
<1>3. tab' = [tab EXCEPT ![t] = v] /\ q \in u.requests
    BY <1>2 DEF TrackingInv, TrackingTypeOK
<1>4. UNCHANGED <<now, storage, tracked, wanted>>
    BY DEF getPublicOrderTrackingByToken
<1> HIDE DEF u
<1>5. q \in StatusRequest
    BY <1>1, <1>3, TabFields
<1>6. q.token \in Tokens /\ q.isCurrent \in BOOLEAN
    BY <1>5, RequestFields
<1>7. a \in {NotYet, NoData - 1} \cup 0 .. Gone /\ a \in Int
    <2>1. tracked[q.token] \in NotYet .. Gone
        BY <1>1, <1>6
    <2> QED
        BY <1>2, <2>1, TrackingNumbers DEF Failed
<1>8. p \in StatusRequest /\ p.token = q.token /\ p.isCurrent = q.isCurrent /\ p.answer = a
    BY <1>5, <1>7 DEF StatusRequest
<1> HIDE DEF p
<1>9. /\ v.requests = (u.requests \ {q}) \cup {p} /\ v.records = u.records
      /\ v.current = u.current /\ v.lastData = u.lastData /\ v.seen = u.seen
      /\ v.timer = u.timer /\ v.hidden = u.hidden
    BY <1>1 DEF Tab
<1>10. v \in Tab
    <2>1. (u.requests \ {q}) \cup {p} \subseteq StatusRequest
        BY <1>1, <1>8, TabFields
    <2> QED
        BY <1>1, <2>1 DEF Tab
<1> HIDE DEF v
<1>11. a \in 0 .. Gone => a = tracked[q.token]
    BY <1>2, TrackingNumbers
<1>12. NoneAhead(v, tracked)
    <2>1. p.answer \in 0 .. Gone => p.answer <= tracked[p.token]
        BY <1>7, <1>8, <1>11
    <2> QED
        BY <1>1, <1>9, <2>1 DEF TabHolds, NoneAhead
<1>13. OneAwaited(v)
    <2>1. p.isCurrent => p.token = v.current
        BY <1>1, <1>3, <1>8, <1>9 DEF TabHolds, OneAwaited
    <2>2. p.answer \in 0 .. Gone => v.seen[p.token] <= p.answer
        BY <1>1, <1>6, <1>8, <1>9, <1>11 DEF TabHolds, NoneAhead
    <2>3. \A o \in u.requests \ {q} : o.isCurrent => ~p.isCurrent
        BY <1>1, <1>3, <1>8 DEF TabHolds, OneAwaited
    <2> QED
        BY <1>1, <1>9, <2>1, <2>2, <2>3 DEF TabHolds, OneAwaited
<1>14. isBusy(u) => isBusy(v)
    BY <1>8, <1>9 DEF isBusy
<1>15. TabRests(v, tracked)
    <2>1. ShowsNewest(v) /\ Follows(v) /\ GoesOn(v)
        BY <1>1, <1>9, <1>14 DEF TabRests, TabHolds, ShowsNewest, Follows, GoesOn
    <2> QED
        BY <1>1, <1>9, <1>10, <1>12, <1>13, <2>1 DEF TabRests, TabHolds
<1> QED
    BY <1>3, <1>4, <1>9, <1>10, <1>15, QuietStep DEF u

\* What another tab does to the storage, the orders and the clock.
LEMMA OthersKeep ==
    ASSUME TrackingInv, NEW k \in Tokens, OtherTab(k)
    PROVE  TrackingInv' /\ NoLongerKept
<1>1. /\ storage \in Seq(Record) /\ Stored(storage) /\ now \in 0 .. MaxTime
      /\ tokens(storage) \subseteq wanted /\ wanted \subseteq Tokens
    BY DEF TrackingInv, TrackingTypeOK, Stored, ForgottenStays
<1>2. UNCHANGED <<now, tab, tracked>>
    BY DEF OtherTab
<1>3. /\ Stored(storage') /\ tokens(storage') \subseteq wanted' /\ wanted' \subseteq Tokens
    <2>1. CASE /\ storage' = Without(storage, k)
               /\ wanted' = wanted \ (tokens(storage) \ tokens(storage'))
        <3>1. Stored(storage') /\ tokens(storage') \subseteq tokens(storage)
            BY <1>1, <2>1, WithoutStored
        <3> QED
            BY <1>1, <2>1, <3>1
    <2>2. CASE /\ k \notin tokens(storage) /\ Len(storage) < Kept
               /\ storage' = <<[token |-> k, savedAt |-> now]>> \o storage
               /\ wanted' = wanted \cup {k}
        <3> DEFINE rec == [token |-> k, savedAt |-> now]
                   s == <<rec>> \o storage
        <3>1. rec \in Record /\ rec.token = k
            BY <1>1 DEF Record
        <3> HIDE DEF rec
        <3>2. <<rec>> \in Seq(Record) /\ Len(<<rec>>) = 1 /\ <<rec>>[1] = rec
            BY <3>1
        <3>3. /\ s \in Seq(Record) /\ Len(s) = 1 + Len(storage)
              /\ \A i \in 1 .. 1 + Len(storage) :
                    s[i] = IF i <= 1 THEN <<rec>>[i] ELSE storage[i - 1]
            BY <1>1, <3>2, ConcatProperties
        <3>4. Len(storage) \in Nat /\ DOMAIN storage = 1 .. Len(storage)
              /\ DOMAIN s = 1 .. 1 + Len(storage)
            BY <1>1, <3>3, LenProperties
        <3> HIDE DEF s
        <3>5. \A i \in DOMAIN s : s[i] = rec \/ s[i] \in recordsOf(storage)
            BY <3>2, <3>3, <3>4 DEF recordsOf
        <3>6. recordsOf(s) \subseteq {rec} \cup recordsOf(storage)
            BY <3>5 DEF recordsOf
        <3>7. \A r \in recordsOf(storage) : r.token \in tokens(storage)
            BY TokensOfRecords
        <3>8. OneEach(s)
            BY <1>1, <2>2, <3>1, <3>6, <3>7 DEF OneEach, Stored
        <3>9. tokens(s) \subseteq {k} \cup tokens(storage)
            BY <3>1, <3>6, TokensOfRecords
        <3>10. storage' = s
            BY <2>2 DEF s, rec
        <3>11. Len(s) <= Kept
            BY <2>2, <3>3, <3>4, TrackingNumbers
        <3> QED
            BY <1>1, <2>2, <3>3, <3>8, <3>9, <3>10, <3>11 DEF Stored
    <2> QED
        BY <2>1, <2>2 DEF OtherTab
<1>4. TrackingTypeOK' /\ OneEach(storage') /\ ForgottenStays'
    BY <1>2, <1>3
    DEF TrackingInv, TrackingTypeOK, Stored, ForgottenStays, tokens
<1>5. OneEach(storage)'
    BY <1>4 DEF OneEach, recordsOf
<1>6. (\A o \in Tabs : TabRests(tab[o], tracked))'
    BY <1>2 DEF TrackingInv
<1>7. NoLongerKept
    BY <1>2, RecordsStay
<1> QED
    BY <1>4, <1>5, <1>6, <1>7 DEF TrackingInv

LEMMA ServerKeeps ==
    ASSUME TrackingInv, Tick \/ \E k \in Tokens : Change(k)
    PROVE  TrackingInv' /\ NoLongerKept
<1>1. /\ tracked \in [Tokens -> NotYet .. Gone] /\ now \in 0 .. MaxTime
    BY DEF TrackingInv, TrackingTypeOK
<1>2. UNCHANGED <<storage, tab, wanted>>
    BY DEF Tick, Change
<1>3. /\ tracked' \in [Tokens -> NotYet .. Gone] /\ Forward(tracked, tracked')
      /\ now' \in 0 .. MaxTime
    <2>1. CASE Tick
        BY <1>1, <2>1, TrackingNumbers DEF Tick, Forward
    <2>2. ASSUME NEW k \in Tokens, Change(k)
          PROVE  /\ tracked' \in [Tokens -> NotYet .. Gone] /\ Forward(tracked, tracked')
                 /\ now' \in 0 .. MaxTime
        <3> DEFINE n == tracked[k] + 1
        <3>1. tracked' = [tracked EXCEPT ![k] = n] /\ tracked[k] \in 0 .. Final /\ now' = now
            BY <2>2 DEF Change
        <3>2. n \in NotYet .. Gone /\ tracked[k] <= n
            BY <3>1, TrackingNumbers
        <3> HIDE DEF n
        <3>3. /\ tracked' \in [Tokens -> NotYet .. Gone] /\ tracked'[k] = n
              /\ \A j \in Tokens \ {k} : tracked'[j] = tracked[j]
            BY <1>1, <3>1, <3>2
        <3>4. \A j \in Tokens : tracked[j] \in Int /\ tracked'[j] \in Int
            BY <1>1, <3>3, TrackingNumbers
        <3> QED
            BY <1>1, <3>1, <3>2, <3>3, <3>4 DEF Forward
    <2> QED
        BY <2>1, <2>2
<1>4. TrackingTypeOK' /\ ForgottenStays' /\ OneEach(storage)'
    BY <1>2, <1>3 DEF TrackingInv, TrackingTypeOK, ForgottenStays, OneEach, recordsOf, tokens
<1>5. \A o \in Tabs : TabRests(tab'[o], tracked')
    BY <1>2, <1>3, ForwardHolds DEF TrackingInv
<1>6. (\A o \in Tabs : TabRests(tab[o], tracked))'
    BY <1>5
<1>7. NoLongerKept
    BY <1>2, RecordsStay
<1> QED
    BY <1>4, <1>6, <1>7 DEF TrackingInv

-----------------------------------------------------------------------------
LEMMA TrackingBegins == TrackingInit => TrackingInv
<1> SUFFICES ASSUME TrackingInit PROVE TrackingInv
    OBVIOUS
<1>1. tracked \in [Tokens -> NotYet .. Gone] /\ now \in 0 .. MaxTime
    BY TrackingNumbers DEF TrackingInit
<1>2. TabRests(ClosedTab, tracked) /\ ClosedTab \in Tab
    BY <1>1, ClosedRests
<1>3. storage = <<>> /\ Stored(<<>>) /\ tokens(<<>>) = {}
    BY NothingStored DEF TrackingInit
<1>4. TrackingTypeOK
    BY <1>1, <1>2, <1>3 DEF TrackingInit, TrackingTypeOK, Stored
<1> QED
    BY <1>2, <1>3, <1>4 DEF TrackingInit, TrackingInv, ForgottenStays, Stored

LEMMA TrackingSteps == TrackingInv /\ [TrackingNext]_trackingVars => TrackingInv' /\ NoLongerKept
<1> SUFFICES ASSUME TrackingInv, [TrackingNext]_trackingVars
             PROVE  TrackingInv' /\ NoLongerKept
    OBVIOUS
<1>1. ASSUME NEW t \in Tabs, NEW e \in Storages, TabStep(t, e)
      PROVE  TrackingInv' /\ NoLongerKept
    BY <1>1, SyncKeeps, RefreshKeeps, HideKeeps, ShowKeeps, ForgetKeeps, LoadKeeps, SelectKeeps,
       CreatedKeeps, LinkKeeps, ArriveKeeps
    DEF TabStep
<1>2. CASE OwnStep
    BY <1>1, <1>2, CloseKeeps, AnswerKeeps, ServerKeeps DEF OwnStep
<1>3. CASE \E k \in Tokens : OtherTab(k)
    BY <1>3, OthersKeep
<1>4. CASE UNCHANGED trackingVars
    <2>1. UNCHANGED <<now, storage, tab, tracked, wanted>>
        BY <1>4 DEF trackingVars
    <2>2. TrackingTypeOK' /\ ForgottenStays' /\ OneEach(storage)'
        BY <2>1
        DEF TrackingInv, TrackingTypeOK, ForgottenStays, OneEach, recordsOf, tokens
    <2>3. (\A o \in Tabs : TabRests(tab[o], tracked))'
        BY <2>1 DEF TrackingInv
    <2>4. NoLongerKept
        BY <2>1, RecordsStay
    <2> QED
        BY <2>2, <2>3, <2>4 DEF TrackingInv
<1> QED
    BY <1>2, <1>3, <1>4 DEF TrackingNext

LEMMA TrackingInvImplies == TrackingInv => TrackingKept
<1> SUFFICES ASSUME TrackingInv PROVE TrackingKept
    OBVIOUS
<1>1. \A t \in Tabs : Follows(tab[t]) /\ GoesOn(tab[t]) /\ ShowsNewest(tab[t])
    BY DEF TrackingInv, TabRests, TabHolds
<1>2. PollingGoesOn
    BY <1>1 DEF PollingGoesOn, Follows, GoesOn
<1>3. StatusGoesForward
    <2> SUFFICES ASSUME NEW t \in Tabs, tab[t].lastData # NoData, tab[t].current # None
                 PROVE  tab[t].lastData >= tab[t].seen[tab[t].current]
        BY DEF StatusGoesForward
    <2>1. tab[t].seen[tab[t].current] <= tab[t].lastData
        BY <1>1 DEF ShowsNewest
    <2> QED
        BY <2>1
<1> QED
    BY <1>2, <1>3 DEF TrackingInv, TrackingKept

\* The tabs that share a browser's storage, at any number of orders, tabs and requests: a
\* visible tab that tracks an order goes on asking for it and shows no older status after
\* a newer one, no tab writes back an order that was forgotten, whatever it remembers, and
\* nothing makes a tracking link last longer (tracking.js:150-182, 259-374).
THEOREM TrackingIsSound == TrackingSpec => TrackingHolds
<1>1. TrackingInit => TrackingInv
    BY TrackingBegins
<1>2. TrackingInv /\ [TrackingNext]_trackingVars => TrackingInv'
    BY TrackingSteps
<1>3. TrackingInv /\ [TrackingNext]_trackingVars => [NoLongerKept]_trackingVars
    BY TrackingSteps
<1>4. TrackingInv => TrackingKept
    BY TrackingInvImplies
<1> QED
    BY <1>1, <1>2, <1>3, <1>4, PTL DEF TrackingSpec, TrackingHolds
=============================================================================
