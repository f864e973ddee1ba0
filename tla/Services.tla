------------------------------- MODULE Services -------------------------------
(***************************************************************************)
(* The services that keep a state of their own beside the orders, side by  *)
(* side on one clock: the staff accounts, the duplicate guard, the         *)
(* synthetic budget, the assignment pushes, the refresh of store hours,    *)
(* the dispatcher boards, the hours and routes of the pickup stores and    *)
(* the shop's own hours.  None of them reads what another one writes, so   *)
(* their steps interleave freely.                                          *)
(***************************************************************************)
EXTENDS Integers

CONSTANTS
    Staff, StaffRequests, Passwords, NoStaff, MaxVersion,           \* StaffAccounts
    Submissions, Window, GuardEnd,                                  \* DuplicateGuard
    SyntheticCalls, MaxOrders, MaxEmails,                           \* SyntheticPolicy
    Drivers, Notices, MaxToken,                                     \* AssignmentPush
    RunSlots, PickupStores, RefreshWeek, RunTime, RefreshEnd, MaxEdits, \* HoursRefresh
    Administrators, Standards, StandardsLimit, MaxSave,             \* DispatcherBoards
    Processes, Day, Days, SlotStart, ShopAnswers, Span, ShopEnd,    \* BusinessHours
    Buffer, StoresAsked, ArrivalTimes,                              \* StoreHours
    RouteMaps, Shortlisted, Extra, MaxStops                         \* StoreRouting

VARIABLES
    account, sessions, resets, changes, epoch, req,         \* StaffAccounts
    expires, sub,                                           \* DuplicateGuard
    policy, created, emailed, lock, synCall, late,          \* SyntheticPolicy
    assigned, token, issued, dead, notice, sends, stopped,  \* AssignmentPush
    now,                                                    \* the clock
    checked, hours, failed, place, edits, run, paid,        \* HoursRefresh
    board, edit, saves, note, shown, toggles, help, handled,    \* DispatcherBoards
    attempt, schedule, refresh, slotCalls,                  \* BusinessHours
    store, arrival, verdict,                                \* StoreHours
    map, phase, pass, unseen, baseline, preferred, plan     \* StoreRouting

StaffRows == INSTANCE StaffAccounts WITH Requests <- StaffRequests

Guard == INSTANCE DuplicateGuard WITH MaxTime <- GuardEnd

Synthetic == INSTANCE SyntheticPolicy WITH
    Calls <- SyntheticCalls, orders <- created, emails <- emailed, call <- synCall

Push == INSTANCE AssignmentPush

Refresh == INSTANCE HoursRefresh WITH
    Runs <- RunSlots, Stores <- PickupStores, Week <- RefreshWeek, MaxTime <- RefreshEnd

Boards == INSTANCE DispatcherBoards WITH
    Staff <- Administrators, Entries <- Standards, Limit <- StandardsLimit,
    MaxVersion <- MaxSave

Shop == INSTANCE BusinessHours WITH Places <- ShopAnswers, MaxTime <- ShopEnd

StoreOpen == INSTANCE StoreHours WITH
    DayLength <- Day, WeekDays <- Days, Stores <- StoresAsked, Arrivals <- ArrivalTimes

Routing == INSTANCE StoreRouting WITH Maps <- RouteMaps, Kept <- Shortlisted

ServicesAssumption ==
    /\ StaffRows!StaffAssumption
    /\ Guard!GuardAssumption
    /\ Synthetic!SyntheticAssumption
    /\ Push!PushAssumption
    /\ Refresh!RefreshAssumption
    /\ Boards!BoardsAssumption
    /\ Shop!BusinessHoursAssumption
    /\ StoreOpen!StoreHoursAssumption
    /\ Routing!StoreRoutingAssumption

ServicesSpec ==
    /\ StaffRows!Spec
    /\ Guard!Spec
    /\ Synthetic!Spec
    /\ Push!Spec
    /\ Refresh!Spec
    /\ Boards!Spec
    /\ Shop!Spec
    /\ StoreOpen!HoursSpec
    /\ Routing!RoutingSpec

-----------------------------------------------------------------------------
\* No session outlives a change of its account, no edit is made on a row the editor
\* did not see, and a password-change session changes one password at most, also
\* when two requests carry it (staff.controller.ts:118-190, auth.middleware.ts).
AccountsCurrent ==
    /\ [](StaffRows!SessionsCurrent /\ StaffRows!EditsSeeCurrentRow)
    /\ StaffRows!ChangeTokenUsedOnce

\* What is claimed for a while is not granted again within it: an order for one
\* submission key, unless its client was told of an error, and a paid refresh of a
\* store or of the shop's hours; and concurrent creations and e-mails keep within the
\* limits that the synthetic profile was enrolled with, with nothing spent after it
\* closed (orderDuplicateGuard.ts:62-112, pickupLocationHours.service.ts:363-379,
\* syntheticOrderSafety.service.ts:53-111).
LimitsKept ==
    /\ Guard!OneOrderPerWindow
    /\ Synthetic!BudgetKept
    /\ Refresh!PaidOncePerWeek
    /\ Shop!OncePerSlot

\* No push is sent after the process was told to stop, and a refusal clears only
\* the token that was refused (driverAssignmentNotification.service.ts:60-160).
PushesSound == Push!NoPushAfterStop /\ Push!LiveTokenKept

\* No save or repeated request undoes a change its sender had not seen
\* (dispatcherStandards.service.ts:59-89, dispatcherPinboard.controller.ts:75-87).
NoBlindOverwrite == Boards!NoBlindOverwrite

\* A store is offered when its published hours say it stays open, a route is the one
\* the planner's rules single out (pickupStoreRouting.service.ts:608-1065), and the
\* shop is said to be open, or to open next, when its saved hours say so
\* (businessHoursSchedule.ts:42-92).
StoresSound ==
    /\ StoreOpen!OpenForTheBuffer
    /\ Routing!PlanIsBest /\ Routing!FallbackLast
    /\ Shop!AnsweredAsPublished /\ Shop!KeepsAnswering
=============================================================================
