-------------------------------- MODULE MCStay --------------------------------
(***************************************************************************)
(* The money and the conversation of a stay, the wizard that saves it, and *)
(* the lists its type, amenities and place are taken from.  Of the two     *)
(* instances of BookingMoney, two requests meet in the first and Stripe    *)
(* may be down; in the second one request at a time is followed by a crash *)
(* or by somebody who takes the nights.  The parts share no variable, so a *)
(* behaviour is one of either and the state spaces add up.                 *)
(***************************************************************************)
EXTENDS Naturals, FiniteSets, TLC

CONSTANTS Req, Slot, Intent, Guest, None,
          Total, MaxRows,                  \* of the money
          Message, Booking,                \* of the conversation
          Admin, ListingId, MaxSaves,      \* of the wizard
          Type, Equipment, DefaultItem,    \* of the lists
          Place, DefaultPlace

ASSUME StayAssumption ==
    /\ Total \in Nat \ {0} /\ MaxRows \in Nat \ {0}
    /\ None \notin {"guest", "host", "admin", "badge", "lost"}
    /\ None \notin Type \cup Equipment
    /\ None \notin Intent \cup Nat
    /\ DefaultPlace \subseteq Place
    /\ IsFiniteSet(ListingId)
    /\ None \notin Guest \cup Admin \cup {[owner |-> None, text |-> 0]}
    /\ MaxSaves \in Nat

VARIABLES
    part,
    racesStatus, racesListing, racesRow, racesIntent, racesKeys, racesMail,
    racesCancelRow, racesGranted, racesReq, racesUnpaidEnd,
    serialStatus, serialListing, serialRow, serialIntent, serialKeys, serialMail,
    serialCancelRow, serialGranted, serialReq, serialUnpaidEnd,
    chatThread, chatMessage, chatReq, chatShown,
    wizardProperty, wizardListing, wizardLatest, wizardBegun, wizardReq,
    itemRow, itemListing, itemReq, itemCrossed,
    placePlace, placeBoot, placeDropped, placeHalted

racesVars ==
    <<racesStatus, racesListing, racesRow, racesIntent, racesKeys, racesMail,
      racesCancelRow, racesGranted, racesReq, racesUnpaidEnd>>
serialVars ==
    <<serialStatus, serialListing, serialRow, serialIntent, serialKeys, serialMail,
      serialCancelRow, serialGranted, serialReq, serialUnpaidEnd>>
chatVars == <<chatThread, chatMessage, chatReq, chatShown>>
wizardVars == <<wizardProperty, wizardListing, wizardLatest, wizardBegun, wizardReq>>
itemVars == <<itemRow, itemListing, itemReq, itemCrossed>>
placeVars == <<placePlace, placeBoot, placeDropped, placeHalted>>
listVars == <<itemVars, placeVars>>
sumVars == <<part, racesVars, serialVars, chatVars, wizardVars, listVars>>

Handled == {"checkout", "expire", "releaseOwn", "confirm", "decline", "cancel", "complete", "webhook"}

Races == INSTANCE BookingMoney WITH
    status <- racesStatus, listing <- racesListing, row <- racesRow,
    intent <- racesIntent, keys <- racesKeys, mail <- racesMail,
    cancelRow <- racesCancelRow, granted <- racesGranted, req <- racesReq,
    unpaidEnd <- racesUnpaidEnd, Handlers <- Handled, Env <- {"stripeDown"},
    Modes <- {TRUE}

Serial == INSTANCE BookingMoney WITH
    status <- serialStatus, listing <- serialListing, row <- serialRow,
    intent <- serialIntent, keys <- serialKeys, mail <- serialMail,
    cancelRow <- serialCancelRow, granted <- serialGranted, req <- serialReq,
    unpaidEnd <- serialUnpaidEnd, Req <- {Slot}, Handlers <- Handled,
    Env <- {"stripeDown", "rebooked", "crash"}, Modes <- BOOLEAN

Chat == INSTANCE Messaging WITH
    thread <- chatThread, message <- chatMessage, req <- chatReq,
    shown <- chatShown, Env <- {"dbDown"}

Wizard == INSTANCE ListingOwnership WITH
    property <- wizardProperty, listing <- wizardListing, latest <- wizardLatest,
    begun <- wizardBegun, req <- wizardReq, Host <- Guest, Property <- Guest

Items == INSTANCE CatalogItems WITH
    row <- itemRow, listing <- itemListing, req <- itemReq, crossed <- itemCrossed,
    Default <- DefaultItem, Req <- Guest, Env <- {"dbDown"}

Places == INSTANCE DefaultPlaces WITH
    place <- placePlace, boot <- placeBoot, dropped <- placeDropped,
    halted <- placeHalted, Default <- DefaultPlace, Server <- Guest,
    Env <- {"dbDown", "crash"}

\* The parts that do not run stay in one initial state.
SumInit ==
    /\ part \in {"races", "serial", "chat", "wizard", "items", "places"}
    /\ Races!Init /\ Serial!Init /\ Chat!Init /\ Wizard!Init /\ Items!Init /\ Places!Init
    /\ part # "serial" => serialListing.manual
    /\ part # "wizard" => wizardProperty = [p \in Guest |-> None]

SumNext ==
    \/ part = "races" /\ Races!Next
       /\ UNCHANGED <<part, serialVars, chatVars, wizardVars, listVars>>
    \/ part = "serial" /\ Serial!Next
       /\ UNCHANGED <<part, racesVars, chatVars, wizardVars, listVars>>
    \/ part = "chat" /\ Chat!Next
       /\ UNCHANGED <<part, racesVars, serialVars, wizardVars, listVars>>
    \/ part = "wizard" /\ Wizard!Next
       /\ UNCHANGED <<part, racesVars, serialVars, chatVars, listVars>>
    \/ part = "items" /\ Items!Next
       /\ UNCHANGED <<part, racesVars, serialVars, chatVars, wizardVars, placeVars>>
    \/ part = "places" /\ Places!Next
       /\ UNCHANGED <<part, racesVars, serialVars, chatVars, wizardVars, itemVars>>

SumSpec == SumInit /\ [][SumNext]_sumVars

TypesOK ==
    /\ part = "races" => Races!TypeOK
    /\ part = "serial" => Serial!TypeOK
    /\ part = "chat" => Chat!TypeOK
    /\ part = "wizard" => Wizard!TypeOK
    /\ part = "items" => Items!TypeOK
    /\ part = "places" => Places!TypeOK

\* The money is where the status of the booking says, as long as requests do not
\* overlap: back with the guest when his payment came too late, taken or held for a
\* confirmed stay, and untouched when an attempt to close the booking failed.
MoneyFollowsStatus ==
    part = "serial" => /\ Serial!LatePaymentReversed /\ Serial!ConfirmedStaysPaid
                       /\ Serial!FailedCloseKeepsMoney

AtMostTwo == \A p, q, r \in Req : p = q \/ q = r \/ p = r

\* Of the one intent of a booking the register is right: requests that meet leave no
\* money with a declined booking, two of them no row paid that was not taken, and no
\* row claims more than the card received; each part keeps to its types.
RefundsRegistered ==
    /\ TypesOK
    /\ part = "races" /\ Races!OneIntent => Races!DeclinedGivesBack
    /\ part = "races" /\ Races!OneIntent /\ AtMostTwo => Races!PaidMeansTaken
    /\ part = "serial" /\ Serial!OneIntent => Serial!RegisterIsHonest

\* What a listing uses is in the lists of the administrators, its type unless a save
\* and the deletion of the type overlapped.
UsedItemsExist == part = "items" => Items!UsedAmenitiesExist /\ Items!UsedTypesExist

\* Properties of the modules under their own names, looked at where their part runs.
ReadIsShown        == part = "chat" => Chat!ReadIsShown
ListsAgree         == part = "wizard" => Wizard!ListsAgree
DefaultsAreThere   == part = "places" => Places!DefaultsAreThere
StaysKeepTheirHost == Wizard!StaysKeepTheirHost

-------------------------------------------------------------------------------
(* What comments of the code say and the model refutes (see the README).   *)

\* "The sender must be a participant and the thread must be open" (sendMessage).
WrittenWhileOpen ==
    [][\A m \in Message : chatMessage[m] = Chat!NoMessage /\ chatMessage'[m] # Chat!NoMessage
                          => ~chatThread.closed]_chatVars

\* The stays of the wizard are named by the model values of the guests: one small
\* symmetry group serves every part.
Symmetry == Permutations(Req) \cup Permutations(Guest)
===============================================================================
