-------------------------------- MODULE Portal --------------------------------
(***************************************************************************)
(* The console and a browser that has one of its pages open.  While people  *)
(* ask the console for changes nobody has a page open, and while a page is  *)
(* open nobody else asks: what the API answers to a page is in ManagerPages. *)
(***************************************************************************)
EXTENDS Administration, ManagerPages

PageClosed ==
    /\ screen = [kind |-> "none", busy |-> {}, acting |-> <<>>, cells |-> <<>>]
    /\ awaiting = <<>> /\ tables = <<>> /\ events = 0 /\ upset = {}

NobodyAsks == requests = {} /\ calls = MaxCalls

PortalInit == Init /\ IF NobodyAsks THEN PagesInit ELSE PageClosed

PortalNext ==
    \/ Next /\ UNCHANGED pageVars
    \/ PagesNext /\ UNCHANGED vars

PortalSpec == PortalInit /\ [][PortalNext]_<<vars, pageVars>>
=============================================================================
