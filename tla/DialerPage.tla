----------------------------- MODULE DialerPage -----------------------------
(***************************************************************************)
(* The page of the auto dialer (auto-dialer-manager.tsx): the campaigns, and *)
(* the leads, jobs and calls of the one that is active.                      *)
(***************************************************************************)
EXTENDS PageTasks

Details == {"leads", "jobs", "cdrs"}

DialerCells == Details \cup {"campaigns"}

NoCampaign == {}

(* The first campaign is active, and the effect fetches its details.         *)
DialerPageMounted ==
    LET pg == Rendered([c \in DialerCells |->
                 IF c = "campaigns" THEN ListAsk("campaign", All, All, Nothing, 1) ELSE NoAsk]) IN
    pg @@ [kind |-> "dialer", tenant |-> All, stamp |-> 0, acting |-> [none |-> NotActing], dialog |-> NoDialog,
           active |-> { <<r.id, 0>> : r \in pg.cells.campaigns.items }]

(* The closure knows whether a campaign was active when it asked.            *)
FetchCampaignPage(pg, page) ==
    [Fetch("fetchCampaigns", <<ListAsk("campaign", pg.tenant, All, Nothing, page)>>, <<"campaigns">>, "loading")
        EXCEPT !.arg = pg.active]

(* Every list brings its campaigns as new objects: the stamp tells them.     *)
CampaignsFetched(pg, c, got, rest) ==
    LET first == { <<r.id, pg.stamp + 1>> : r \in { s \in got[1].items : \A o \in got[1].items : o.id <= s.id } }
        pick == c.arg = NoCampaign /\ got[1].items # {} IN
    Go(Settled(IF ~Fine(got) THEN pg
               ELSE [ShowIn(pg, "campaigns", got[1]) EXCEPT !.stamp = @ + 1, !.active = IF pick THEN first ELSE @], c),
       rest)

(* Three requests at a time; a list that cannot be had is emptied, and all   *)
(* of them when a request found no answer.                                   *)
LoadCampaignDetails(id) ==
    Fetch("loadDetails", <<ListAsk("lead", All, id, Nothing, 1), ListAsk("job", All, id, Nothing, 1),
                           ListAsk("cdr", All, id, Nothing, 1)>>, <<"leads", "jobs", "cdrs">>, "detailLoading")

DetailsLoaded(pg, c, got, rest) ==
    LET shown(k) == IF got[k].st = "ok" THEN got[k] ELSE Empty IN
    Go(Settled(ShowIn(ShowIn(ShowIn(pg, "leads", shown(1)), "jobs", shown(2)), "cdrs", shown(3)), c), rest)

ActiveEffect(before, after) ==
    [page |-> after,
     jobs |-> IF before.active = after.active THEN <<>>
              ELSE <<Job(<<LoadCampaignDetails((CHOOSE a \in after.active : TRUE)[1])>>, "")>>]

DialerDoes(pg, jobs) == Perform(pg, jobs, ActiveEffect)

-----------------------------------------------------------------------------
(* The filter waits for the button.                                          *)
ReloadCampaigns(t) ==
    /\ AtRest("dialer") /\ "loading" \notin screen.busy
    /\ LET pg == [screen EXCEPT !.tenant = t] IN DialerDoes(pg, <<Job(<<FetchCampaignPage(pg, 1)>>, "")>>)

(* A campaign is selected: its details are loaded by the handler, and by the *)
(* effect if it is another object.                                           *)
HandleSelectCampaign(r) ==
    /\ AtRest("dialer")
    /\ DialerDoes([screen EXCEPT !.active = {<<r.id, screen.stamp>>}], <<Job(<<LoadCampaignDetails(r.id)>>, "")>>)

OpenDialog(what, id) ==
    AtRest("dialer") /\ DialerDoes([screen EXCEPT !.dialog = Dialog(what, id, <<>>)], <<>>)

CloseDialerDialog ==
    /\ screen.kind = "dialer" /\ screen.dialog.open # "none"
    /\ DialerDoes([screen EXCEPT !.dialog = NoDialog], <<>>)

Submitted(what, ask, page) ==
    /\ screen.kind = "dialer" /\ screen.dialog.open = what
    /\ DialerDoes(screen, <<Job(<<Mutate("submitted", ask), FetchCampaignPage(screen, page)>>, "")>>)

HandleCreateCampaign == Submitted("create", Create("campaign", [tenant |-> 1, text |-> 1]), 1)

HandleAddLeads ==
    Submitted("leads", Create("lead", [group |-> screen.dialog.target, text |-> 1]), screen.cells.campaigns.page)

(* Jobs are scheduled for the leads, and the campaign runs.                  *)
HandleScheduleJobs ==
    Submitted("schedule", Change("campaign", screen.dialog.target, [text |-> 2]), screen.cells.campaigns.page)

(* The dialog that is open is closed.                                        *)
DialogDone(pg, c, got, rest) ==
    IF Fine(got) THEN Go([pg EXCEPT !.dialog = NoDialog], rest) ELSE Go(pg, <<>>)

DialerPageNext ==
    \/ \E t \in {All, 1} : ReloadCampaigns(t)
    \/ \E r \in screen.cells.campaigns.items :
          \/ HandleSelectCampaign(r)
          \/ OpenDialog("leads", r.id) \/ OpenDialog("schedule", r.id)
    \/ OpenDialog("create", Nothing) \/ CloseDialerDialog
    \/ HandleCreateCampaign \/ HandleAddLeads \/ HandleScheduleJobs
=============================================================================
