-------------------------------- MODULE Run ---------------------------------
(***************************************************************************)
(* What a run promises, with nothing of how it is kept: no loop, no flag   *)
(* to check, no handler thread, no break flag, no second look.  A source   *)
(* holds packets; the run takes them one at a time and in order, each      *)
(* saved, counted and shown in one go, and ends once, for a reason that is *)
(* so.  Who asks it to stop gets at most one packet more.                  *)
(***************************************************************************)
EXTENDS Naturals, Sequences

CONSTANTS
  Packets,   \* what may be captured
  Limits     \* the --count values a user may give

VARIABLES
  config,       \* source, limit, saving, listing
  pending,      \* what the source holds
  broken,       \* whether it can give no more than that
  outlet,       \* someone still reads standard output
  asked,        \* Ctrl+C was pressed
  taken,        \* packets read
  saved,        \* packets in the file
  shown,        \* how many were printed or tabulated
  late,         \* how many were taken after Ctrl+C
  stop_reason   \* why the run ended, "None" until then

promise == <<taken, saved, shown, late, stop_reason>>
world == <<pending, broken, outlet, asked>>
runVars == <<config, world, promise>>

isLive == config.source = "live"

StartRun ==
  /\ config \in [source: {"live", "file"}, limit: Limits, saving: BOOLEAN, listing: BOOLEAN]
  /\ pending \in Seq(Packets)
  /\ isLive => pending = << >>
  /\ broken \in BOOLEAN
  /\ outlet = TRUE
  /\ asked = FALSE
  /\ taken = << >>
  /\ saved = << >>
  /\ shown = 0
  /\ late = 0
  /\ stop_reason = "None"

(* One packet, whole: it is in the file even if nobody sees it any more.   *)
Take ==
  /\ stop_reason = "None"
  /\ pending # << >>
  /\ asked => late = 0
  /\ pending' = Tail(pending)
  /\ taken' = Append(taken, Head(pending))
  /\ saved' = IF config.saving THEN taken' ELSE << >>
  /\ late' = IF asked THEN 1 ELSE late
  /\ \/ /\ config.listing /\ ~ outlet
        /\ stop_reason' = "OutputClosed"
        /\ UNCHANGED shown
     \/ /\ ~ config.listing \/ outlet
        /\ shown' = Len(taken')
        /\ stop_reason' = IF \E n \in config.limit : Len(taken') >= n
                            THEN "CountReached" ELSE "None"
  /\ UNCHANGED <<config, broken, outlet, asked>>

End(reason) ==
  /\ stop_reason = "None"
  /\ CASE reason = "Interrupted" -> isLive /\ asked
       [] reason = "SourceEnded" -> ~ isLive /\ pending = << >> /\ ~ broken
       [] reason = "ReadFailed"  -> broken /\ (isLive \/ pending = << >>)
  /\ stop_reason' = reason
  /\ UNCHANGED <<config, world, taken, saved, shown, late>>

(* What the world may do, before or after the end.                         *)
Deliver ==
  /\ isLive /\ ~ broken
  /\ \E p \in Packets : pending' = Append(pending, p)
  /\ UNCHANGED <<config, broken, outlet, asked, promise>>

Fail == isLive /\ broken' = TRUE /\ UNCHANGED <<config, pending, outlet, asked, promise>>

Close == outlet' = FALSE /\ UNCHANGED <<config, pending, broken, asked, promise>>

Ask == isLive /\ asked' = TRUE /\ UNCHANGED <<config, pending, broken, outlet, promise>>

RunNext ==
  \/ Take
  \/ \E reason \in {"Interrupted", "SourceEnded", "ReadFailed"} : End(reason)
  \/ Deliver \/ Fail \/ Close \/ Ask

RunSpec == StartRun /\ [][RunNext]_runVars
=============================================================================
