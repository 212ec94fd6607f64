----------------------------- MODULE MCServices -----------------------------
(***************************************************************************)
(* The instance of Services for TLC: a registry with a setting of each     *)
(* type, inboxes for the door, two videos, two test links, two users with  *)
(* three payments, a process with two parts, two visitors of the dashboard.*)
(***************************************************************************)
EXTENDS Services

Setting(svc, type, min, max, allowed, config, default) ==
    [service |-> svc, type |-> type, min |-> min, max |-> max,
     allowed |-> allowed, config |-> config, default |-> default]

MCRegistry ==
    ("spotify.enabled" :> Setting("spotify", "bool", 0, 0, {}, Flag(FALSE), Flag(FALSE)))
    @@ ("spotify.max_tracks" :> Setting("spotify", "int", 1, 7, {}, NoValue, Number(7)))
    @@ ("youtube.max_duration_sec" :> Setting("youtube", "int", 0, 7, {}, NoValue, NoValue))
    @@ ("youtube.allowed_qualities" :> Setting("youtube", "list", 0, 0, {"hd", "sd"}, NoValue, Word("hd,sd")))
    @@ ("soundcloud.audio_format" :> Setting("soundcloud", "enum", 0, 0, {"mp3", "opus"}, NoValue, Word("mp3")))

MCLinkPlatform == ("s" :> "spotify") @@ ("p" :> "pinterest") @@ ("t" :> "tiktok") @@ ("b" :> "pinterest") @@ ("?" :> "unknown")
MCSwitchOf == ("spotify" :> "spotify.enabled")

M(bot, user, chat, links) ==
    [bot |-> bot, user |-> user, chat |-> chat, links |-> links, body |-> "text", range |-> FALSE]

Inbox(messages, maxTicks, maxOutages) ==
    [admin |-> FALSE, banned |-> {}, prompt |-> NoPrompt, inbox |-> messages,
     ticks |-> maxTicks, outages |-> maxOutages]
BanPrompt == [kind |-> "admin_ban", key |-> "none"]

(* None; two groups and two links crosswise; three messages against a limit of    *)
(* one; an admin who bans, unbans and switches while a message is handled;  *)
(* the updates that are no links; captions with links, the admin's while a  *)
(* prompt is pending; a link while a prompt is pending and a banned link.   *)
MCScenarios ==
    {Inbox(<<>>, 0, 0),
     Inbox(<<M("main", 7, "g", <<"t", "p">>), M("main", 9, "h", <<"p", "t">>)>>, 2, 0),
     Inbox(<<M("main", 7, "private", <<"t">>), M("main", 7, "private", <<"?">>), M("main", 7, "private", <<"t">>)>>, 2, 0),
     [Inbox(<<M("fleet", 7, "private", <<"s", "t">>)>>, 0, 1)
        EXCEPT !.admin = TRUE, !.prompt = BanPrompt],
     [Inbox(<<M("main", 7, "private", <<"s">>), M("main", 1, "private", <<"s">>)>>, 0, 0)
        EXCEPT !.admin = TRUE, !.banned = {7}],
     Inbox(<<[M("main", 7, "private", <<>>) EXCEPT !.body = "media"],
             [M("main", 7, "private", <<>>) EXCEPT !.body = "slash"],
             [M("main", 7, "private", <<>>) EXCEPT !.range = TRUE]>>, 0, 1),
     [Inbox(<<[M("main", 1, "private", <<"t">>) EXCEPT !.body = "caption"],
              [M("main", 7, "private", <<"t", "?">>) EXCEPT !.body = "caption"]>>, 0, 0)
        EXCEPT !.prompt = BanPrompt],
     [Inbox(<<M("main", 1, "private", <<"t">>), M("fleet", 9, "g", <<"p", "b">>)>>, 1, 1)
        EXCEPT !.prompt = BanPrompt]}
MCVideos == ("a" :> [heights |-> {3}, duration |-> 4]) @@ ("b" :> [heights |-> {3, 7}, duration |-> 9])
MCRanges == {<<1, 6>>, <<5, 7>>}

MCTestPlatform == ("u1" :> "x") @@ ("u2" :> "reddit")

MCCharges ==
    ("c1" :> [user |-> "ann", payload |-> "no_watermark"])
    @@ ("c2" :> [user |-> "bob", payload |-> "no_watermark"])
    @@ ("c3" :> [user |-> "bob", payload |-> "other"])

(* A download of half an hour at most, and an album of two hours whose      *)
(* tracks arrive every half hour or sooner.                                 *)
MCTempJobs == ("video" :> [total |-> 1, quiet |-> 1]) @@ ("album" :> [total |-> 4, quiet |-> 1])
=============================================================================
