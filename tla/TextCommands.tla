----------------------------- MODULE TextCommands -----------------------------
(***************************************************************************)
(* The commands that answer in words, and those that handle media.         *)
(***************************************************************************)
EXTENDS ImageCommands

\* A passage, or an apology for an httpx error; a bad reference is a message.
BibleCommand == Cmd({"all"}, Catch(
    MayAnswer("text") & Fetch & Answer("text"), {"http"}, Answer("text")))

QuranCommand == Cmd({"all"}, Fetch & Answer("text"))

TorahCommand == Cmd(Shown,
    MayAnswer("text") & Fetch & MayAnswer("text")
      & Optional(Translate) & Answer("text"))

HoroscopeCommand == Cmd(Shown,
    MayAnswer("text") & Fetch & Translate & Answer("text"))

FactCommand == Cmd({"all"}, Fetch & Translate & Answer("text"))

CurrencyCommand == Cmd({"all"}, MayAnswer("text") & Fetch & Answer("text"))

FipeCommand == Cmd({"all"},
    Apologising(Fetch & Fetch & Optional(Fetch) & Answer("text")))

Draws == Fetch

\* Today's draws; with none published, yesterday's, and an apology for both.
LotteryCommand == Cmd({"all"}, Apologising(
    Draws & MayAnswer("text") & Catch(Draws, {"http"}, Skip) & Answer("text")))

MenuCommand == Cmd({"all", "dm"}, Answer("text"))

MoonCommand == Cmd({"all"}, Answer("text"))

D20Command == Cmd({"all"}, Answer("text"))

JackpotCommand == Cmd({"all"}, Answer("text"))

MateusCommand == Cmd({"all"}, Answer("text"))

OiCommand == Cmd({"all"}, Answer("text"))

(***************************************************************************)
(* Media.                                                                  *)
(***************************************************************************)

\* One message per chunk; a word too long to split is refused.
AudioCommand == Cmd({"all", "dm"},
    MayAnswer("text")
      & (Twice(Say("audio")) & Return | Raise("told")))

\* yt-dlp: a video, a RuntimeError (none) or a video past the buffer's limit.
YtDlpDownload == Skip | Nothing | Raise("download") | Raise("other")

YtDlpImage == Fetch

\* The photos of a tweet, one message each; with none, the first error again.
XPhotos == Catch(Fetch, {"http"}, Raise("other")) & Twice(Fetch)

DownloadPhotos ==
      Raise("other")
    | YtDlpImage & Answer("image_buffer")
    | XPhotos & Twice(Say("image_buffer")) & Return

\* Whatever fails is a DownloadError, which is not tried again.
DownloadCommand == Cmd(Shown \cup {"exclusive"},
    MayAnswer("text")
      & Catch(OrElse(YtDlpDownload, DownloadPhotos) & Answer("video_buffer"),
              Errors \ {"download"}, Raise("download")))

ExtractCommand == Cmd({"show", "dm"},
    MayAnswer("text")
      & Apologising(GetMedia & Compute
                      & (Answer("video_buffer") | Answer("image_buffer"))))

StickerCreator == Compute | Raise("told")       \* 500 KB at most

StickerCommand == Cmd({},
    MayAnswer("text") & GetMedia & StickerCreator & Answer("sticker"))

TextCommandTable ==
    [ bible |-> BibleCommand, quran |-> QuranCommand, torah |-> TorahCommand,
      horoscope |-> HoroscopeCommand, fact |-> FactCommand,
      currency |-> CurrencyCommand, fipe |-> FipeCommand,
      lottery |-> LotteryCommand, menu |-> MenuCommand, moon |-> MoonCommand,
      d20 |-> D20Command, jackpot |-> JackpotCommand, mateus |-> MateusCommand,
      oi |-> OiCommand, audio |-> AudioCommand, download |-> DownloadCommand,
      extract |-> ExtractCommand, sticker |-> StickerCommand ]
==============================================================================
