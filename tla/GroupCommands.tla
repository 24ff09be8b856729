---------------------------- MODULE GroupCommands ----------------------------
(***************************************************************************)
(* The commands that change a group, a list or a setting.                  *)
(***************************************************************************)
EXTENDS CommandOutcomes

GroupMetadata == Rpc
OnWhatsApp == Rpc

\* The bot, then the sender, must be an admin.
AdminsOnly == GroupMetadata & MayAnswer("text")

\* Mutant: a number that was added does not end the search.
AddRandomPhoneTwice == Twice(OnWhatsApp & Catch(Act("add_random"), Errors, Answer("text")))
                         & Return

AddRandomPhone == Twice(OnWhatsApp)
                    & Catch(Act("add_random"), Errors, Answer("text")) & Return

\* Mutant: a number that could not be added is passed over.
AddPhoneSilent == OnWhatsApp & Catch(Act("add_phone"), Errors, Return) & Return

AddPhone == OnWhatsApp & Catch(Act("add_phone"), Errors, Answer("text")) & Return

AddCommand == Cmd({"group"},
    AdminsOnly & ( AddRandomPhone
                 | MayAnswer("text") & Optional(Say("text")) & AddPhone ))

\* Mutant: declared for every platform.
AdmCommandEverywhere == Cmd({"all", "group"}, GroupMetadata & Answer("text"))

AdmCommand == Cmd({"group"}, GroupMetadata & Answer("text"))

BanRandom == MayAnswer("text")
               & Catch(Act("ban_random"), Errors, Return) & Answer("text")

BanMentioned ==
    Twice(Optional(Catch(Act("ban_named") & Say("text"), Errors, Skip))) & Return

BanCommand == Cmd({"group"}, AdminsOnly & (BanRandom | BanMentioned))

\* save, remove, the list, or dates to register.
BirthdayCommand == Cmd({"group"},
      MayAnswer("text") & Write("birthday") & Answer("text")
    | Read & Answer("text"))

BorgesCommand == Cmd({"all"}, Write("count") & Answer("text"))

DevCommand == Cmd({"all", "dev"},
    MayAnswer("text") & Write("dev") & Answer("text") | Read & Answer("text"))

\* Whoever configures the chat: its admins, asked of WhatsApp only for WhatsApp.
Authorized == Skip | Rpc | Answer("text")

\* A subtype is written one command at a time.
ConfigEditor == MayAnswer("text") & (Read | Twice(Write("config")))

ConfigCommand == Cmd({"all", "admin"}, Authorized & ConfigEditor & Answer("text"))

DiscordUpload(v) == Effect(v, "http")

\* Mutant: an upload that fails is somebody else's failure, and left to be retried.
DriveCommandRaising == Cmd({"group"},
    GetMedia & Catch(DiscordUpload("drive_upload"), {"http"}, Raise("service"))
      & Answer("text"))

DriveCommand == Cmd({"group"},
    MayAnswer("text")
      & Catch( Fetch & Optional(Answer("text") | DiscordUpload("drive_channel"))
                 & Optional(Answer("text") | DiscordUpload("drive_channel"))
                 & GetMedia & DiscordUpload("drive_upload") & Answer("text"),
               Errors, Answer("text")))

\* One of the services of ,grupo: each turns its own failures into a message.
MentionService(P) == Catch(P, Errors, Answer("text")) & MayAnswer("text")

GroupMentionsCommand == Cmd({"group"},
    MayAnswer("text")
      & ( MentionService(Write("mention_list"))        \* create, rename, delete, add
        | MentionService(Read & Optional(Write("exit_by_index")))
        | MentionService(Read) )                       \* list, mention
      & Answer("text"))

GroupCommandTable ==
    [ add     |-> AddCommand,      adm    |-> AdmCommand,
      ban     |-> BanCommand,      niver  |-> BirthdayCommand,
      borges  |-> BorgesCommand,   dev    |-> DevCommand,
      config  |-> ConfigCommand,   drive  |-> DriveCommand,
      grupo   |-> GroupMentionsCommand ]
==============================================================================
