---------------------------- MODULE Conversation ----------------------------
(***************************************************************************)
(* The conversations of a workspace and their messages (db_workspace.py,   *)
(* behind the handlers of workspace_api.py).                               *)
(*                                                                         *)
(* A handler reads a row in one statement and writes all of its columns,   *)
(* or deletes it, in another.  An append is one transaction, as it runs on *)
(* PostgreSQL: its statements interleave with those of others, and the row *)
(* of the conversation, which it updates first, is locked until it ends.   *)
(* On SQLite BEGIN IMMEDIATE excludes the interleavings: its behaviours    *)
(* are among those described here.                                         *)
(***************************************************************************)
EXTENDS Integers

CONSTANTS
    Chat,         \* ids of conversations; a new one takes a fresh id
    Folder,       \* projects
    Message,      \* ids of messages; a new one takes a fresh id
    Poster,       \* request handlers
    NoFolder, NoMessage, NoChat

ASSUME ChatAssumption ==
    /\ NoFolder \notin Folder
    /\ NoMessage \notin Message
    /\ NoChat \notin Chat

VARIABLES
    chat,     \* chat[c]: the row of conversation c
    folder,   \* folder[p]: the status of project p
    message,  \* message[m]: the row of message m
    poster    \* poster[h]: the request h serves

chatVars == <<chat, folder, message, poster>>

Shelf == {"active", "archived"}

ChatRow == [status : Shelf \union {"none", "deleted"}, folder : Folder \union {NoFolder},
            held : BOOLEAN]

MessageRow == [status : {"none", "stored", "deleted"}, chat : Chat \union {NoChat},
               ordinal : Nat, parent : Message \union {NoMessage}]

NoChatRow == [status |-> "none", folder |-> NoFolder, held |-> FALSE]

NoMessageRow == [status |-> "none", chat |-> NoChat, ordinal |-> 0, parent |-> NoMessage]

\* row: what it is about to write; folder, parent, ordinal: what it looked up.
Served == [at : {"idle", "create", "check", "edit", "delete", "append", "lock", "count",
                 "insert", "shelve"},
           chat : Chat \union {NoChat}, row : ChatRow, folder : Folder \union {NoFolder},
           shelf : Shelf, parent : Message \union {NoMessage}, ordinal : Nat]

Unserved == [at |-> "idle", chat |-> NoChat, row |-> NoChatRow, folder |-> NoFolder,
             shelf |-> "active", parent |-> NoMessage, ordinal |-> 0]

Exists(c) == chat[c].status \in Shelf

Stored(c) == {m \in Message : message[m].status = "stored" /\ message[m].chat = c}

\* The row of c is locked by an append that has updated it and not ended.
Locked(c) == \E h \in Poster : poster[h].at \in {"count", "insert"} /\ poster[h].chat = c

Goto(h, local) ==
    /\ poster' = [poster EXCEPT ![h] = local]
    /\ UNCHANGED <<chat, folder, message>>

-----------------------------------------------------------------------------
(***************************************************************************)
(* Conversations and projects.                                             *)
(***************************************************************************)
\* create_workspace_conversation, up to the INSERT: the project is active.
CreateChat(h, p) ==
    /\ poster[h].at = "idle"
    /\ p # NoFolder => folder[p] = "active"
    /\ Goto(h, [Unserved EXCEPT !.at = "create", !.folder = p])

InsertChat(h, c, held) ==
    /\ poster[h].at = "create"
    /\ chat[c].status = "none"
    /\ chat' = [chat EXCEPT
          ![c] = [status |-> "active", folder |-> poster[h].folder, held |-> held]]
    /\ poster' = [poster EXCEPT ![h] = Unserved]
    /\ UNCHANGED <<folder, message>>

\* update_workspace_conversation, the SELECT: a new name or pin changes no column
\* that is kept here; an archive or its undoing changes the status.
ReadChat(h, c, shelf) ==
    /\ poster[h].at = "idle"
    /\ Exists(c)
    /\ Goto(h, [Unserved EXCEPT !.at = "edit", !.chat = c,
                                !.row = [chat[c] EXCEPT !.status = shelf]])

\* The SELECT for a move, to no project or to one that is looked up next.
ReadForMove(h, c, p) ==
    /\ poster[h].at = "idle"
    /\ Exists(c)
    /\ Goto(h, [Unserved EXCEPT !.at = IF p = NoFolder THEN "edit" ELSE "check",
                                !.chat = c, !.row = [chat[c] EXCEPT !.folder = p]])

CheckFolder(h) ==
    /\ poster[h].at = "check"
    /\ IF folder[poster[h].row.folder] = "active"
       THEN Goto(h, [poster[h] EXCEPT !.at = "edit"])
       ELSE Goto(h, Unserved)

\* The UPDATE of every column, by id; a row that is gone stays so.
WriteChat(h) ==
    LET c == poster[h].chat
    IN  /\ poster[h].at = "edit"
        /\ ~Locked(c)
        /\ chat' = IF Exists(c) THEN [chat EXCEPT ![c] = poster[h].row] ELSE chat
        /\ poster' = [poster EXCEPT ![h] = Unserved]
        /\ UNCHANGED <<folder, message>>

\* Defect: the retention policy is not looked at.
DeletableAny(c) == Exists(c)

Deletable(c) == Exists(c) /\ ~chat[c].held

\* delete_workspace_conversation: the SELECT, and the DELETE, which cascades.
ReadForDelete(h, c) ==
    /\ poster[h].at = "idle"
    /\ Deletable(c)
    /\ Goto(h, [Unserved EXCEPT !.at = "delete", !.chat = c])

DeleteChat(h) ==
    LET c == poster[h].chat
    IN  /\ poster[h].at = "delete"
        /\ ~Locked(c)
        /\ chat' = [chat EXCEPT ![c].status = "deleted"]
        /\ message' = [m \in Message |->
              IF m \in Stored(c) THEN [message[m] EXCEPT !.status = "deleted"] ELSE message[m]]
        /\ poster' = [poster EXCEPT ![h] = Unserved]
        /\ UNCHANGED folder

\* update_workspace_project: the SELECT, and the UPDATE of every column; a new name
\* writes the status it read.
ReadFolder(h, p, shelf) ==
    /\ poster[h].at = "idle"
    /\ Goto(h, [Unserved EXCEPT !.at = "shelve", !.folder = p, !.shelf = shelf])

WriteFolder(h) ==
    /\ poster[h].at = "shelve"
    /\ folder' = [folder EXCEPT ![poster[h].folder] = poster[h].shelf]
    /\ poster' = [poster EXCEPT ![h] = Unserved]
    /\ UNCHANGED <<chat, message>>

-----------------------------------------------------------------------------
(***************************************************************************)
(* append_workspace_message.                                               *)
(***************************************************************************)
\* COALESCE(MAX(ordinal),0) + 1
Follows(c, n) ==
    \/ n = 1 /\ Stored(c) = {}
    \/ /\ \E m \in Stored(c) : n = message[m].ordinal + 1
       /\ \A m \in Stored(c) : message[m].ordinal < n

\* The message replied to is looked up before the transaction begins.
BeginAppend(h, c, parent) ==
    /\ poster[h].at = "idle"
    /\ parent # NoMessage => parent \in Stored(c)
    /\ Exists(c)
    /\ Goto(h, [Unserved EXCEPT !.at = "append", !.chat = c, !.parent = parent])

\* The transaction is rolled back, as the conversation is gone or archived.
Refuse(h) ==
    /\ poster[h].at = "append"
    /\ chat[poster[h].chat].status # "active"
    /\ Goto(h, Unserved)

\* The SELECT of the status, which locks nothing.
ReadStatus(h) ==
    /\ poster[h].at = "append"
    /\ chat[poster[h].chat].status = "active"
    /\ Goto(h, [poster[h] EXCEPT !.at = "lock"])

\* Defect: the row of the conversation is not updated first.
LockChatNot(h) ==
    /\ poster[h].at = "lock"
    /\ Exists(poster[h].chat)
    /\ Goto(h, [poster[h] EXCEPT !.at = "count"])

\* "Updating the parent row serializes ordinal allocation on PostgreSQL".
LockChat(h) ==
    /\ poster[h].at = "lock"
    /\ Exists(poster[h].chat)
    /\ ~Locked(poster[h].chat)
    /\ Goto(h, [poster[h] EXCEPT !.at = "count"])

\* The UPDATE finds no row, and the INSERT then breaks the foreign key.
ChatIsGone(h) ==
    /\ poster[h].at = "lock"
    /\ ~Exists(poster[h].chat)
    /\ Goto(h, Unserved)

CountMessages(h) ==
    /\ poster[h].at = "count"
    /\ \E n \in {1} \union {message[m].ordinal + 1 : m \in Stored(poster[h].chat)} :
          /\ Follows(poster[h].chat, n)
          /\ Goto(h, [poster[h] EXCEPT !.at = "insert", !.ordinal = n])

\* The INSERT and the COMMIT.
InsertMessage(h, m) ==
    /\ poster[h].at = "insert"
    /\ message[m].status = "none"
    /\ message' = [message EXCEPT
          ![m] = [status |-> "stored", chat |-> poster[h].chat,
                  ordinal |-> poster[h].ordinal, parent |-> poster[h].parent]]
    /\ poster' = [poster EXCEPT ![h] = Unserved]
    /\ UNCHANGED <<chat, folder>>

\* The handler dies, or its connection does: an open transaction is rolled back.
PosterDies(h) ==
    /\ poster[h].at # "idle"
    /\ Goto(h, Unserved)

-----------------------------------------------------------------------------
ChatInit ==
    /\ chat = [c \in Chat |-> NoChatRow]
    /\ folder = [p \in Folder |-> "active"]
    /\ message = [m \in Message |-> NoMessageRow]
    /\ poster = [h \in Poster |-> Unserved]

Edits(h) ==
    \/ \E c \in Chat, held \in BOOLEAN : InsertChat(h, c, held)
    \/ \E c \in Chat :
          \/ \E shelf \in Shelf : ReadChat(h, c, shelf)
          \/ ReadForDelete(h, c)
    \/ \E p \in Folder \union {NoFolder} :
          \/ CreateChat(h, p)
          \/ \E c \in Chat : ReadForMove(h, c, p)
    \/ CheckFolder(h) \/ WriteChat(h) \/ DeleteChat(h)
    \/ \E p \in Folder, shelf \in Shelf : ReadFolder(h, p, shelf)
    \/ WriteFolder(h)

Appends(h) ==
    \/ \E c \in Chat, parent \in Message \union {NoMessage} : BeginAppend(h, c, parent)
    \/ Refuse(h)
    \/ \E m \in Message : InsertMessage(h, m)
    \/ ReadStatus(h) \/ LockChat(h) \/ ChatIsGone(h) \/ CountMessages(h)

ChatNext == \E h \in Poster : Edits(h) \/ Appends(h) \/ PosterDies(h)

ChatSpec == ChatInit /\ [][ChatNext]_chatVars

-----------------------------------------------------------------------------
(***************************************************************************)
(* Properties.                                                             *)
(***************************************************************************)
ChatTypeOK ==
    /\ chat \in [Chat -> ChatRow]
    /\ folder \in [Folder -> Shelf]
    /\ message \in [Message -> MessageRow]
    /\ poster \in [Poster -> Served]

\* The ordinals of a transcript.  Whoever replied, moved, archived or deleted in
\* between: those of a conversation are 1, 2, ... without a gap and each its own, a
\* reply stands after what it replies to, and an append that has computed its
\* ordinal finds it still the next one when it inserts, so that no two appends
\* collide on the unique index.
TranscriptIsInOrder ==
    \A c \in Chat :
        /\ \A m \in Stored(c) :
              /\ \A i \in 1..message[m].ordinal - 1 :
                    \E n \in Stored(c) : message[n].ordinal = i
              /\ \A n \in Stored(c) : message[n].ordinal = message[m].ordinal => n = m
              /\ message[m].parent # NoMessage =>
                    /\ message[m].parent \in Stored(c)
                    /\ message[message[m].parent].ordinal < message[m].ordinal
        /\ \A h \in Poster : poster[h].at = "insert" /\ poster[h].chat = c =>
              Exists(c) /\ Follows(c, poster[h].ordinal)

\* What a conversation holds is there for good: no step rewrites, reorders or drops
\* a stored message, except the deletion of its whole conversation, which never
\* happens to one under compliance hold; and no stale copy that is written back
\* lifts a hold, or brings a deleted conversation or message back.
TranscriptsAreKept ==
    [][/\ \A m \in Message : message[m].status = "stored" =>
             \/ message'[m] = message[m]
             \/ chat'[message[m].chat].status = "deleted" /\ message'[m].status = "deleted"
       /\ \A m \in Message : message[m].status = "deleted" => message'[m] = message[m]
       /\ \A c \in Chat :
             /\ chat[c].held => chat'[c].held /\ chat'[c].status # "deleted"
             /\ chat[c].status = "deleted" => chat'[c] = chat[c]]_chatVars

(***************************************************************************)
(* What a reader sees of a conversation: the messages that are stored, in  *)
(* the order of their ordinals.                                            *)
(***************************************************************************)
Phase(c) ==
    IF ~Exists(c) THEN chat[c].status ELSE IF chat[c].held THEN "held" ELSE "open"

Ordinals(c) == {message[m].ordinal : m \in Stored(c)}

Listed(c, n) ==
    LET m == CHOOSE m \in Stored(c) : message[m].ordinal = n
    IN  [message |-> m, parent |-> message[m].parent]

phase == [c \in Chat |-> Phase(c)]
log == [c \in Chat |-> [n \in Ordinals(c) |-> Listed(c, n)]]
used == {m \in Message : message[m].status # "none"}

Shown == INSTANCE Transcript

\* For a reader the many statements of the handlers are a few atomic steps: whatever
\* overlaps, a transcript grows at its end by a whole message that answers one above
\* it, or goes as a whole, never under a hold; nothing else ever changes it, and no
\* stale copy that is written back lifts a hold or brings anything back.
ImplementsTranscript == Shown!Spec
=============================================================================
