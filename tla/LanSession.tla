------------------------------ MODULE LanSession ------------------------------
(***************************************************************************)
(* The encrypted session between the integration and an appliance:         *)
(* config.py, and the handlers of query_handlers.py as far as they decide  *)
(* which messages count.  What a counted message does is Device's matter.  *)
(*                                                                         *)
(* A handler runs without interruption once it has read the request's      *)
(* body, so each is one action.  The appliance and the network are         *)
(* external: messages in flight may be lost, repeated and overtaken.       *)
(*                                                                         *)
(* Each direction of a session is one CBC stream: the n-th message of      *)
(* session s decrypts only with the keys of s and only if the last         *)
(* ciphertext the decryptor consumed is message n - 1 (its first block is  *)
(* garbled otherwise, and the signature does not match).  A ciphertext is  *)
(* therefore <<s, n>>, and <<s, 0>> stands for the IV of the session.      *)
(***************************************************************************)
EXTENDS Naturals, FiniteSets

CONSTANTS
  MaxSessions,  \* bound: key exchanges
  MaxUpdates,   \* bound: updates the appliance sends in a session
  MaxCommands,  \* bound: command requests
  MaxSeq,       \* bound: sequence numbers of updates
  Window,       \* messages the appliance leaves under way: one it waits for, and given-up ones
  Worlds        \* which appliances may restart their numbers, which networks repeat

ASSUME BoundsAssumption ==
  /\ {MaxSessions, MaxUpdates, MaxCommands, MaxSeq, Window} \subseteq Nat
  /\ Worlds \subseteq [resets : BOOLEAN, repeats : BOOLEAN]

VARIABLES
  keys,             \* session of the current keys; 0 before any exchange
  decryptor,        \* last ciphertext dev.decryptor consumed
  encrypted,        \* messages app.encryptor has produced in this session
  updates_seq_no,   \* _updates_seq_no
  commands_seq_no,  \* _commands_seq_no
  lan_key_invalid,  \* the last exchange named another LAN key
  accepted,         \* history: the last update that counted
  world,            \* external: what this appliance and its network may do
  unit,             \* external: the appliance's end
  answers,          \* key exchange answers in flight
  updates,          \* updates in flight
  responses         \* command responses in flight

handlerVars ==
  <<keys, decryptor, encrypted, updates_seq_no, commands_seq_no, lan_key_invalid, accepted>>
vars == <<handlerVars, world, unit, answers, updates, responses>>

\* Ciphertext a was produced before b.
Earlier(a, b) == a[1] < b[1] \/ (a[1] = b[1] /\ a[2] < b[2])

\* Mutant: a decryptor without the state CBC carries from message to message.
DecryptsUnchained(session, last, c) == c[1] = session

\* The message c makes sense to the holder of session's keys and such a stream.
Decrypts(session, last, c) == c[1] = session /\ last = <<session, c[2] - 1>>

-----------------------------------------------------------------------------
(* The handlers.                                                           *)

\* Mutant: the command numbers restart, the encryptor does not.
KeyExchangeKeepsEncryptor ==
  /\ keys < MaxSessions
  /\ keys' = keys + 1
  /\ decryptor' = <<keys', 0>>
  /\ commands_seq_no' = 0
  /\ lan_key_invalid' = FALSE
  /\ answers' = answers \cup {keys'}
  /\ UNCHANGED <<encrypted, updates_seq_no, accepted, world, unit, updates, responses>>

\* key_exchange_handler with the configured key ID (Config.update): fresh
\* randoms, so fresh keys and both ciphers at the start of their streams.
\* Sequence numbers go on.
KeyExchange ==
  /\ keys < MaxSessions
  /\ keys' = keys + 1
  /\ decryptor' = <<keys', 0>>
  /\ encrypted' = 0
  /\ lan_key_invalid' = FALSE
  /\ answers' = answers \cup {keys'}
  /\ UNCHANGED <<updates_seq_no, commands_seq_no, accepted, world, unit, updates, responses>>

\* key_exchange_handler with another key ID (KeyIdReplaced): the session stands.
KeyRefused ==
  /\ lan_key_invalid' = TRUE
  /\ UNCHANGED <<keys, decryptor, encrypted, updates_seq_no, commands_seq_no, accepted,
                 world, unit, answers, updates, responses>>

\* command_handler: the next number, the next message of the stream.
Command ==
  /\ commands_seq_no < MaxCommands /\ Cardinality(responses) < Window
  /\ commands_seq_no' = commands_seq_no + 1
  /\ encrypted' = encrypted + 1
  /\ responses' = responses \cup {<<keys, encrypted'>>}
  /\ UNCHANGED <<keys, decryptor, updates_seq_no, lan_key_invalid, accepted, world, unit,
                 answers, updates>>

\* Mutant: no update is stale.
AnyUpdateValid(seq) == TRUE

\* is_update_valid
IsUpdateValid(seq) == ~(updates_seq_no > seq /\ seq > 0)

\* property_update_handler on update u: its ciphertext is consumed in any case.
\* (A malformed envelope is rejected before that and changes nothing.)
\* The request may be repeated later.
Update(u) ==
  /\ decryptor' = u.cipher
  /\ IF Decrypts(keys, decryptor, u.cipher) /\ IsUpdateValid(u.seq)
     THEN updates_seq_no' = u.seq /\ accepted' = u.cipher
     ELSE UNCHANGED <<updates_seq_no, accepted>>
  /\ updates' = updates \ {u} \/ (world.repeats /\ updates' = updates)
  /\ UNCHANGED <<keys, encrypted, commands_seq_no, lan_key_invalid, world, unit, answers,
                 responses>>

-----------------------------------------------------------------------------
(* The appliance and the network.                                          *)

\* The appliance adopts the session of the answer to its last exchange.
UnitKeys(s) ==
  /\ s > unit.session
  /\ unit' = [unit EXCEPT !.session = s, !.sent = 0, !.decryptor = <<s, 0>>]
  /\ answers' = answers \ {s}
  /\ UNCHANGED <<handlerVars, world, updates, responses>>

\* It reports a property, under the next number or from zero again.  (What a
\* network repeats it may keep as long as it likes.)
UnitReports(seq) ==
  /\ seq = unit.seq \/ (world.resets /\ seq = 0)
  /\ unit.session > 0 /\ unit.sent < MaxUpdates
  /\ world.repeats \/ Cardinality(updates) < Window
  /\ unit' = [unit EXCEPT !.sent = @ + 1, !.seq = seq + 1]
  /\ updates' = updates \cup {[cipher |-> <<unit.session, unit'.sent>>, seq |-> seq]}
  /\ UNCHANGED <<handlerVars, world, answers, responses>>

\* It executes the command of a response it can decrypt.
UnitExecutes(r) ==
  /\ unit.session > 0
  /\ unit' = [unit EXCEPT !.decryptor = r,
                          !.executed = IF Decrypts(unit.session, unit.decryptor, r) THEN r ELSE @]
  /\ responses' = responses \ {r}
  /\ UNCHANGED <<handlerVars, world, answers, updates>>

Lose ==
  /\ \/ \E s \in answers : answers' = answers \ {s} /\ UNCHANGED <<updates, responses>>
     \/ \E u \in updates : updates' = updates \ {u} /\ UNCHANGED <<answers, responses>>
     \/ \E r \in responses : responses' = responses \ {r} /\ UNCHANGED <<answers, updates>>
  /\ UNCHANGED <<handlerVars, world, unit>>

-----------------------------------------------------------------------------
Init ==
  /\ keys = 0 /\ decryptor = <<0, 0>> /\ encrypted = 0
  /\ updates_seq_no = 0 /\ commands_seq_no = 0
  /\ lan_key_invalid = FALSE
  /\ accepted = <<0, 0>>
  /\ world \in Worlds
  /\ unit = [session |-> 0, sent |-> 0, seq |-> 0, decryptor |-> <<0, 0>>, executed |-> <<0, 0>>]
  /\ answers = {} /\ updates = {} /\ responses = {}

Next ==
  \/ KeyExchange
  \/ KeyRefused
  \/ Command
  \/ \E u \in updates : Update(u)
  \/ \E s \in answers : UnitKeys(s)
  \/ \E seq \in {0, unit.seq} : seq <= MaxSeq /\ UnitReports(seq)
  \/ \E r \in responses : UnitExecutes(r)
  \/ Lose

Spec == Init /\ [][Next]_vars
-----------------------------------------------------------------------------
\* The types; in a session no more messages were encrypted than numbered.
TypeOK ==
  LET Ciphertext == (0..MaxSessions) \X Nat IN
  /\ keys \in 0..MaxSessions /\ decryptor \in Ciphertext
  /\ encrypted \in 0..commands_seq_no
  /\ updates_seq_no \in 0..MaxSeq /\ commands_seq_no \in 0..MaxCommands
  /\ lan_key_invalid \in BOOLEAN
  /\ accepted \in Ciphertext
  /\ unit \in [session : 0..MaxSessions, sent : 0..MaxUpdates, seq : 0..(MaxSeq + 1),
               decryptor : Ciphertext, executed : Ciphertext]
  /\ world \in Worlds
  /\ answers \subseteq 1..MaxSessions
  /\ updates \subseteq [cipher : Ciphertext, seq : 0..MaxSeq]
  /\ responses \subseteq Ciphertext

\* The store never goes back: an update counts only in the session agreed last,
\* and none counts after one sent later.  The numbers see to it when the network
\* repeats and reorders at will (the same update may count twice in a row, when
\* its predecessor is repeated with it); the chained decryptor does for an
\* appliance that restarts its numbers, while no more than two updates are under
\* way: with three under way, a late pair decrypts and its numbers are accepted.
AcceptedInOrder ==
  [][accepted' # accepted => accepted'[1] = keys /\ Earlier(accepted, accepted')]_vars

\* The appliance executes no command twice and none after a later one, though a
\* response it gave up may overtake or be overtaken (command_handler, the chained
\* encryptor).  Again this takes no more than two under way.
ExecutedInOrder == [][unit'.executed # unit.executed => Earlier(unit.executed, unit'.executed)]_vars

\* "Some devices reset the sequence number to zero during a session"
\* (is_update_valid): an update the session authenticates, sent after all that
\* counted before, is not dropped as stale.
ResetNotStale ==
  \A u \in updates :
    Decrypts(keys, decryptor, u.cipher) /\ Earlier(accepted, u.cipher) => IsUpdateValid(u.seq)
=============================================================================
