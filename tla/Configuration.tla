---------------------------- MODULE Configuration ----------------------------
(***************************************************************************)
(* apply_configuration (configuration.py): Game.ini is merged with what    *)
(* the environment sets; when it is created without an admin password one  *)
(* is generated and kept in a file of its own.  Every preparation does     *)
(* this, and may fail or be killed between any two file operations.        *)
(***************************************************************************)
EXTENDS IniMerge

CONSTANTS
  Files,        \* what Game.ini may be at first
  Templates,    \* what its template may be
  Settings,     \* what the environment may set: records of two sequences of entries,
                \* env of the variables and extra of GAME_INI_OVERRIDES
  Managed,      \* what has a variable of its own: pairs of a section and a key
  Generated,    \* the passwords that are generated, in this order
  MaxFaults,    \* bound: failures, kills and changes by the operator
  MaxAgain      \* bound: preparations of a container after its first

Absent == <<[kind |-> "absent", margin |-> 0, name |-> <<"", "">>, value |-> ""]>>      \* no file

\* An entry for what has a variable of its own; GAME_INI_OVERRIDES must have none.
Overrides(e) ==
  \E m \in Managed : Normal(m[1]) = Normal(e.section) /\ Normal(m[2]) = Normal(e.key)

Passwords == {Generated[i] : i \in DOMAIN Generated}

ASSUME FilesAssumption == Files \cup Templates \subseteq {Absent} \cup Seq(Line)

ASSUME NamesAssumption ==
  /\ {"serversetting", "ServerSetting", "adminpassword", "AdminPassword"} \subseteq Text
  /\ "adminpassword" \notin Hidden

ASSUME SettingsAssumption ==
  /\ Settings \subseteq [env : Seq(Item), extra : Seq(Item)]
  /\ \A s \in Settings : \A i \in DOMAIN s.env : Overrides(s.env[i])

Without(lines, values) == \A i \in DOMAIN lines : lines[i].value \notin values

\* token_urlsafe(24) never gives a password twice, nor one that exists already,
\* nor an empty one.
ASSUME GeneratedAssumption ==
  /\ Generated \in Seq(Text) /\ \A i, j \in DOMAIN Generated : Generated[i] = Generated[j] => i = j
  /\ "" \notin Passwords
  /\ \A f \in (Files \cup Templates) \ {Absent} : Without(f, Passwords)
  /\ \A s \in Settings : \A updates \in {s.env, s.extra} : \A i \in DOMAIN updates :
       Without(updates[i].title, Passwords) /\ Without(updates[i].text, Passwords)

ASSUME BoundsAssumption == MaxFaults \in Nat /\ MaxAgain \in Nat

VARIABLES
  game, template,   \* Game.ini and its template: lines, or Absent
  aside,            \* Game.ini as a backup has it: lines, or Absent
  secret,           \* generated-admin-password: 0 none, torn or empty; else the index of what it holds
  settings,         \* what this container's environment sets
  pc, adds,         \* where apply_configuration is; the entry it adds, if any
  generated,        \* how many passwords have been generated
  merged,           \* history: what was merged last into the present Game.ini
  restored,         \* history: the present Game.ini goes back to a backup
  faults, again

vars == <<game, template, aside, secret, settings, pc, adds, generated, merged, restored, faults, again>>

Server(k) == <<"serversetting", k>>          \* a managed key
AdminPassword(v) == Entry(<<"serversetting", "ServerSetting">>, <<"adminpassword", "AdminPassword">>, v)

\* build_updates: the variables' entries first, then the others.
Updates == settings.env \o settings.extra

\* The values that the file as it is read gives a key of a section.
SectionAt(lines, i) ==
  LET before == {j \in 1 .. i : lines[j].kind = "section"}
  IN IF before = {} THEN Nowhere ELSE Normal(lines[CHOOSE j \in before : \A k \in before : k <= j].name)
Values(lines, s, k) ==
  {lines[i].value : i \in {j \in DOMAIN lines :
     IsKey(lines[j]) /\ SectionAt(lines, j) = s /\ Normal(lines[j].name) = k}}

Sets(updates, k) == \E i \in DOMAIN updates : <<Normal(updates[i].section), Normal(updates[i].key)>> = Server(k)
SetTo(updates, k, v) ==
  \E i \in DOMAIN updates :
    /\ <<Normal(updates[i].section), Normal(updates[i].key)>> = Server(k)
    /\ updates[i].text[1].value = v

TypeOK ==
  /\ pc \in {"down", "begin", "secret", "game", "engine", "done", "rejected"}
  /\ secret \in 0 .. Len(Generated) /\ generated \in 0 .. Len(Generated) /\ secret <= generated
  /\ adds \in {<<>>} \cup {<<AdminPassword(Generated[i])>> : i \in 1 .. Len(Generated)}
  /\ restored \in BOOLEAN /\ faults \in 0 .. MaxFaults /\ again \in 0 .. MaxAgain
  /\ adds # <<>> => pc \in {"secret", "game"}

Init ==
  /\ game \in Files /\ template \in Templates /\ settings \in Settings
  /\ secret = 0 /\ pc = "down" /\ adds = <<>> /\ generated = 0 /\ merged = {} /\ faults = 0
  /\ aside = Absent /\ restored = FALSE /\ again = 0

-----------------------------------------------------------------------------
(* The container and the operator *)

Boot ==
  /\ pc = "down" /\ pc' = "begin"
  /\ settings' \in (IF faults < MaxFaults THEN Settings ELSE {settings})
  /\ faults' = (IF settings' = settings THEN faults ELSE faults + 1)
  /\ UNCHANGED <<game, template, aside, secret, adds, generated, merged, restored, again>>

Fault == faults < MaxFaults /\ faults' = faults + 1

\* A kill, or an OSError after which the preparation is tried again.
Killed ==
  /\ Fault /\ pc # "down" /\ pc' = "down" /\ adds' = <<>>
  /\ UNCHANGED <<game, template, aside, secret, settings, generated, merged, restored, again>>

\* backup.sh keeps the saved games, and Game.ini with them; so does restore.sh,
\* which sets aside what it replaces.
Archived ==
  /\ pc \in {"down", "done"} /\ aside' = game
  /\ UNCHANGED <<game, template, secret, settings, pc, adds, generated, merged, restored, faults, again>>

\* The server is stopped, and restore.sh or the operator replaces the saved games,
\* by those of a backup or by others which have no Game.ini.  The password's file
\* is not among them.
Replaced ==
  /\ Fault /\ pc \in {"down", "done"} /\ pc' = "down"
  /\ game' \in {Absent, aside} /\ restored' = (game' # Absent) /\ merged' = {}
  /\ UNCHANGED <<template, aside, secret, settings, adds, generated, again>>

\* The next preparation of the same container.
Again ==
  /\ pc = "done" /\ pc' = "begin" /\ again < MaxAgain /\ again' = again + 1
  /\ UNCHANGED <<game, template, aside, secret, settings, adds, generated, merged, restored, faults>>

-----------------------------------------------------------------------------
(* apply_configuration *)

First == game = Absent

Generates == First /\ ~Sets(Updates, "adminpassword")

\* A password that is required must be given when the file is created.
LacksPassword == First /\ SetTo(Updates, "needpassword", "True") /\ ~Sets(Updates, "password")

\* A SettingsError, which ends the program.
Rejected ==
  /\ pc = "begin" /\ (LacksPassword \/ \E i \in DOMAIN settings.extra : Overrides(settings.extra[i]))
  /\ pc' = "rejected"
  /\ UNCHANGED <<game, template, aside, secret, settings, adds, generated, merged, restored, faults, again>>

\* Mutant of Open: a password file that is there already is kept.
OpenNew == IF secret = 0 THEN pc' = "secret" /\ UNCHANGED secret ELSE pc' = "game" /\ UNCHANGED secret

\* _write_private_text truncates the file, which may hold an earlier password.
Open == secret' = 0 /\ pc' = "secret"

Begin ==
  /\ pc = "begin"
  /\ ~LacksPassword /\ \A i \in DOMAIN settings.extra : ~Overrides(settings.extra[i])
  /\ IF Generates
       THEN /\ generated < Len(Generated) /\ generated' = generated + 1
            /\ adds' = <<AdminPassword(Generated[generated + 1])>>
            /\ Open
       ELSE pc' = "game" /\ UNCHANGED <<secret, adds, generated>>
  /\ UNCHANGED <<game, template, aside, settings, merged, restored, faults, again>>

Keep ==
  /\ pc = "secret" /\ pc' = "game" /\ secret' = generated
  /\ UNCHANGED <<game, template, aside, settings, adds, generated, merged, restored, faults, again>>

Present == IF First THEN (IF template = Absent THEN <<>> ELSE template) ELSE game

\* merge_ini writes a temporary file and renames it.
MergeGame ==
  /\ pc = "game" /\ pc' = "engine"
  /\ game' = Merge(Present, Updates \o adds)
  /\ merged' = {settings} /\ adds' = <<>>
  /\ UNCHANGED <<template, aside, secret, settings, generated, restored, faults, again>>

\* Engine.ini is merged in the same way, with the two ports; its lines are not
\* part of the model.
MergeEngine ==
  /\ pc = "engine" /\ pc' = "done"
  /\ UNCHANGED <<game, template, aside, secret, settings, adds, generated, merged, restored, faults, again>>

Next ==
  \/ Boot \/ Killed \/ Archived \/ Replaced \/ Again
  \/ Rejected \/ Begin \/ Keep \/ MergeGame \/ MergeEngine

Spec == Init /\ [][Next]_vars

-----------------------------------------------------------------------------
(* Properties *)

AllReadable == \A i \in DOMAIN Updates : Readable(Updates[i])

\* After a preparation every place where Game.ini assigns a key of the settings
\* has the value that was set last, and there is one (ini_merge.py:32-85); what a
\* variable sets is not set otherwise by GAME_INI_OVERRIDES (configuration.py:153).
\* Unless something is set that is read back as something else.
Applied ==
  pc = "done" /\ AllReadable => \A i \in DOMAIN Updates :
    LET last == CHOOSE j \in i .. Len(Updates) :
                  Same(Updates[j], Updates[i]) /\ \A k \in j + 1 .. Len(Updates) : ~Same(Updates[k], Updates[i])
    IN /\ Values(game, Normal(Updates[i].section), Normal(Updates[i].key)) = {Updates[last].text[1].value}
       /\ i \in DOMAIN settings.env => last \in DOMAIN settings.env

\* The lines, each with its section, that are not set by the environment.
Placed(lines) == [i \in DOMAIN lines |-> <<SectionAt(lines, i), lines[i]>>]
IsSet(placed, updates) ==
  /\ IsKey(placed[2])
  /\ \E j \in DOMAIN updates : placed[1] = Normal(updates[j].section)
                              /\ Normal(placed[2].name) = Normal(updates[j].key)
KeptWith(kept, placed, updates) == IF IsSet(placed, updates) THEN kept ELSE Append(kept, placed)
Unset(placed, updates) ==
  LET kept[i \in 0 .. Len(placed)] == IF i = 0 THEN <<>> ELSE KeptWith(kept[i - 1], placed[i], updates)
  IN kept[Len(placed)]
Kept(lines, updates) == Unset(Placed(lines), updates)

\* A merge keeps all other lines, comments and sections, in their order and in
\* their sections, and adds nothing else than sections at the end
\* (docs/CONFIGURATION.md: unknown sections, unknown keys and comments are preserved).
\* Unless something is set that is read back as something else.
Preserved ==
  [][MergeGame /\ AllReadable =>
       LET old == Kept(Present, Updates \o adds)
           new == Kept(game', Updates \o adds)
       IN /\ IsPrefix(old, new)
          /\ \A i \in Len(old) + 1 .. Len(new) : new[i][2].kind \in {"blank", "section"}]_vars

\* Preparing again with the same settings leaves Game.ini as it is, so that it
\* does not grow with each wake (ini_merge.py:17-98).  Unless a key is set that is
\* read back as something else, or with an indentation.
Stable ==
  [][MergeGame /\ merged = {settings} /\ (\A i \in DOMAIN Updates : Steady(Updates[i]))
       => game' = game]_vars

\* An admin password that was generated can be read in its file as long as
\* Game.ini has it, whatever was killed or deleted (configuration.py:177-197).
\* Unless Game.ini goes back to a backup, with a password that was generated
\* before the last one.
PasswordKnown ==
  \A i \in DOMAIN Generated :
    game # Absent /\ Generated[i] \in Values(game, "serversetting", "adminpassword")
      => secret = i \/ (restored /\ i < generated)
=============================================================================
