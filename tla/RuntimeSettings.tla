-------------------------- MODULE RuntimeSettings --------------------------
(***************************************************************************)
(* The settings an admin changes while the bots run (internal/runtime):    *)
(* one Redis hash of texts, shared by the main bot, the fleet and the      *)
(* workers, read through a registry of typed settings.  A text of the hash *)
(* is what serialise made of a Go value; a Go value is a pair of its type  *)
(* and its content, because the code asserts types when it reads one.      *)
(***************************************************************************)
EXTENDS Integers, Sequences, TLC

CONSTANTS
    Registry,   \* redis key -> [service, type, min, max, allowed, config, default]
    Texts       \* texts an admin may type

VARIABLE stored \* the hash saveinator:runtime_settings: a function from some keys to texts

Keys == DOMAIN Registry

ASSUME RegistryAssumption ==
    \A k \in Keys : /\ Registry[k].type \in {"bool", "int", "enum", "list"}
                    /\ Registry[k].type = "enum" => "" \notin Registry[k].allowed

Flag(b) == <<"bool", b>>
Number(n) == <<"int", n>>
Word(s) == <<"string", s>>
NoValue == <<"none">>

(* strconv.Atoi on the texts of the model; the others are no numbers. *)
AtoiTable == ("0" :> 0) @@ ("1" :> 1) @@ ("7" :> 7) @@ ("9" :> 9) @@ ("-1" :> -1)
IsInt(raw) == raw \in DOMAIN AtoiTable
Atoi(raw) == IF IsInt(raw) THEN AtoiTable[raw] ELSE 0
Itoa(n) == CHOOSE t \in DOMAIN AtoiTable : AtoiTable[t] = n

(* The parts of a text between its commas, trimmed, empty ones dropped; and  *)
(* the text the parts give when they are joined again.                       *)
splitList(raw) ==
    CASE raw \in {"", ","} -> <<>>
      [] raw \in {"hd,sd", "hd,,sd"} -> <<"hd", "sd">>
      [] raw = "hd,uhd" -> <<"hd", "uhd">>
      [] OTHER -> <<raw>>

joinList(parts) ==
    CASE parts = <<>> -> ""
      [] parts = <<"hd", "sd">> -> "hd,sd"
      [] parts = <<"hd", "uhd">> -> "hd,uhd"
      [] OTHER -> parts[1]

Truthy == {"1", "true", "yes", "on"}
Falsy == {"0", "false", "no", "off"}

SplitsWithin(raw, allowed) == \A i \in DOMAIN splitList(raw) : splitList(raw)[i] \in allowed

\* Mutant: the upper bound is not looked at.
InBoundsMinOnly(def, n) == def.min > 0 => n >= def.min

(* The bounds of an integer count only where they are positive. *)
InBounds(def, n) ==
    /\ def.min > 0 => n >= def.min
    /\ def.max > 0 => n =< def.max

Validate(def, raw) ==
    CASE def.type = "bool" -> raw \in Truthy \cup Falsy
      [] def.type = "enum" -> raw \in def.allowed
      [] def.type = "list" -> SplitsWithin(raw, def.allowed) /\ raw # ""
      [] OTHER -> IsInt(raw) /\ InBounds(def, Atoi(raw))

Parse(def, raw) ==
    CASE def.type = "bool" -> Flag(raw \in Truthy)
      [] def.type = "enum" -> Word(raw)
      [] def.type = "list" -> Word(joinList(splitList(raw)))
      [] OTHER -> Number(Atoi(raw))

serialise(value, def) ==
    CASE def.type = "bool" -> IF value = Flag(TRUE) THEN "1" ELSE "0"
      [] value[1] = "int" -> Itoa(value[2])
      [] OTHER -> value[2]

deserialise(raw, def) ==
    CASE def.type = "bool" -> Flag(raw \in {"1", "true"})
      [] def.type \in {"enum", "list"} -> Word(raw)
      [] OTHER -> Number(Atoi(raw))

(* The value of the configuration where the setting has one, else the        *)
(* registry's default, else the zero value.                                  *)
defaultFromConfig(def) ==
    CASE def.config # NoValue -> def.config
      [] def.default # NoValue -> def.default
      [] def.type = "bool" -> Flag(FALSE)
      [] OTHER -> Number(0)

(* Reading the hash; a failed read counts as a missing field. *)
valueIn(hash, key, redisFails) ==
    IF redisFails \/ key \notin DOMAIN hash
    THEN defaultFromConfig(Registry[key])
    ELSE deserialise(hash[key], Registry[key])

CurrentValue(key, redisFails) == valueIn(stored, key, redisFails)

CurrentInt(key, fallback, redisFails) ==
    IF key \in Keys /\ CurrentValue(key, redisFails)[1] = "int"
    THEN CurrentValue(key, redisFails)[2] ELSE fallback

CurrentBool(key, fallback, redisFails) ==
    IF key \in Keys /\ CurrentValue(key, redisFails)[1] = "bool"
    THEN CurrentValue(key, redisFails)[2] ELSE fallback

IsText(value) == value[1] = "string" /\ value # Word("")

CurrentString(key, fallback, redisFails) ==
    IF key \in Keys /\ IsText(CurrentValue(key, redisFails))
    THEN CurrentValue(key, redisFails)[2] ELSE fallback

(* An empty text, which "," becomes, gives the caller's list. *)
CurrentStringList(key, fallback, redisFails) ==
    IF key \in Keys /\ IsText(CurrentValue(key, redisFails))
    THEN splitList(CurrentValue(key, redisFails)[2]) ELSE fallback

(* A platform without a switch is always on. *)
PlatformEnabled(key, redisFails) ==
    key \in Keys => CurrentValue(key, redisFails) = Flag(TRUE)

(* A Redis write: the key is made or its value replaced. *)
PutKey(f, key, value) == [k \in DOMAIN f \cup {key} |-> IF k = key THEN value ELSE f[k]]

SetValue(key, value) == stored' = PutKey(stored, key, serialise(value, Registry[key]))

Reset(key) == stored' = [k \in DOMAIN stored \ {key} |-> stored[k]]

ResetAll == stored' = <<>>

ServiceSettings(service) == {k \in Keys : Registry[k].service = service}
=============================================================================
