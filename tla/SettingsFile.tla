---------------------------- MODULE SettingsFile ----------------------------
(* The settings file over the versions of the program (src/settings/io.rs,    *)
(* src/settings/normalize.rs): loading brings a file of any older version up  *)
(* to date, puts every value into its range, and writes the result back if    *)
(* anything changed; a PUT of a client does the same to what it sends.        *)
(* The widths of keys are in tenths of a grid unit.  A key, a font or a theme *)
(* has what decides its fate; one number stands for those with a range, one   *)
(* pinned count for the two of the system keyboard.                           *)
EXTENDS Integers, Sequences, FiniteSets, SequencesExt

CONSTANTS Anchors,      \* FONT_ANCHORS: fonts that need no entry
          Torn,         \* a file that does not parse
          Files,        \* the files an older version may have left
          Bodies,       \* what clients may PUT
          FontCap,      \* the number of fonts kept
          ThemeCap      \* the number of themes kept

CurrentVersion == 15
NoGrow == 0
Key(name, kind, grow) == [name |-> name, kind |-> kind, grow |-> grow]
FactoryKeys == <<"History", "Bookmarks", "Extended", "Actions">>
NoKeyboard == [upper |-> <<>>, pages |-> <<>>, pinned |-> -1]

VARIABLES file,         \* settings.json
          mem,          \* the settings in memory, Torn before the first load
          saved,        \* the last write of what is in memory succeeded
          origin        \* the file the program was first started with, or Torn
                        \* once a client has changed the settings
vars == <<file, mem, saved, origin>>

Clamp(x, low, high) == IF x < low THEN low ELSE IF x > high THEN high ELSE x
Round(x) == ((x + 5) \div 10) * 10
Flat(pages) == <<FlattenSeq(pages)>>

(***************************************************************************)
(* normalize.rs: what every load and every PUT puts in order.              *)
(***************************************************************************)
\* normalize_action_key: an unknown kind becomes "send", a width is limited.
NormalKey(k) ==
  [k EXCEPT !.kind = IF @ \in {"send", "action"} THEN @ ELSE "send",
            !.grow = IF @ = NoGrow THEN @ ELSE Clamp(@, 5, 120)]
GridKey(k, most) ==
  [NormalKey(k) EXCEPT !.grow = IF @ = NoGrow THEN @ ELSE Clamp(Round(@), 10, most)]
GridKeys(ks, most) == [i \in DOMAIN ks |-> GridKey(ks[i], most)]

NormalKeyboard(c) ==
  IF c = NoKeyboard THEN c
  ELSE [upper |-> GridKeys(c.upper, 90),
        pages |-> IF c.pages = <<>> THEN <<<<>>>> ELSE <<GridKeys(Flat(c.pages)[1], 100)>>,
        pinned |-> Clamp(c.pinned, 0, IF Len(c.upper) < 5 THEN Len(c.upper) ELSE 5)]

NormalKeys(ks) == [i \in DOMAIN ks |-> NormalKey(ks[i])]

\* ActionKeyboardConfig::normalize: a bottom part always has an enter key.
NormalActions(c) ==
  [rows |-> NormalKeys(c.rows),
   enter |-> IF c.enter \in {"missing", "other"} THEN "return" ELSE c.enter]

\* primary_family: one pair of quotes around the name goes.
Primary(f) == [f EXCEPT !.quotes = IF @ > 0 THEN @ - 1 ELSE 0]
\* clamp_custom_fonts: the first entry of each usable font, up to the cap.
NormalFonts(fs) ==
  LET Add(kept, f) ==
        IF \/ Len(kept) = FontCap \/ f.name \in Anchors
             \/ \E i \in DOMAIN kept : kept[i].name = f.name
        THEN kept ELSE Append(kept, Primary(f))
  IN FoldLeft(Add, <<>>, fs)

\* clamp_theme_library, of a PUT only: one theme of each uuid, its colours in
\* one form, and no base theme hidden.
Colour(c) == IF c \in {"short", "upper"} THEN "lower"
             ELSE IF c = "unreadable" THEN "fallback" ELSE c
NormalThemes(ts) ==
  LET Add(kept, t) ==
        IF \E i \in DOMAIN kept : kept[i].uuid = t.uuid THEN kept
        ELSE Append(kept, [t EXCEPT !.colour = Colour(@)])
      all == FoldLeft(Add, <<>>, ts)
  IN SubSeq(all, 1, IF Len(all) < ThemeCap THEN Len(all) ELSE ThemeCap)
Hidden(names) == SelectSeq(names, LAMBDA n : n # "dark")

Normal(s) ==
  [s EXCEPT !.keyboard = NormalKeyboard(@),
            !.actions = NormalActions(@),
            !.fonts = NormalFonts(@),
            !.number = Clamp(@, 0, 2)]      \* the numbers with a range

(***************************************************************************)
(* migrate_settings: one step per version that changed the data.           *)
(***************************************************************************)
Upload(s) == [s EXCEPT !.upload = IF @ \in {"empty", "legacy", "resolved"}
                                  THEN "default" ELSE @]
V4(s) == IF s.version < 4 /\ s.show = "true" THEN [s EXCEPT !.show = "unset"] ELSE s
V5(s) ==
  IF s.version >= 5 THEN s
  ELSE [s EXCEPT !.mode = IF @ # "unset" \/ s.show = "unset" THEN @
                          ELSE IF s.show = "true" THEN "tab" ELSE "off",
                 !.show = "unset"]
V7(s) ==
  IF s.version >= 7 THEN s
  ELSE [s EXCEPT !.guard = IF s.keep THEN "collapse_only" ELSE "off"]
V8(s) == IF s.version >= 8 THEN s ELSE [s EXCEPT !.systemQuick = s.quick]
\* v9: the system toolbar's keys become the end of the keyboard's upper row.
Factory ==
  [upper |-> [i \in 1 .. 4 |-> Key(FactoryKeys[i], "action", NoGrow)],
   pages |-> <<<<Key("Esc", "send", NoGrow)>>, <<Key("^C", "send", NoGrow)>>>>,
   pinned |-> 0]
V9(s) ==
  IF s.version >= 9 THEN s
  ELSE [s EXCEPT !.keyboard = IF s.systemQuick = <<>> THEN NoKeyboard
                              ELSE [Factory EXCEPT !.upper = @ \o s.systemQuick],
                 !.systemQuick = <<>>]

\* v10: the pages become one stream of keys.
V10(s) ==
  IF s.version >= 10 \/ s.keyboard = NoKeyboard THEN s
  ELSE [s EXCEPT !.keyboard.upper = GridKeys(@, 100),
                 !.keyboard.pages = <<GridKeys(Flat(@)[1], 100)>>,
                 !.keyboard.pinned = 0]

Migrated(s) ==
  IF s.version >= CurrentVersion THEN s
  ELSE [V10(V9(V8(V7(V5(V4(Upload(s))))))) EXCEPT !.version = CurrentVersion]

Default == [version |-> CurrentVersion, upload |-> "default", show |-> "unset",
            mode |-> "unset", keep |-> FALSE, guard |-> "off", quick |-> <<>>,
            systemQuick |-> <<>>, keyboard |-> NoKeyboard, fonts |-> <<>>,
            actions |-> [rows |-> <<>>, enter |-> "none"], themes |-> <<>>,
            hidden |-> <<>>, number |-> 1]

\* The values of a load; an empty upload directory is also filled in later.
Loaded(f) ==
  IF f = Torn THEN Default
  ELSE LET s == Migrated(f)
       IN Normal([s EXCEPT !.upload = IF @ = "empty" THEN "default" ELSE @])

(***************************************************************************)
(* The program's steps.  A write may fail; a crash may tear it.            *)
(***************************************************************************)
\* A torn file is not replaced: the defaults need no change.
Start(ok) ==
  LET s == Loaded(file) IN
  /\ mem' = s
  /\ file' = IF s = file \/ ~ok \/ file = Torn THEN file ELSE s
  /\ saved' = (file' = s)
  /\ origin' = IF origin = Torn /\ mem = Torn THEN file ELSE origin

\* preserve_current_settings_on_legacy_put: an older client keeps the keyboard.
Put(body, ok) ==
  /\ mem # Torn
  /\ LET m == Migrated(body)
         s == Normal([m EXCEPT !.themes = NormalThemes(@), !.hidden = Hidden(@)])
         n == IF body.version < 12 THEN [s EXCEPT !.keyboard = mem.keyboard] ELSE s
     IN /\ file' = IF ok THEN n ELSE file
        /\ mem' = IF ok THEN n ELSE mem
        /\ saved' = (ok \/ saved)
        /\ origin' = IF ok THEN Torn ELSE origin

Tear ==
  /\ mem # Torn /\ file # Torn
  /\ file' = Torn /\ saved' = FALSE /\ origin' = Torn
  /\ UNCHANGED mem

Init == file \in Files /\ mem = Torn /\ saved = FALSE /\ origin = Torn

Next ==
  \/ \E ok \in BOOLEAN : Start(ok)
  \/ \E body \in Bodies, ok \in BOOLEAN : Put(body, ok)
  \/ Tear
Spec == Init /\ [][Next]_vars

-----------------------------------------------------------------------------
KeyNames(ks) == [i \in DOMAIN ks |-> ks[i].name]
\* The keys of the toolbar an older version kept, in order.
ToolbarKeys(s) == IF s.version < 8 THEN s.quick ELSE s.systemQuick

(* What a start or a PUT wrote, the next start takes as it is: no value is   *)
(* out of its range again and no migration repeats; nor would a client that  *)
(* sends back what it was given change it.                                   *)
StartsSettle ==
  saved => /\ mem = file /\ Loaded(file) = file
           /\ NormalThemes(mem.themes) = mem.themes

(* A user's keys survive the upgrade, whole and in order: those of the       *)
(* toolbar end the upper row, those of the pages are the one stream.         *)
KeysKept ==
  origin # Torn =>
    /\ (origin.version < 9 /\ ToolbarKeys(origin) # <<>>)
          => SubSeq(KeyNames(mem.keyboard.upper), 5, Len(mem.keyboard.upper))
               = KeyNames(ToolbarKeys(origin))
    /\ (origin.version >= 9 /\ origin.keyboard # NoKeyboard)
          => KeyNames(FlattenSeq(mem.keyboard.pages))
               = KeyNames(FlattenSeq(origin.keyboard.pages))
=============================================================================
