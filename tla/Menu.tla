-------------------------------- MODULE Menu --------------------------------
(***************************************************************************)
(* The two on-device menus of rust-app/src/menu.rs as pure transition      *)
(* operators: the idle menu with its blind-signing submenu, and the busy   *)
(* menu shown while a request is pending.  A menu entry is a string named  *)
(* after the enum variant; Settings(None) is "Settings" and                *)
(* Settings(Some(x)) is x.  The stored setting is 0 or 1, as in            *)
(* settings.rs.                                                            *)
(***************************************************************************)
EXTENDS Naturals

SettingsSubMenu == {"EnableBlindSigning", "DisableBlindSigning", "Back"}
IdleMenu == {"AppMain", "ShowVersion", "Settings", "Exit"} \cup SettingsSubMenu
BusyMenu == {"Working", "Cancel"}
Buttons == {"Left", "Right", "Both"}

\* Mutant of SettingsEntry: the submenu always opens on the first entry.
SettingsEntryFixed(setting) == "EnableBlindSigning"

\* The entry the submenu opens on, chosen by the current value of the setting.
SettingsEntry(setting) ==
    IF setting = 1 THEN "DisableBlindSigning" ELSE "EnableBlindSigning"

\* IdleMenuWithSettings::move_left
IdleLeft(menu, setting) ==
    [ AppMain             |-> "Exit",
      ShowVersion         |-> "AppMain",
      Settings            |-> "ShowVersion",
      Back                |-> SettingsEntry(setting),
      EnableBlindSigning  |-> "Back",
      DisableBlindSigning |-> "Back",
      Exit                |-> "Settings" ][menu]

\* IdleMenuWithSettings::move_right
IdleRight(menu, setting) ==
    [ AppMain             |-> "ShowVersion",
      ShowVersion         |-> "Settings",
      Settings            |-> "Exit",
      Back                |-> SettingsEntry(setting),
      EnableBlindSigning  |-> "Back",
      DisableBlindSigning |-> "Back",
      Exit                |-> "AppMain" ][menu]

\* Mutant of IdleBoth: "Back" leaves the menu for its main page.
IdleBothBackToMain(menu, setting) ==
    CASE menu = "Settings"            -> SettingsEntry(setting)
      [] menu = "EnableBlindSigning"  -> "DisableBlindSigning"
      [] menu = "DisableBlindSigning" -> "EnableBlindSigning"
      [] menu = "Back"                -> "AppMain"
      [] OTHER                        -> menu

\* IdleMenuWithSettings::handle_both: the entry it leaves selected ...
IdleBoth(menu, setting) ==
    [ AppMain             |-> "AppMain",
      ShowVersion         |-> "ShowVersion",
      Settings            |-> SettingsEntry(setting),
      EnableBlindSigning  |-> "DisableBlindSigning",
      DisableBlindSigning |-> "EnableBlindSigning",
      Back                |-> "Settings",
      Exit                |-> "Exit" ][menu]

\* Mutant of SettingAfterBoth: a byte counted up and down, not set.
SettingAfterBothCounted(menu, setting) ==
    CASE menu = "EnableBlindSigning"  -> setting + 1
      [] menu = "DisableBlindSigning" -> setting + 1
      [] OTHER                        -> setting

\* Mutant of SettingAfterBoth: opening the submenu switches the setting on.
SettingAfterBothOnEntry(menu, setting) ==
    CASE menu = "EnableBlindSigning"  -> 1
      [] menu = "Settings"            -> 1
      [] menu = "DisableBlindSigning" -> 0
      [] OTHER                        -> setting

\* ... and the value it leaves in the setting.
SettingAfterBoth(menu, setting) ==
    CASE menu = "EnableBlindSigning"  -> 1
      [] menu = "DisableBlindSigning" -> 0
      [] OTHER                        -> setting

\* handle_both answers Some(DoExitApp) on this entry alone.
IsExitEntry(menu) == menu = "Exit"

\* What the idle menu prints (icon and title shortened to one string).
IdleLabel(menu) ==
    [ AppMain             |-> "Provenance",
      ShowVersion         |-> "Version",
      Settings            |-> "Settings",
      EnableBlindSigning  |-> "BlindSigningDisabled",
      DisableBlindSigning |-> "BlindSigningEnabled",
      Back                |-> "Back",
      Exit                |-> "Quit" ][menu]

\* BusyMenu::move_left and move_right go to a fixed entry wherever they start.
BusyLeft  == "Working"
BusyRight == "Cancel"

\* handle_both answers Some(DoCancel) on this entry alone.
IsCancelEntry(busy) == busy = "Cancel"

BusyLabel(busy) ==
    [ Working |-> "Working", Cancel |-> "Cancel" ][busy]
=============================================================================
