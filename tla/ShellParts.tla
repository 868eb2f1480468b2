----------------------------- MODULE ShellParts -----------------------------
(***************************************************************************)
(* The bars that show the component plan, the workspaces in them, and the  *)
(* clients of the shell and its settings, side by side: in a behaviour one *)
(* of them runs and the others rest where they start.                      *)
(***************************************************************************)
EXTENDS Naturals, Sequences, TLC

CONSTANTS
    None,
    Package, MaxHealthRevision, MaxEvents, MaxScreenChanges, MaxTimeouts,   \* bars
    Component, Content, MaxConfigRevision, MaxCatalogs, MaxAsked,           \* components
    MaxConfigEvents, MaxConfigTimeouts,
    Archive, MaxInspections, MaxManagerEvents, MaxManagerTimeouts,          \* packages
    MaxCatalogEvents, MaxCatalogTimeouts,                                   \* catalogs
    Group, MaxSettingsRevision, MaxSettingsAsked,       \* settings
    MaxSettingsEvents, MaxSettingsTimeouts,
    OwnUnit, OtherUnits, Screens, MaxChanges,           \* health
    Monitor, Workspace, Window,                         \* workspaces
    MaxDesktopChanges, MaxMoves, MaxDisruptions

VARIABLES
    subject,        \* the part that runs
    runtime, requests, replies, runtimeClient, bars, bounds,
    configService, configCalls, configNews, configClient, configBounds, reviewed,
    overwritten,
    packageManager, packageCalls, packageNews, packageClient, packageBounds, reviews,
    unreviewed,
    catalogManager, catalogCalls, catalogNews, catalogClient, catalogBounds,
    settingsService, settingsCalls, settingsNews, settingsClient, settingsBounds, offered,
    displayed,
    units, manager, reports, coordinator, queries, news, client, status, shell,
    unitEvents,
    desktop, announced, source, calls, standing, desktopBounds

shellBars == <<runtime, requests, replies, runtimeClient, bars, bounds>>
components ==
    <<configService, configCalls, configNews, configClient, configBounds, reviewed,
      overwritten>>
packages ==
    <<packageManager, packageCalls, packageNews, packageClient, packageBounds, reviews,
      unreviewed>>
catalogs == <<catalogManager, catalogCalls, catalogNews, catalogClient, catalogBounds>>
settings ==
    <<settingsService, settingsCalls, settingsNews, settingsClient, settingsBounds,
      offered, displayed>>
unitHealth ==
    <<units, manager, reports, coordinator, queries, news, client, status, shell,
      unitEvents>>
workspaces == <<desktop, announced, source, calls, standing, desktopBounds>>
clients == <<components, packages, catalogs, settings>>
parts == <<shellBars, unitHealth, workspaces>>
vars == <<subject, parts, clients>>

Bars == INSTANCE ComponentRuntimeClient
            WITH coordinator <- runtime, client <- runtimeClient, shell <- bars
ConfigClient == INSTANCE ComponentConfigClient
ManagerClient == INSTANCE ComponentManagerClient
CatalogClient == INSTANCE ComponentCatalogClient
SettingsClient == INSTANCE ConfigClient
Health == INSTANCE UnitHealth WITH calls <- queries, events <- unitEvents

Workspaces == INSTANCE WorkspaceSource

Init ==
    /\ subject \in {"bars", "components", "packages", "catalogs", "settings",
                    "health", "workspaces"}
    /\ Bars!Init
    /\ ConfigClient!Init
    /\ ManagerClient!Init
    /\ CatalogClient!Init
    /\ SettingsClient!Init
    /\ Health!Init
    /\ Workspaces!Init

OnlyBars ==
    /\ subject = "bars"
    /\ UNCHANGED <<subject, unitHealth, workspaces, clients>>

OnlyHealth ==
    /\ subject = "health"
    /\ UNCHANGED <<subject, shellBars, workspaces, clients>>

OnlyWorkspaces ==
    /\ subject = "workspaces"
    /\ UNCHANGED <<subject, shellBars, unitHealth, clients>>

OnlyComponents ==
    /\ subject = "components"
    /\ UNCHANGED <<subject, parts, packages, catalogs, settings>>

OnlyPackages ==
    /\ subject = "packages"
    /\ UNCHANGED <<subject, parts, components, catalogs, settings>>

OnlyCatalogs ==
    /\ subject = "catalogs"
    /\ UNCHANGED <<subject, parts, components, packages, settings>>

OnlySettings ==
    /\ subject = "settings"
    /\ UNCHANGED <<subject, parts, components, packages, catalogs>>

Next ==
    \/ OnlyBars /\ Bars!Next
    \/ OnlyComponents /\ ConfigClient!Next
    \/ OnlyPackages /\ ManagerClient!Next
    \/ OnlyCatalogs /\ CatalogClient!Next
    \/ OnlySettings /\ SettingsClient!Next
    \/ OnlyHealth /\ Health!Next
    \/ OnlyWorkspaces /\ Workspaces!Next

Spec == Init /\ [][Next]_vars

-----------------------------------------------------------------------------

(* The properties of each part, stated and explained in its module; a part *)
(* that rests is where it starts.                                          *)

\* No package runs in the bars without the coordinator knowing it, and bars
\* with nothing left to do show its plan.
BarsFollowThePlan == subject = "bars" => Bars!BarsFollowThePlan

\* What the bar and the settings show of the units is so, and what the bar shows
\* of the workspaces.
BarIsTrue ==
    /\ subject = "health" => Health!HealthIsShown
    /\ subject = "workspaces" => Workspaces!WorkspacesAreTrue

\* A window that calls for attention is shown as urgent for as long as its call
\* stands, and no longer.
CallsAreShown == subject = "workspaces" => Workspaces!CallsAreShown

\* The clients of configd and of the component services show what those have,
\* nothing is enabled or installed that was not reviewed as it is, and no
\* configuration of the shell is shown that there never was.
ClientsHold ==
    /\ subject = "settings" => SettingsClient!ShellSettingsHold
    /\ subject = "components" => ConfigClient!ComponentConfigHolds
    /\ subject = "packages" => ManagerClient!ManagerClientHolds
    /\ subject = "catalogs" => CatalogClient!CatalogIsCurrent

=============================================================================
