---- MODULE Editor ----
(***************************************************************************)
(* The pages on which something is drawn, edited or written: the network   *)
(* editor (src/frontend/components/map, sld and admin), the reports and    *)
(* the studies (exec, load), the assistant (ai).  Workspace adds those on  *)
(* which something is looked up.  Each page keeps its own state and        *)
(* requests; they share nothing but the server.                            *)
(***************************************************************************)
EXTENDS Naturals, TLC

CONSTANTS
  Nil,
  Calls, Turns, News,                                  \* bounds: MaxCalls, MaxTurns and MaxNews of each page
  MaxJobs, MaxOthers, MaxFaults,                       \* gdb, review
  Objects,
  Reshaped, MaxClicks,                                 \* drawing
  Types, Feeders, Marks, TypeOf, NormalOf, LiveOf,     \* layers
  Own, Others, MaxEvents, MaxEdits,                    \* selection, changes
  Filtered, Suggested,                                 \* normal
  Layers, Files, Large,                                \* exchange
  Modes, Details,                                      \* sld
  MaxElements, COL_W, ROW_H, TAP,                      \* layout
  Kinds, Reports, KindOf,                              \* periodic, loads
  Providers,                                           \* chat
  Anomalies                                            \* load

VARIABLES ui, calls, world

Gdb == INSTANCE GdbImport WITH MaxCalls <- Calls["gdb"]
Drawing == INSTANCE MapDrawing WITH MaxCalls <- Calls["drawing"], Objects <- Reshaped
Layering == INSTANCE MapLayers WITH MaxCalls <- Calls["layers"], MaxNews <- News["layers"], MaxSettings <- Turns["layers"]
Selection == INSTANCE MapSelection WITH MaxCalls <- Calls["selection"]
Normal == INSTANCE NormalPositions WITH MaxCalls <- Calls["normal"], MaxTurns <- Turns["normal"]
Panels == INSTANCE MapPanels WITH MaxCalls <- Calls["panels"], MaxTurns <- Turns["panels"]
Package == INSTANCE ChangesPanel WITH MaxCalls <- Calls["changes"], MaxTurns <- Turns["changes"]
Rev == INSTANCE Review WITH MaxCalls <- Calls["review"], MaxTurns <- Turns["review"], Packages <- Own
Diagrams == INSTANCE Sld WITH MaxCalls <- Calls["sld"], MaxTurns <- Turns["sld"], MaxNews <- News["sld"], Levels <- Details
Reporting == INSTANCE ReportPages WITH MaxCalls <- Calls["reports"], MaxTurns <- Turns["reports"]
Chat == INSTANCE AiChat WITH MaxCalls <- Calls["chat"], MaxTurns <- Turns["chat"]
Load == INSTANCE LoadPage WITH MaxCalls <- Calls["load"], MaxTurns <- Turns["load"], MaxNews <- News["load"], Ids <- Objects

\* Nil stands for null and undefined: it is no set of objects, and no style of a map.
ASSUME ObjectsAssumption == \A S \in SUBSET Objects : S # Nil

\* What the layers of the map are painted by.
ASSUME PaintAssumption ==
  \A p \in [colour : Layering!Colours, style : [live : BOOLEAN, highlight : Feeders \cup {Nil}]] : p # Nil
====
