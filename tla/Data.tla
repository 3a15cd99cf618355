-------------------------------- MODULE Data ---------------------------------
(***************************************************************************)
(* The components that keep rows, files, connections, buckets and messages *)
(* for others, side by side: none uses a variable of another, and what    *)
(* each promises it promises whatever the others do.                       *)
(***************************************************************************)
EXTENDS Records, Client, Accounts, Pagination, Generators, RateLimit, PubSub, Sketches, Frames

dataVars ==
    <<recordVars, migrationVars, accountVars, poolVars, pageVars, ephemeralVars, generatorVars, limitVars, busVars, sketchVars, frameVars>>

DataSpec ==
    /\ RecordsInit /\ [][RecordsNext]_recordVars
    /\ MigrationsInit /\ [][MigrationsNext]_migrationVars
    /\ AccountsInit /\ [][AccountsNext]_accountVars
    /\ PoolsInit /\ [][PoolsNext]_poolVars
    /\ PagesInit /\ [][PagesNext]_pageVars
    /\ EphemeralInit /\ [][EphemeralNext]_ephemeralVars
    /\ GeneratorsInit /\ [][GeneratorsNext]_generatorVars
    /\ LimitInit /\ [][LimitNext]_limitVars
    /\ BusesInit /\ [][BusesNext]_busVars
    /\ SketchesInit /\ [][SketchesNext]_sketchVars
    /\ FramesInit /\ [][FramesNext]_frameVars

\* Rows are as the last statement that succeeded says, a migration is applied once
\* and whole and what gpp generates is too; an account's hash is of the password
\* last chosen, and no other lets a request in; walks visit their rows, temporary
\* tables belong to a session and no connection stays taken; requests pass at their
\* client's rate and are refused only at it, the buses within a process hand
\* over what they promise, a sketch denies nothing that was added and a WebSocket
\* brings its messages whole (dbcore/orm.go, migrate.go, repository.go, ephemeral.go,
\* client.go, auth_module.go:84-183, cmd/gpp/module_generator.go,
\* middleware/ratelimit.go:27-89, pubsub/pubsub.go, pubsub/redis.go,
\* bloom/bloom.go:44-169, realtime/websocket.go:62-117).
DataTruth ==
    /\ SaveTruth
    /\ MigratedOnce
    /\ AccountsSound
    /\ PoolsHonest
    /\ PagesExact
    /\ EphemeralTables
    /\ GeneratorsSound
    /\ RateBound
    /\ BusesKeepTheirWord
    /\ SketchesNeverMiss
    /\ FramesIntact
=============================================================================
