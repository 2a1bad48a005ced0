-------------------------- MODULE CatalogDatabases --------------------------
(***************************************************************************)
(* The tools of managed databases: what each handler asks of its arguments *)
(* and which requests it sends to the DigitalOcean API (first the          *)
(* handlers, in the vocabulary of ToolContract, then what Tools()          *)
(* registers: the name, the hints, the arguments the schema requires, the  *)
(* handler).                                                               *)
(***************************************************************************)
EXTENDS ToolContract
-----------------------------------------------------------------------------
(* pkg/registry/dbaas/cluster.go                                           *)

DBClusterList == Reads
DBClusterGet == Demands({"id"}, Reads)
DBClusterGetCa == Demands({"id"}, Reads)
DBClusterCreate == Creates
DBClusterDelete == Demands({"id"}, Deletes)
DBClusterResize == Demands({"id"}, Sets)
DBClusterListBackups == Demands({"id"}, Reads)
DBClusterListOptions == Reads
DBClusterUpgradeMajorVersion == Demands({"id", "version"}, Starts)
DBClusterStartOnlineMigration == Demands({"id", "source"}, Starts)
DBClusterStopOnlineMigration == Demands({"id", "migration_id"}, Starts)
DBClusterGetMigration == Demands({"id"}, Reads)

ClusterTools == {
    Tool("db-cluster-list", HintsRead, {}, DBClusterList),
    Tool("db-cluster-get", HintsRead, {"id"}, DBClusterGet),
    Tool("db-cluster-get-ca", HintsRead, {"id"}, DBClusterGetCa),
    Tool("db-cluster-create", HintsCreate,
         {"engine", "name", "num_nodes", "region", "size", "version"},
           DBClusterCreate),
    Tool("db-cluster-delete", HintsDelete, {"id"}, DBClusterDelete),
    Tool("db-cluster-resize", HintsToggle, {"id"}, DBClusterResize),
    Tool("db-cluster-list-backups", HintsRead, {"id"}, DBClusterListBackups),
    Tool("db-cluster-list-options", HintsRead, {}, DBClusterListOptions),
    Tool("db-cluster-upgrade-major-version", HintsAction,
         {"id", "version"}, DBClusterUpgradeMajorVersion),
    Tool("db-cluster-start-online-migration", HintsAction,
         {"id", "source"}, DBClusterStartOnlineMigration),
    Tool("db-cluster-stop-online-migration", HintsAction,
         {"id", "migration_id"}, DBClusterStopOnlineMigration),
    Tool("db-cluster-get-migration", HintsRead, {"id"}, DBClusterGetMigration) }
-----------------------------------------------------------------------------
(* pkg/registry/dbaas/firewall.go                                          *)

DBClusterGetFirewallRules == Demands({"id"}, Reads)
DBClusterUpdateFirewallRules == Demands({"id", "rules"}, Sets)

DBFirewallTools == {
    Tool("db-cluster-get-firewall-rules", HintsRead,
         {"id"}, DBClusterGetFirewallRules),
    Tool("db-cluster-update-firewall-rules", HintsToggle,
         {"id"}, DBClusterUpdateFirewallRules) }
-----------------------------------------------------------------------------
(* pkg/registry/dbaas/kafka.go                                             *)

DBClusterListTopics == Demands({"id"}, Reads)
DBClusterCreateTopic == Demands({"id", "name"}, Checks({"config"}, Creates))
DBClusterGetTopic == Demands({"id", "name"}, Reads)
DBClusterDeleteTopic == Demands({"id", "name"}, Unnames)
DBClusterUpdateTopic == Demands({"id", "name"}, Checks({"config"}, Sets))
DBClusterGetKafkaConfig == Demands({"id"}, Reads)
DBClusterUpdateKafkaConfig == Demands({"config", "id"}, Sets)

KafkaTools == {
    Tool("db-cluster-list-topics", HintsRead, {"id"}, DBClusterListTopics),
    Tool("db-cluster-create-topic", HintsCreate,
         {"id", "name"}, DBClusterCreateTopic),
    Tool("db-cluster-get-topic", HintsRead, {"id", "name"}, DBClusterGetTopic),
    Tool("db-cluster-delete-topic", HintsDelete,
         {"id", "name"}, DBClusterDeleteTopic),
    Tool("db-cluster-update-topic", HintsToggle,
         {"id", "name"}, DBClusterUpdateTopic),
    Tool("db-cluster-get-kafka-config", HintsRead,
         {"id"}, DBClusterGetKafkaConfig),
    Tool("db-cluster-update-kafka-config", HintsToggle,
         {"config", "id"}, DBClusterUpdateKafkaConfig) }
-----------------------------------------------------------------------------
(* pkg/registry/dbaas/mongo.go                                             *)

DBClusterGetMongodbConfig == Demands({"id"}, Reads)
DBClusterUpdateMongodbConfig == Demands({"config", "id"}, Sets)

MongoTools == {
    Tool("db-cluster-get-mongodb-config", HintsRead,
         {"id"}, DBClusterGetMongodbConfig),
    Tool("db-cluster-update-mongodb-config", HintsToggle,
         {"config", "id"}, DBClusterUpdateMongodbConfig) }
-----------------------------------------------------------------------------
(* pkg/registry/dbaas/mysql.go                                             *)

DBClusterGetMysqlConfig == Demands({"id"}, Reads)
DBClusterUpdateMysqlConfig == Demands({"config", "id"}, Sets)
DBClusterGetSqlMode == Demands({"id"}, Reads)
DBClusterSetSqlMode == Demands({"id", "modes"}, Sets)

MysqlTools == {
    Tool("db-cluster-get-mysql-config", HintsRead,
         {"id"}, DBClusterGetMysqlConfig),
    Tool("db-cluster-update-mysql-config", HintsToggle,
         {"config", "id"}, DBClusterUpdateMysqlConfig),
    Tool("db-cluster-get-sql-mode", HintsRead, {"id"}, DBClusterGetSqlMode),
    Tool("db-cluster-set-sql-mode", HintsToggle,
         {"id", "modes"}, DBClusterSetSqlMode) }
-----------------------------------------------------------------------------
(* pkg/registry/dbaas/opensearch.go                                        *)

DBClusterGetOpensearchConfig == Demands({"id"}, Reads)
DBClusterUpdateOSConfig == Demands({"config", "id"}, Sets)

OpenSearchTools == {
    Tool("db-cluster-get-opensearch-config", HintsRead,
         {"id"}, DBClusterGetOpensearchConfig),
    Tool("db-cluster-update-os-config", HintsToggle,
         {"config", "id"}, DBClusterUpdateOSConfig) }
-----------------------------------------------------------------------------
(* pkg/registry/dbaas/postgres.go                                          *)

DBClusterGetPostgresqlConfig == Demands({"id"}, Reads)
DBClusterUpdatePSQLConfig == Demands({"config", "id"}, Sets)

PostgreSQLTools == {
    Tool("db-cluster-get-postgresql-config", HintsRead,
         {"id"}, DBClusterGetPostgresqlConfig),
    Tool("db-cluster-update-psql-config", HintsToggle,
         {"config", "id"}, DBClusterUpdatePSQLConfig) }
-----------------------------------------------------------------------------
(* pkg/registry/dbaas/redis.go                                             *)

DBClusterGetRedisConfig == Demands({"id"}, Reads)
DBClusterUpdateRedisConfig == Demands({"config", "id"}, Sets)

RedisTools == {
    Tool("db-cluster-get-redis-config", HintsRead,
         {"id"}, DBClusterGetRedisConfig),
    Tool("db-cluster-update-redis-config", HintsToggle,
         {"config", "id"}, DBClusterUpdateRedisConfig) }
-----------------------------------------------------------------------------
(* pkg/registry/dbaas/user.go                                              *)

DBClusterGetUser == Demands({"id", "user"}, Reads)
DBClusterListUsers == Demands({"id"}, Reads)
DBClusterCreateUser == Demands({"id", "name"}, Checks({"settings"}, Creates))
DBClusterUpdateUser == Demands({"id", "user"}, Checks({"settings"}, Sets))
DBClusterDeleteUser == Demands({"id", "user"}, Unnames)

UserTools == {
    Tool("db-cluster-get-user", HintsRead, {"id", "user"}, DBClusterGetUser),
    Tool("db-cluster-list-users", HintsRead, {"id"}, DBClusterListUsers),
    Tool("db-cluster-create-user", HintsCreate,
         {"id", "name"}, DBClusterCreateUser),
    Tool("db-cluster-update-user", HintsToggle,
         {"id", "user"}, DBClusterUpdateUser),
    Tool("db-cluster-delete-user", HintsDelete,
         {"id", "user"}, DBClusterDeleteUser) }
=============================================================================
