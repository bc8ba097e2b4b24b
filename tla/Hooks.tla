-------------------------------- MODULE Hooks --------------------------------
(***************************************************************************)
(* The dashboard's hooks: the queries it reads, and the mutations it sends *)
(* with the keys they mark (hooks/use*.ts), and what the server's handlers *)
(* do for them (internal/api).                                             *)
(*                                                                         *)
(* A query is its key without the parameters.  A mutation is a record:     *)
(*   writes    the tables its handler writes                               *)
(*   all       prefixes of the keys it marks, whatever the property        *)
(*   own       prefixes it marks for the selected property only            *)
(*   callback  prefixes that the component sending it marks                *)
(*   anywhere  what it writes may belong to properties not selected        *)
(***************************************************************************)
EXTENDS Sequences, FiniteSets, SequencesExt

Mutation(name, writes, all) ==
    [name |-> name, writes |-> writes, all |-> all, own |-> {}, callback |-> {},
     anywhere |-> FALSE]

\* Its handler calls logAudit.
Audited(name, writes, all) == Mutation(name, writes \cup {"audit_log"}, all)

Own(m, prefixes)      == [m EXCEPT !.own = prefixes]
Callback(m, prefixes) == [m EXCEPT !.callback = prefixes]
Anywhere(m)           == [m EXCEPT !.anywhere = TRUE]

---------------------------------------------------------------------------
(* Queries. *)

\* hooks/useAnalyticsQueries.ts, useCalendarHeatmap.ts, useLiveQueries.ts
useOverview          == <<"stats", "overview">>
useTimeseries        == <<"stats", "timeseries">>
useTopPages          == <<"stats", "pages">>
useReferrers         == <<"stats", "referrers">>
useGeo               == <<"stats", "geo">>
useMapData           == <<"stats", "map">>
useDevices           == <<"stats", "devices">>
useBrowsers          == <<"stats", "browsers">>
useVitals            == <<"stats", "vitals">>
useErrors            == <<"stats", "errors">>
useErrorDetail       == <<"stats", "errors", "detail">>
useErrorTimeseries   == <<"stats", "errors", "timeseries">>
useCampaigns         == <<"stats", "campaigns">>
useCustomEvents      == <<"stats", "events">>
useOutboundLinks     == <<"stats", "outbound">>
useEventsSummary     == <<"stats", "events", "summary">>
useEventsTimeseries  == <<"stats", "events", "timeseries">>
useEventsProps       == <<"stats", "events", "props">>
useComparison        == <<"stats", "compare">>
useBotAnalysis       == <<"stats", "bots">>
useFraudSummary      == <<"stats", "fraud">>
useAvailableEventNames == <<"fraud", "event-names">>
useSourceQuality     == <<"sources", "quality">>
useAdFraudCampaigns  == <<"campaigns">>
useConnections       == <<"connections">>
useProviders         == <<"connections", "providers">>
useAdSpend           == <<"stats", "ad-spend">>
useAdAttribution     == <<"stats", "ad-attribution">>
useLiveStats         == <<"stats", "live">>
useInstallStatus     == <<"install", "status">>
useHeatmapPages      == <<"heatmap", "pages">>
useClickHeatmap      == <<"heatmap", "clicks">>
useScrollHeatmap     == <<"heatmap", "scroll">>

\* hooks/useAlerts.ts, useGoals.ts, useFunnels.ts, useCohorts.ts, useAnnotations.ts
useAlerts            == <<"alerts">>
useAlertFires        == <<"alerts", "fires">>
useWebhooks          == <<"webhooks">>
useGoals             == <<"goals">>
useGoalStats         == <<"goals", "stats">>
useCustomEventNames  == <<"custom-events">>
useFunnels           == <<"funnels">>
useFunnelMetrics     == <<"funnels", "metrics">>
useCohorts           == <<"cohorts">>
useRetention         == <<"retention">>
useAnnotations       == <<"annotations">>

\* hooks/useReplayQueries.ts, useConsent.ts, usePrivacy.ts
useReplays           == <<"replays">>
useReplay            == <<"replay">>
useReplayStats       == <<"replay-stats">>
useSessionEvents     == <<"session-events">>
useConsentConfig     == <<"consent", "config">>
useConsentAnalytics  == <<"consent", "analytics">>
useConsentRecords    == <<"consent", "records">>
usePrivacyAudit      == <<"privacy", "audit">>
useVisitorLookup     == <<"privacy", "lookup">>
useAuditLog          == <<"privacy", "audit-log">>

\* hooks/useTagManager.ts, useMigrate.ts
useContainers        == <<"tm", "containers">>
useContainer         == <<"tm", "containers", "one">>
useContainerVersions == <<"tm", "versions">>
useTags              == <<"tm", "tags">>
useTriggers          == <<"tm", "triggers">>
useVariables         == <<"tm", "variables">>
useMigrateJobs       == <<"migrate", "jobs">>
useMigrateJobStatus  == <<"migrate", "jobs", "one">>

\* hooks/useDomains.ts, useDomainSettings.ts, useLicenseQuery.ts, useApiKeys.ts,
\* useShareLinks.ts, and pages/settings/SSOSettings.tsx
useDomains           == <<"domains">>
useDomainSettings    == <<"domain-settings">>
useLicense           == <<"license">>
useApiKeys           == <<"api-keys">>
useShareLinks        == <<"share-links">>
useSSOProviders      == <<"sso", "providers">>

\* Fetched by hand into the state of a component of pages/settings.
fetchSettings        == <<"provider settings">>
fetchEmailSettings   == <<"email settings">>
fetchGeoipSettings   == <<"geoip settings">>
fetchUsers           == <<"users">>

InComponents == {fetchSettings, fetchEmailSettings, fetchGeoipSettings, fetchUsers}

\* Those with a refetchInterval; a job is polled while it runs.
SteadyOnes == {useLiveStats, useInstallStatus}
PolledOnes == SteadyOnes \cup {useMigrateJobStatus}

OneForAll == InComponents \cup
    {useAdFraudCampaigns, useProviders, useReplay, useReplayStats, useSessionEvents,
     usePrivacyAudit, useVisitorLookup, useAuditLog, useContainers, useContainer,
     useContainerVersions, useTags, useTriggers, useVariables, useMigrateJobs,
     useMigrateJobStatus, useDomains, useLicense, useApiKeys, useSSOProviders}

PerDomain ==
    {useOverview, useTimeseries, useTopPages, useReferrers, useGeo, useMapData, useDevices,
     useBrowsers, useVitals, useErrors, useErrorDetail, useErrorTimeseries, useCampaigns,
     useCustomEvents, useOutboundLinks, useEventsSummary, useEventsTimeseries,
     useEventsProps, useComparison, useBotAnalysis, useFraudSummary,
     useAvailableEventNames, useSourceQuality, useConnections, useAdSpend,
     useAdAttribution, useLiveStats, useInstallStatus, useHeatmapPages, useClickHeatmap,
     useScrollHeatmap, useAlerts, useAlertFires, useWebhooks, useGoals, useGoalStats,
     useCustomEventNames, useFunnels, useFunnelMetrics, useCohorts, useRetention,
     useAnnotations, useReplays, useConsentConfig, useConsentAnalytics,
     useConsentRecords, useDomainSettings, useShareLinks}

Queries == OneForAll \cup PerDomain

Under(prefix) == {q \in Queries : IsPrefix(prefix, q)}

---------------------------------------------------------------------------
(* The server's tables (or files, or keys of one), and the queries whose   *)
(* handlers read them, access and licence checks apart.                    *)

Visits == {useVisitorLookup, usePrivacyAudit}

Readers ==
    [events |->
        {useOverview, useTimeseries, useTopPages, useReferrers, useGeo, useMapData, useDevices,
         useBrowsers, useCampaigns, useCustomEvents, useOutboundLinks, useEventsSummary,
         useEventsTimeseries, useEventsProps, useComparison, useBotAnalysis,
         useFraudSummary, useAdAttribution, useLiveStats, useAvailableEventNames,
         useSourceQuality, useInstallStatus, useHeatmapPages, useClickHeatmap,
         useScrollHeatmap, useGoalStats, useCustomEventNames, useFunnelMetrics,
         useRetention, useSessionEvents} \cup Visits,
     performance        |-> {useVitals} \cup Visits,
     errors             |-> {useErrors, useErrorDetail, useErrorTimeseries} \cup Visits,
     consent_records    |-> {useConsentAnalytics, useConsentRecords} \cup Visits,
     visitor_sessions   |-> Visits,
     session_recordings |-> {useReplays, useReplay, useReplayStats, useSessionEvents},
     consent_configs    |-> {useConsentConfig, usePrivacyAudit},
     domains            |-> {useDomains, useContainers, useContainer, usePrivacyAudit, useGoalStats,
                             useRetention, useFunnelMetrics, useFraudSummary, useAdSpend,
                             useAdAttribution},
     domain_settings    |-> {useDomainSettings},
     conversion_event   |-> {useDomainSettings, useFraudSummary},
     domain_access      |-> {fetchUsers},
     users              |-> {fetchUsers},
     license            |-> {useLicense, usePrivacyAudit},
     audit_log          |-> {useAuditLog},
     api_keys           |-> {useApiKeys},
     share_links        |-> {useShareLinks},
     sso_providers      |-> {useSSOProviders},
     provider_settings  |-> {fetchSettings},
     email_settings     |-> {fetchEmailSettings},
     geoip_settings     |-> {fetchGeoipSettings},
     crawler_settings   |-> {},
     campaigns          |-> {useAdFraudCampaigns, useFraudSummary},
     ad_connections     |-> {useConnections, useAdSpend, useAdAttribution},
     ad_spend_daily     |-> {useAdSpend, useAdAttribution, useFraudSummary},
     alerts             |-> {useAlerts},
     webhooks           |-> {useWebhooks},
     goals              |-> {useGoals, useGoalStats},
     funnels            |-> {useFunnels, useFunnelMetrics},
     cohorts            |-> {useCohorts, useRetention},
     annotations        |-> {useAnnotations},
     tm_containers      |-> {useContainers, useContainer},
     tm_snapshots       |-> {useContainerVersions},
     tm_tags            |-> {useTags},
     tm_triggers        |-> {useTriggers},
     tm_variables       |-> {useVariables},
     import_jobs        |-> {useMigrateJobs, useMigrateJobStatus}]

\* A mutation is taken to change every query that reads a table it writes.
Changes(m) == UNION {Readers[t] : t \in m.writes}

---------------------------------------------------------------------------
(* Mutations. *)

useCreateAlert   == Audited("create alert", {"alerts"}, {<<"alerts">>})
useUpdateAlert   == Audited("update alert", {"alerts"}, {<<"alerts">>})
useDeleteAlert   == Audited("delete alert", {"alerts"}, {<<"alerts">>})
useCreateWebhook == Audited("create webhook", {"webhooks"}, {<<"webhooks">>})
useUpdateWebhook == Audited("update webhook", {"webhooks"}, {<<"webhooks">>})
useDeleteWebhook == Audited("delete webhook", {"webhooks"}, {<<"webhooks">>})
useTestWebhook   == Mutation("test webhook", {}, {})
useCreateGoal    == Audited("create goal", {"goals"}, {<<"goals">>})
useDeleteGoal    == Audited("delete goal", {"goals"}, {<<"goals">>})
useCreateFunnel  == Audited("create funnel", {"funnels"}, {<<"funnels">>})
useUpdateFunnel  == Audited("update funnel", {"funnels"}, {<<"funnels">>})
useDeleteFunnel  == Audited("delete funnel", {"funnels"}, {<<"funnels">>})
useCreateCohort  == Audited("create cohort", {"cohorts"}, {<<"cohorts">>})
useUpdateCohort  == Audited("update cohort", {"cohorts"}, {<<"cohorts">>})
useDeleteCohort  == Audited("delete cohort", {"cohorts"}, {<<"cohorts">>})
useCreateAnnotation == Audited("create annotation", {"annotations"}, {<<"annotations">>})
useUpdateAnnotation == Audited("update annotation", {"annotations"}, {<<"annotations">>})
useDeleteAnnotation == Audited("delete annotation", {"annotations"}, {<<"annotations">>})

useCreateCampaign == Anywhere(Mutation("create campaign", {"campaigns"}, {<<"campaigns">>}))
useDeleteCampaign == Anywhere(Mutation("delete campaign", {"campaigns"}, {<<"campaigns">>}))
useCreateConnection == Audited("connect", {"ad_connections"}, {<<"connections">>})
useDeleteConnection ==
    Audited("disconnect", {"ad_connections", "ad_spend_daily"}, {<<"connections">>})
useUpdateConnectionToken == Audited("renew token", {"ad_connections"}, {<<"connections">>})
useSyncConnection ==
    Audited("sync connection", {"ad_connections", "ad_spend_daily"},
            {<<"connections">>, <<"stats", "ad-spend">>, <<"stats", "ad-attribution">>})

useDeleteReplay ==
    Audited("delete replay", {"session_recordings"}, {<<"replays">>, <<"replay-stats">>})
useDeleteReplaysBatch ==
    Audited("delete replays", {"session_recordings"}, {<<"replays">>, <<"replay-stats">>})
useSaveConsentConfig ==
    Own(Mutation("save consent", {"consent_configs"}, {}),
        {<<"consent", "config">>, <<"consent", "history">>})
useToggleConsentBanner == Audited("toggle consent", {"consent_configs"}, {<<"consent">>})
useEraseVisitor ==
    Anywhere(Audited("erase visitor",
        {"events", "performance", "errors", "consent_records", "visitor_sessions"},
        {<<"privacy">>}))
useExportVisitorData == Audited("export visitor", {}, {})

useCreateContainer == Mutation("create container", {"tm_containers"}, {<<"tm", "containers">>})
useDeleteContainer == Mutation("delete container", {"tm_containers"}, {<<"tm", "containers">>})
useRenameContainer == Mutation("rename container", {"tm_containers"}, {<<"tm", "containers">>})
usePublishContainer == Mutation("publish", {"tm_containers", "tm_snapshots"}, {<<"tm">>})
useRollbackContainer == Mutation("roll back", {"tm_containers"}, {<<"tm">>})
useImportContainer ==
    Mutation("import container", {"tm_containers", "tm_tags", "tm_triggers", "tm_variables"},
             {<<"tm">>})
useCreateTag      == Mutation("create tag", {"tm_tags"}, {<<"tm", "tags">>})
useUpdateTag      == Mutation("update tag", {"tm_tags"}, {<<"tm", "tags">>})
useDeleteTag      == Mutation("delete tag", {"tm_tags"}, {<<"tm", "tags">>})
useCreateTrigger  == Mutation("create trigger", {"tm_triggers"}, {<<"tm", "triggers">>})
useUpdateTrigger  == Mutation("update trigger", {"tm_triggers"}, {<<"tm", "triggers">>})
useDeleteTrigger  == Mutation("delete trigger", {"tm_triggers"}, {<<"tm", "triggers">>})
useCreateVariable == Mutation("create variable", {"tm_variables"}, {<<"tm", "variables">>})
useUpdateVariable == Mutation("update variable", {"tm_variables"}, {<<"tm", "variables">>})
useDeleteVariable == Mutation("delete variable", {"tm_variables"}, {<<"tm", "variables">>})
usePreviewToken   == Mutation("preview token", {}, {})

\* An import writes its events after it was answered, see Elsewhere of QueryCache;
\* it is taken to write some of them before as well.
useAnalyzeMigration == Mutation("analyze import", {}, {})
useStartMigration   == Anywhere(Audited("start import", {"import_jobs", "events"}, {}))
useRollbackJob      == Anywhere(Audited("roll import back", {"import_jobs", "events"}, {}))
useCancelJob        == Audited("cancel import", {"import_jobs"}, {})
useGtmConvert       == Mutation("convert container", {}, {})

useCreateDomain == Audited("create domain", {"domains"}, {<<"domains">>})
useDeleteDomain ==
    Anywhere(Audited("delete domain", {"domains", "domain_settings", "conversion_event",
                                       "domain_access"}, {<<"domains">>}))
useUpdateDomainSettings ==
    Own(Audited("domain settings", {"domain_settings"}, {}), {<<"domain-settings">>})
useUploadLicense == Audited("upload license", {"license"}, {<<"license">>})
useRemoveLicense == Audited("remove license", {"license"}, {<<"license">>})
useCreateApiKey  == Audited("create key", {"api_keys"}, {<<"api-keys">>})
useRevokeApiKey  == Audited("revoke key", {"api_keys"}, {<<"api-keys">>})
useCreateShareLink == Audited("create link", {"share_links"}, {<<"share-links">>})
useDeleteShareLink == Audited("delete link", {"share_links"}, {<<"share-links">>})
saveProvider   == Audited("save provider", {"sso_providers"}, {<<"sso">>})
deleteProvider == Audited("delete provider", {"sso_providers"}, {<<"sso">>})

\* The handlers of the components that fetch by hand fetch again at their end.
Handler(name, writes, query) == Callback(Audited(name, writes, {}), {query})

handleSave              == Handler("save settings", {"provider_settings"}, fetchSettings)
handleTest              == Handler("save and test settings", {"provider_settings"}, fetchSettings)
handleSaveEmailSettings == Handler("save email", {"email_settings"}, fetchEmailSettings)
handleTestEmail         == Handler("save and test email", {"email_settings"}, fetchEmailSettings)
handleSaveGeoipSettings == Handler("save geoip", {"geoip_settings"}, fetchGeoipSettings)
handleDownloadGeoip     == Handler("download geoip", {"geoip_settings"}, fetchGeoipSettings)
handleCreateUser        == Handler("create user", {"users", "domain_access"}, fetchUsers)
handleEditUser          == Handler("edit user", {"users", "domain_access"}, fetchUsers)
handleDeleteUser        == Handler("delete user", {"users", "domain_access"}, fetchUsers)

\* Those of AccountSettings and of AICrawlerCard do not.
saveName           == Mutation("save name", {"users"}, {})
handleSaveCrawlers == Audited("save crawlers", {"crawler_settings"}, {})

\* AdFraud's choice of a conversion event: the hook's mutation, with the summary
\* that depends on it refreshed by the component.
handleConversionEventChange ==
    Callback([useUpdateDomainSettings EXCEPT !.name = "conversion event",
                                             !.writes = {"conversion_event", "audit_log"}],
             {<<"stats", "fraud">>})

\* JobCard marks the jobs itself.
handleRollback == Callback(useRollbackJob, {<<"migrate", "jobs">>})
handleCancel   == Callback(useCancelJob, {<<"migrate", "jobs">>})
stopImport     == [useCancelJob EXCEPT !.name = "stop import"]

---------------------------------------------------------------------------

\* What the hooks leave out: the mutations that leave queries reading a table they
\* write unmarked.  (None but "erase visitor" marks the audit log.)
Gaps ==
    [events             |-> {"start import", "roll import back", "erase visitor"},
     performance        |-> {"erase visitor"},
     errors             |-> {"erase visitor"},
     consent_records    |-> {"erase visitor"},
     import_jobs        |-> {"start import", "stop import"},
     consent_configs    |-> {"save consent", "toggle consent"},
     license            |-> {"upload license", "remove license"},
     domains            |-> {"create domain", "delete domain"},
     domain_settings    |-> {"delete domain"},
     conversion_event   |-> {"delete domain"},
     domain_access      |-> {"delete domain"},
     users              |-> {"save name"},
     campaigns          |-> {"create campaign", "delete campaign"},
     ad_connections     |-> {"connect", "disconnect", "renew token"},
     ad_spend_daily     |-> {"disconnect", "sync connection"},
     session_recordings |-> {"delete replay", "delete replays"},
     cohorts            |-> {"create cohort", "update cohort", "delete cohort"}]
=============================================================================
