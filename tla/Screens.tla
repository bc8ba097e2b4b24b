------------------------------- MODULE Screens -------------------------------
(***************************************************************************)
(* What the dashboard's screens are made of: the queries a component       *)
(* reads, the mutations it sends, and the components inside it.            *)
(*   shows    queries read as long as the component is there               *)
(*   opens    queries of its dialogs, sheets and expanded rows             *)
(*   once     mutations whose button is disabled while theirs is pending   *)
(*   often    mutations that may be sent again meanwhile                   *)
(*   reloads  queries its refresh button marks                             *)
(*   pushed   queries it marks when the server announces new events        *)
(***************************************************************************)
EXTENDS Hooks

Static == [shows |-> {}, opens |-> {}, once |-> {}, often |-> {}, reloads |-> {}, pushed |-> {}]

a ++ b == [part \in DOMAIN a |-> a[part] \cup b[part]]

Shows(qs)   == [Static EXCEPT !.shows = qs]
Opens(qs)   == [Static EXCEPT !.opens = qs]
Once(ms)    == [Static EXCEPT !.once = ms]
Often(ms)   == [Static EXCEPT !.often = ms]
Reloads(qs) == [Static EXCEPT !.reloads = qs]
Pushed(qs)  == [Static EXCEPT !.pushed = qs]

\* A component that is only there in a dialog, a sheet, a tab or an expanded row.
Within(c) == [c EXCEPT !.opens = c.shows \cup c.opens, !.shows = {}]

---------------------------------------------------------------------------
(* Around every screen: App.tsx, components/ *)

DomainPicker == Shows({useDomains})
AppSidebar   == DomainPicker
AppLayout    == AppSidebar
ProGate      == Shows({useLicense})
FeatureGate  == Shows({useLicense})
LicenseBanner == Shows({useLicense})

---------------------------------------------------------------------------
(* The overview: components/dashboard *)

useRealtime     == Pushed(Under(<<"stats">>))
DashboardHeader == Shows({useDomains}) ++ Reloads(Under(<<"stats">>)) ++ LicenseBanner
StatsGrid       == Shows({useOverview})
AnnotationForm  == Once({useCreateAnnotation, useUpdateAnnotation, useDeleteAnnotation})
TrafficChart    == Shows({useTimeseries, useAnnotations}) ++ AnnotationForm
VisitorMapCard  == Shows({useMapData})
TopPages        == Shows({useTopPages})
TopReferrers    == Shows({useReferrers})
CountriesCard   == Shows({useGeo})
DevicesCard     == Shows({useDevices})
BrowsersCard    == Shows({useBrowsers})
CampaignsCard   == Shows({useCampaigns})
CustomEventsCard == Shows({useEventsSummary})
OutboundLinksCard == Shows({useOutboundLinks})
ErrorsCard      == FeatureGate ++ Shows({useErrors})
WebVitalsCard   == FeatureGate ++ Shows({useVitals})
AdSpendCard     == FeatureGate ++ Shows({useAdSpend})

Dashboard ==
    useRealtime ++ DashboardHeader ++ StatsGrid ++ TrafficChart ++ VisitorMapCard
    ++ TopPages ++ TopReferrers ++ CountriesCard ++ DevicesCard ++ BrowsersCard
    ++ CampaignsCard ++ CustomEventsCard ++ OutboundLinksCard ++ ErrorsCard
    ++ WebVitalsCard ++ AdSpendCard

---------------------------------------------------------------------------
(* The reports: pages/ *)

Compare      == Shows({useDomains, useComparison})
Live         == Shows({useDomains, useLiveStats})
InstallCheck == Shows({useDomains, useInstallStatus})
BotAnalysis  == Shows({useBotAnalysis})
Heatmaps     == Shows({useHeatmapPages, useClickHeatmap, useScrollHeatmap})

EventDetailPanel == Shows({useEventsTimeseries, useEventsProps})
Events           == Shows({useEventsSummary}) ++ Within(EventDetailPanel)

ErrorDetailPanel == Shows({useLicense, useErrorDetail, useErrorTimeseries})
Errors           == ProGate ++ Shows({useErrors, useErrorTimeseries}) ++ Within(ErrorDetailPanel)

CreateFunnelForm == Shows({useCustomEventNames}) ++ Once({useCreateFunnel})
FunnelDetail     == Shows({useFunnelMetrics}) ++ Often({useDeleteFunnel})
Funnels          == ProGate ++ Shows({useFunnels}) ++ Within(CreateFunnelForm) ++ Within(FunnelDetail)

CreateGoalForm == Shows({useCustomEventNames}) ++ Once({useCreateGoal})
Goals ==
    ProGate ++ Shows({useGoals, useGoalStats}) ++ Often({useDeleteGoal}) ++ Within(CreateGoalForm)

CreateCohortForm == Once({useCreateCohort})
CohortRow        == Often({useDeleteCohort})
Cohorts          == ProGate ++ Shows({useCohorts}) ++ CreateCohortForm ++ CohortRow
Retention        == ProGate ++ Shows({useCohorts, useRetention})

CreateAlertForm == Once({useCreateAlert})
AlertRow        == Often({useUpdateAlert, useDeleteAlert})
AlertFiresList  == Shows({useAlertFires})
WebhookSection  == Shows({useWebhooks}) ++ Once({useCreateWebhook}) ++ Often({useDeleteWebhook, useTestWebhook})
Alerts ==
    ProGate ++ Shows({useAlerts}) ++ CreateAlertForm ++ AlertRow
    ++ AlertFiresList ++ WebhookSection

TokenForm        == Once({useUpdateConnectionToken})
ConnectionCard   == TokenForm
AttributionTable == Shows({useAdAttribution})
ConnectionsContent ==
    Shows({useConnections, useProviders, useLicense})
    ++ Often({useCreateConnection, useDeleteConnection, useSyncConnection})
    ++ ConnectionCard ++ AttributionTable
Connections == FeatureGate ++ ConnectionsContent

AdFraudContent ==
    Shows({useFraudSummary, useSourceQuality, useAdFraudCampaigns, useAvailableEventNames,
           useDomainSettings})
    ++ Once({handleConversionEventChange, useCreateCampaign, useDeleteCampaign})
AdFraud == ProGate ++ AdFraudContent

ReplayListContent ==
    Shows({useDomains, useReplays, useReplayStats})
    ++ Once({useDeleteReplay, useDeleteReplaysBatch})
ReplayPlayerContent ==
    Shows({useReplay}) ++ Opens({useSessionEvents}) ++ Once({useDeleteReplay})
ReplaySettingsForm ==
    Shows({useDomainSettings, useReplayStats}) ++ Once({useUpdateDomainSettings})
ReplayList     == ProGate ++ FeatureGate ++ ReplayListContent
ReplayPlayer   == ProGate ++ FeatureGate ++ ReplayPlayerContent
ReplaySettings == FeatureGate ++ ReplaySettingsForm

ConsentDashboard == ProGate ++ FeatureGate ++ Shows({useConsentAnalytics, useConsentRecords})
ConsentConfig ==
    ProGate ++ FeatureGate ++ Shows({useConsentConfig})
    ++ Once({useSaveConsentConfig, useToggleConsentBanner})

ComplianceAuditTab == Shows({usePrivacyAudit})
ErasureTab         == Shows({useVisitorLookup}) ++ Once({useEraseVisitor, useExportVisitorData})
AuditLogTab        == Shows({useAuditLog})
PrivacyCenter      == Within(ComplianceAuditTab) ++ Within(ErasureTab) ++ Within(AuditLogTab)

---------------------------------------------------------------------------
(* The tag manager and the imports: pages/tag-manager, pages/migrate *)

TagManagerContent == Shows({useContainers, useDomains}) ++ Once({useCreateContainer})
TagManager        == ProGate ++ FeatureGate ++ TagManagerContent

VersionHistory  == Shows({useContainerVersions}) ++ Once({useRollbackContainer})
PublishBar      == Once({usePublishContainer, usePreviewToken}) ++ VersionHistory
ElementPicker   == Often({usePreviewToken})
SelectorBuilder == ElementPicker
TagEditor       == Shows({useVariables}) ++ Once({useCreateTag, useUpdateTag})
TriggerEditor   == Shows({useVariables}) ++ Once({useCreateTrigger, useUpdateTrigger}) ++ SelectorBuilder
VariableEditor  == Once({useCreateVariable, useUpdateVariable})
TagList         == Shows({useTags, useTriggers}) ++ Once({useDeleteTag}) ++ Within(TagEditor)
TriggerList     == Shows({useTriggers}) ++ Once({useDeleteTrigger}) ++ Within(TriggerEditor)
VariableList    == Shows({useVariables}) ++ Once({useDeleteVariable}) ++ Within(VariableEditor)
PrivacyAudit    == Shows({useTags})
TagManagerContainer ==
    ProGate ++ Shows({useContainer, useDomains})
    ++ Once({useImportContainer, useDeleteContainer}) ++ Often({useRenameContainer})
    ++ PublishBar ++ TagList ++ Within(TriggerList) ++ Within(VariableList) ++ Within(PrivacyAudit)

StepUpload       == Often({useAnalyzeMigration})
StepDomainSelect == Shows({useDomains})
StepImport       == Shows({useMigrateJobStatus}) ++ Once({useStartMigration, stopImport})
StepDone         == Shows({useMigrateJobStatus})
GtmConverter     == Often({useGtmConvert})
MigrateWizard ==
    StepUpload ++ Within(StepDomainSelect) ++ Within(StepImport) ++ Within(StepDone) ++ GtmConverter
JobCard          == Once({handleRollback, handleCancel})
Migrate          == Shows({useMigrateJobs}) ++ MigrateWizard ++ JobCard

---------------------------------------------------------------------------
(* The settings: pages/settings *)

ShareLinksCard   == Shows({useDomains, useShareLinks}) ++ Once({useCreateShareLink}) ++ Often({useDeleteShareLink})
DomainsSettings  == Shows({useDomains}) ++ Once({useCreateDomain}) ++ Often({useDeleteDomain}) ++ ShareLinksCard
AICrawlerCard    == Once({handleSaveCrawlers})
TrackingSettings ==
    Shows({useLicense, useDomainSettings}) ++ Once({useUpdateDomainSettings}) ++ AICrawlerCard
AccountSettings  == Once({saveName})
ApiKeysSettings  == Shows({useApiKeys}) ++ Once({useCreateApiKey}) ++ Often({useRevokeApiKey})
ProviderForm     == Once({saveProvider})
SSOSettings      == ProGate ++ Shows({useSSOProviders}) ++ ProviderForm ++ Often({deleteProvider})
LicenseSettings  == Shows({useLicense}) ++ Often({useUploadLicense, useRemoveLicense})

useProviderSettings == Shows({fetchSettings}) ++ Once({handleSave, handleTest})
GoogleAdsSection    == useProviderSettings
MetaAdsSection      == useProviderSettings
MicrosoftAdsSection == useProviderSettings
ConnectionsSettings == GoogleAdsSection ++ MetaAdsSection ++ MicrosoftAdsSection
EmailSettings       == Shows({fetchEmailSettings}) ++ Once({handleSaveEmailSettings, handleTestEmail})
GeoIPSettings       == Shows({fetchGeoipSettings}) ++ Once({handleSaveGeoipSettings, handleDownloadGeoip})
UsersSettings ==
    ProGate ++ Shows({useLicense, useDomains, fetchUsers})
    ++ Once({handleCreateUser, handleEditUser}) ++ Often({handleDeleteUser})

---------------------------------------------------------------------------

\* The routes of AppLayout.
Routes ==
    {Dashboard, Live, Compare, Events, Errors, Funnels, Heatmaps, Goals, Cohorts, Retention,
     Alerts, BotAnalysis, ReplayList, ReplaySettings, ReplayPlayer, Connections, AdFraud,
     InstallCheck, DomainsSettings, TrackingSettings, EmailSettings, GeoIPSettings,
     SSOSettings, ConnectionsSettings, ApiKeysSettings, AccountSettings, UsersSettings,
     PrivacyCenter, ConsentDashboard, ConsentConfig, TagManager, TagManagerContainer, Migrate,
     LicenseSettings, Static}

Pages     == {AppLayout ++ page : page \in Routes}
Mutations == UNION {page.once \cup page.often : page \in Pages}

\* For each query: the mutations that change it, that mark it (for every property
\* or for the one selected, in their hook or in the component), and those that the
\* hooks are known to leave out.
Marks(prefixes, q) == \E p \in prefixes : IsPrefix(p, q)

ChangesIt(m, q)         == q \in Changes(m)
ChangesItAnywhere(m, q) == ChangesIt(m, q) /\ m.anywhere /\ q \in PerDomain
MarksIt(m, q)           == Marks(m.all \cup m.own \cup m.callback, q)
MarksOneOfIt(m, q)      == Marks(m.own, q) /\ ~Marks(m.all, q)
MarksItHere(m, q)       == Marks(m.callback, q) /\ ~Marks(m.all \cup m.own, q)
ForgetsIt(m, q) ==
    /\ ~MarksIt(m, q)
    /\ \E t \in m.writes :
          q \in Readers[t] /\ (t = "audit_log" \/ (t \in DOMAIN Gaps /\ m.name \in Gaps[t]))

\* What a screen has for a query; screens that have the same for it are one.
Concerning(ms, q) == {m.name : m \in {n \in ms : ChangesIt(n, q) \/ MarksIt(n, q)}}
View(page, q) ==
    [shows   |-> q \in page.shows,
     opens   |-> q \in page.opens /\ q \notin page.shows,
     once    |-> Concerning(page.once, q),
     often   |-> Concerning(page.often, q),
     reloads |-> q \in page.reloads,
     pushed  |-> q \in page.pushed]

About(q) ==
    LET known == {m \in Mutations : ChangesIt(m, q) \/ MarksIt(m, q)}
        Those(Test(_, _)) == {m.name : m \in {n \in known : Test(n, q)}}
    IN  [name        |-> q,
         perProperty |-> q \in PerDomain,
         byHand      |-> q \in InComponents,
         polled      |-> q \in PolledOnes,
         steady      |-> q \in SteadyOnes,
         changing    |-> Those(ChangesIt),
         refreshing  |-> Those(MarksIt),
         narrow      |-> Those(MarksOneOfIt),
         local       |-> Those(MarksItHere),
         forgetful   |-> Those(ForgetsIt),
         anywhere    |-> Those(ChangesItAnywhere),
         views       |-> {View(page, q) : page \in Pages}]
=============================================================================
